---------------------------- MODULE RemoteFiles -----------------------------
(***************************************************************************)
(* The operations of the file client on trees (file_client.go): removing   *)
(* and downloading a directory walk it with one FTP command after another, *)
(* while the printer and other users of its storage go on changing it;     *)
(* listing, renaming, making a directory and uploading are one command     *)
(* each.  They are asked for by the command line (cmd/bambulan/main.go)    *)
(* and by the pages (cmd/bambulan/web.go), which clean the path first.     *)
(*                                                                         *)
(* One FTP command is one action.  How the client gets its connection and  *)
(* lets go of it, and how a single file is transferred, is FileConn.  The  *)
(* FTP server and the local file system are external.                      *)
(***************************************************************************)
EXTENDS Integers, Sequences, FiniteSets, SequencesExt

CONSTANTS
  Clients,      \* users of the storage: a page and a command, with a file client each
  Trees,        \* what may be on the printer's storage at first
  Calls,        \* what each client may ask for
  Oddities,     \* sets of entries a server may list that name nothing in the directory
  Written       \* bound: the files the printer may write meanwhile, under new names

\* A path is a sequence of names; <<>> is the root.  A plain one is as it is when it is clean.
Path == Seq(STRING)
Plain == {p \in Path : \A i \in 1..Len(p) : p[i] \notin {".", ".."}}
Kinds == {"file", "dir", "link"}

Node == [kind : Kinds, to : Plain]                 \* what is at a path, and where a link goes
Entry == [name : Path, kind : Kinds]               \* what LIST tells: a name may have separators
Commands == {"ls", "get", "getdir", "put", "mkdir", "mv", "rm", "rmr"}
Request == [what : Commands, path : Path, to : Path, rec : BOOLEAN]

IsDir(t, p) == p = <<>> \/ (p \in DOMAIN t /\ t[p].kind = "dir")

\* A tree maps the paths that exist, but for the root, to what is there; all there is on the
\* way to a path are directories.
GoodTree(t) ==
  /\ DOMAIN t \subseteq Plain \ {<<>>}
  /\ t = [p \in DOMAIN t |-> t[p]]
  /\ \A p \in DOMAIN t : t[p] \in Node
  /\ \A p \in DOMAIN t : \A n \in 1..(Len(p) - 1) : IsDir(t, SubSeq(p, 1, n))

ASSUME TreeAssumption == \A t \in Trees : GoodTree(t)
ASSUME CallAssumption == \A c \in Clients : Calls[c] \subseteq Request
ASSUME OddityAssumption == Oddities \subseteq SUBSET Entry
ASSUME WrittenAssumption == Written \subseteq Plain \ {<<>>}

VARIABLES
  odd,         \* the odd entries this server lists
  tree,        \* the printer's storage
  local,       \* the files downloaded: where, and what each was downloaded from
  op,          \* each client's operation: the call, its walk, the answer
  kept         \* recorded for each client: the files that were there since it was called

vars == <<odd, tree, local, op, kept>>

-----------------------------------------------------------------------------
(* The server's view of a path. *)

Put(f, p, n) == [q \in DOMAIN f \cup {p} |-> IF q = p THEN n ELSE f[q]]
Without(f, P) == [q \in DOMAIN f \ P |-> f[q]]
Below(p, q) == IsPrefix(p, q)
Beyond(p, q) == SubSeq(q, Len(p) + 1, Len(q))

\* A link on the way to a path is followed.
LinksAbove(t, p) == {q \in DOMAIN t : t[q].kind = "link" /\ q # p /\ Below(q, p)}
Followed(t, p) ==
  IF LinksAbove(t, p) = {} THEN p
  ELSE LET q == CHOOSE q \in LinksAbove(t, p) : TRUE IN t[q].to \o Beyond(q, p)

\* LIST and CWD follow the last name too.
Directory(t, p) ==
  LET r == Followed(t, p) IN IF r \in DOMAIN t /\ t[r].kind = "link" THEN t[r].to ELSE r

Children(t, p) == {q \in DOMAIN t : Len(q) = Len(p) + 1 /\ Below(p, q)}

\* What LIST tells: the name, as the parts between its separators, and the type.
Listing(t, p) == {[name |-> <<Last(q)>>, kind |-> t[q].kind] : q \in Children(t, Directory(t, p))}
                 \cup odd
CanList(t, p) == IsDir(t, Directory(t, p))
Special == {<<".">>, <<"..">>}
Unwalked(p) == {e \in Listing(tree, p) : e.name \notin Special}

\* DELE removes files and links, RMD empty directories.
CanDelete(t, p) == LET r == Followed(t, p) IN r \in DOMAIN t /\ t[r].kind # "dir"
CanRemoveDir(t, p) == LET r == Followed(t, p) IN r # <<>> /\ IsDir(t, r) /\ Children(t, r) = {}

-----------------------------------------------------------------------------
(* Paths. *)

\* path.Clean and filepath.Clean: "." goes, ".." takes what it follows; where nothing is to be
\* taken it stays, except that there is nothing above the root.
Enter(done, name, rooted) ==
  IF name = "." THEN done
  ELSE IF name # ".." THEN Append(done, name)
  ELSE IF done # <<>> /\ Last(done) # ".." THEN Front(done)
  ELSE IF rooted THEN done ELSE Append(done, name)

Cleaning(p, rooted) ==
  LET done[n \in 0..Len(p)] == IF n = 0 THEN <<>> ELSE Enter(done[n - 1], p[n], rooted)
  IN done

Clean(p) == Cleaning(p, FALSE)[Len(p)]
CleanRoot(p) == Cleaning(p, TRUE)[Len(p)]

\* Mutant: what the name looks like is not asked.
LocalEntryPath_Joined(dir, name) == {CleanRoot(dir \o name)}

\* Where an entry is saved: nowhere, or one path.
LocalEntryPath(dir, name) ==
  LET clean == Clean(name)
  IN IF clean = <<>> \/ clean[1] = ".." THEN {} ELSE {dir \o clean}

-----------------------------------------------------------------------------
(* An operation walks with a stack of directories: what is left to do in each. *)

Frame == [at : {"once", "delete", "list", "each"}, path : Plain, to : Path, todo : SUBSET Entry]
Operation ==
  [call : [what : Commands \cup {"none"}, path : Plain, to : Path, rec : BOOLEAN],
   stack : Seq(Frame), result : {"none", "running", "ok", "error"}]

Idle == [call |-> [what |-> "none", path |-> <<>>, to |-> <<>>, rec |-> FALSE], stack |-> <<>>,
         result |-> "none"]

Files(t) == {p \in DOMAIN t : t[p].kind = "file"}

Init ==
  /\ odd \in Oddities
  /\ tree \in Trees
  /\ local = [p \in {} |-> <<>>]
  /\ op = [c \in Clients |-> Idle]
  /\ kept = [c \in Clients |-> {}]

\* What was there all the time, recorded in every step.
Keep ==
  kept' = [c \in Clients |-> IF op[c].result = "none" THEN Files(tree') ELSE kept[c] \cap Files(tree')]

Top(c) == Head(op[c].stack)
Busy(c) == op[c].result = "running"

\* The walk goes on in other frames than the top one, or ends.
Visit(at, path, to) == [at |-> at, path |-> path, to |-> to, todo |-> {}]
Moves(c, stack, result) == op' = [op EXCEPT ![c].stack = stack, ![c].result = result]
Goes(c, frames) == Moves(c, frames \o Tail(op[c].stack), "running")
Pop(c) == Moves(c, Tail(op[c].stack), IF Len(op[c].stack) = 1 THEN "ok" ELSE "running")
Fails(c) == Moves(c, <<>>, "error")
Answer(c, ok) == Moves(c, <<>>, IF ok THEN "ok" ELSE "error")

\* The call as it reaches the file client: the pages clean their paths and refuse to delete
\* the root; the server resolves what the command line sends.
Asked(call) == [call EXCEPT !.path = CleanRoot(@)]
Refused(c, call) == c = "page" /\ call.what = "rmr" /\ CleanRoot(call.path) = <<>>

First(call) ==
  CASE call.what = "rmr" -> <<Visit("delete", call.path, <<>>)>>
    [] call.what = "getdir" -> <<Visit("list", call.path, call.to)>>
    [] OTHER -> <<Visit("once", call.path, call.to)>>

Call(c) ==
  /\ op[c].result = "none"
  /\ \E call \in Calls[c] :
       op' = [op EXCEPT ![c] =
                [call |-> Asked(call),
                 stack |-> IF Refused(c, call) THEN <<>> ELSE First(Asked(call)),
                 result |-> IF Refused(c, call) THEN "error" ELSE "running"]]
  /\ UNCHANGED <<odd, tree, local>> /\ Keep

\* The connection breaks or the context ends: the operation ends where it is.
Breaks(c) ==
  /\ Busy(c)
  /\ Fails(c)
  /\ UNCHANGED <<odd, tree, local>> /\ Keep

Does(c, what, at) == Busy(c) /\ op[c].call.what = what /\ Top(c).at = at

-----------------------------------------------------------------------------
(* removeAll. *)

\* Mutant: what can be listed is listed, and emptied.
RemoveTry_ListFirst(c) ==
  /\ Does(c, "rmr", "delete")
  /\ IF CanList(tree, Top(c).path)
     THEN Goes(c, <<[Top(c) EXCEPT !.at = "list"]>>) /\ UNCHANGED tree
     ELSE IF CanDelete(tree, Top(c).path)
     THEN Pop(c) /\ tree' = Without(tree, {Followed(tree, Top(c).path)})
     ELSE Fails(c) /\ UNCHANGED tree
  /\ UNCHANGED <<odd, local>> /\ Keep

\* A file or a link goes at once, so that nothing is emptied through a link.
RemoveTry(c) ==
  /\ Does(c, "rmr", "delete")
  /\ IF CanDelete(tree, Top(c).path)
     THEN Pop(c) /\ tree' = Without(tree, {Followed(tree, Top(c).path)})
     ELSE Goes(c, <<[Top(c) EXCEPT !.at = "list"]>>) /\ UNCHANGED tree
  /\ UNCHANGED <<odd, local>> /\ Keep

RemoveList(c) ==
  /\ Does(c, "rmr", "list")
  /\ IF CanList(tree, Top(c).path)
     THEN Goes(c, <<[Top(c) EXCEPT !.at = "each", !.todo = Unwalked(Top(c).path)]>>)
     ELSE Fails(c)
  /\ UNCHANGED <<odd, tree, local>> /\ Keep

\* The next entry: a directory is walked, all else is deleted.
RemoveEntry(c) ==
  /\ Does(c, "rmr", "each")
  /\ \E e \in Top(c).todo :
       LET full == CleanRoot(Top(c).path \o e.name)
           rest == [Top(c) EXCEPT !.todo = @ \ {e}]
       IN \/ /\ e.kind = "dir"
             /\ Goes(c, <<Visit("delete", full, <<>>), rest>>)
             /\ UNCHANGED <<odd, tree>>
          \/ /\ e.kind # "dir"
             /\ CanDelete(tree, full)
             /\ tree' = Without(tree, {Followed(tree, full)})
             /\ Goes(c, <<rest>>)
          \/ e.kind # "dir" /\ ~CanDelete(tree, full) /\ Fails(c) /\ UNCHANGED tree
  /\ UNCHANGED <<odd, local>> /\ Keep

\* Mutant: the directory itself may stay.
RemoveEmpty_Ignored(c) ==
  /\ Does(c, "rmr", "each")
  /\ Top(c).todo = {}
  /\ Pop(c)
  /\ tree' = IF CanRemoveDir(tree, Top(c).path) THEN Without(tree, {Followed(tree, Top(c).path)}) ELSE tree
  /\ UNCHANGED <<odd, local>> /\ Keep

\* The directory itself, which is empty unless something was written into it meanwhile.
RemoveEmpty(c) ==
  /\ Does(c, "rmr", "each")
  /\ Top(c).todo = {}
  /\ IF CanRemoveDir(tree, Top(c).path)
     THEN Pop(c) /\ tree' = Without(tree, {Followed(tree, Top(c).path)})
     ELSE Fails(c) /\ UNCHANGED tree
  /\ UNCHANGED <<odd, local>> /\ Keep

-----------------------------------------------------------------------------
(* DownloadDirectory. *)

DownloadList(c) ==
  /\ Does(c, "getdir", "list")
  /\ IF CanList(tree, Top(c).path)
     THEN Goes(c, <<[Top(c) EXCEPT !.at = "each", !.todo = Unwalked(Top(c).path)]>>)
     ELSE Fails(c)
  /\ UNCHANGED <<odd, tree, local>> /\ Keep

\* A file that can be retrieved, a link to one included.
Retrievable(t, p) == LET r == Directory(t, p) IN r \in DOMAIN t /\ t[r].kind = "file"

\* Mutant: the loop ends, the operation goes on.
Unretrieved_Break(c) == Goes(c, <<[Top(c) EXCEPT !.todo = {}]>>)

\* Mutant: the error is kept and the loop goes on.
Unretrieved_GoesOn(c) == Moves(c, op[c].stack, "error")

\* A file that cannot be retrieved ends the operation.
Unretrieved(c) == Fails(c)

\* The next entry: one that would be saved outside is passed over, a directory is walked if
\* that was asked for, all else is downloaded as a file.
DownloadEntry(c) ==
  /\ Does(c, "getdir", "each")
  /\ \E e \in Top(c).todo :
       LET at == LocalEntryPath(Top(c).to, e.name)
           remote == CleanRoot(Top(c).path \o e.name)
           rest == [Top(c) EXCEPT !.todo = @ \ {e}]
           pass == Goes(c, <<rest>>) /\ UNCHANGED local
       IN \/ at = {} /\ pass
          \/ at # {} /\ e.kind = "dir" /\ ~op[c].call.rec /\ pass
          \/ \E p \in at :
               \/ /\ e.kind = "dir" /\ op[c].call.rec
                  /\ Goes(c, <<Visit("list", remote, p), rest>>)
                  /\ UNCHANGED <<odd, local>>
               \/ /\ e.kind # "dir" /\ Retrievable(tree, remote)
                  /\ local' = Put(local, p, Directory(tree, remote))
                  /\ Goes(c, <<rest>>)
               \/ e.kind # "dir" /\ ~Retrievable(tree, remote) /\ Unretrieved(c) /\ UNCHANGED local
  /\ UNCHANGED <<odd, tree>> /\ Keep

DownloadDone(c) ==
  /\ Does(c, "getdir", "each")
  /\ Top(c).todo = {}
  /\ Pop(c)
  /\ UNCHANGED <<odd, tree, local>> /\ Keep

-----------------------------------------------------------------------------
(* The operations of one command. *)

\* Delete: rm without -r.
Delete(c) ==
  /\ Does(c, "rm", "once")
  /\ Answer(c, CanDelete(tree, Top(c).path))
  /\ tree' = IF CanDelete(tree, Top(c).path) THEN Without(tree, {Followed(tree, Top(c).path)}) ELSE tree
  /\ UNCHANGED <<odd, local>> /\ Keep

MakeDirectory(c) ==
  /\ Does(c, "mkdir", "once")
  /\ LET p == Followed(tree, Top(c).path)
         free == p # <<>> /\ p \notin DOMAIN tree /\ IsDir(tree, Front(p))
     IN /\ Answer(c, free)
        /\ tree' = IF free THEN Put(tree, p, [kind |-> "dir", to |-> <<>>]) ELSE tree
  /\ UNCHANGED <<odd, local>> /\ Keep

\* Rename moves all there is below.
CanMove(t, from, to) ==
  /\ from \in DOMAIN t /\ to # <<>> /\ to \notin DOMAIN t
  /\ IsDir(t, Front(to)) /\ ~Below(from, to)

Moved(t, from, to) ==
  LET moved == {q \in DOMAIN t : Below(from, q)}
  IN [r \in (DOMAIN t \ moved) \cup {to \o Beyond(from, q) : q \in moved} |->
        IF Below(to, r) THEN t[from \o Beyond(to, r)] ELSE t[r]]

Rename(c) ==
  /\ Does(c, "mv", "once")
  /\ LET from == Followed(tree, Top(c).path)
         to == Followed(tree, CleanRoot(Top(c).to))
     IN /\ Answer(c, CanMove(tree, from, to))
        /\ tree' = IF CanMove(tree, from, to) THEN Moved(tree, from, to) ELSE tree
  /\ UNCHANGED <<odd, local>> /\ Keep

\* Upload creates the file or writes it anew.
Upload(c) ==
  /\ Does(c, "put", "once")
  /\ LET p == Directory(tree, Top(c).path)
         ok == p # <<>> /\ IsDir(tree, Front(p)) /\ ~IsDir(tree, p)
     IN /\ Answer(c, ok)
        /\ tree' = IF ok THEN Put(tree, p, [kind |-> "file", to |-> <<>>]) ELSE tree
  /\ UNCHANGED <<odd, local>> /\ Keep

\* ListFiles and GetFiles change nothing.
ListFiles(c) ==
  /\ Does(c, "ls", "once")
  /\ Answer(c, CanList(tree, Top(c).path))
  /\ UNCHANGED <<odd, tree, local>> /\ Keep

\* DownloadFile, where the command line says or under the file's own name.
SavedAt(path, to) == IF to = <<>> THEN <<Last(path)>> ELSE to

DownloadFile(c) ==
  /\ Does(c, "get", "once")
  /\ LET ok == Retrievable(tree, Top(c).path)
     IN /\ Answer(c, ok)
        /\ local' = IF ok THEN Put(local, SavedAt(Top(c).path, Top(c).to), Directory(tree, Top(c).path))
                    ELSE local
  /\ UNCHANGED <<odd, tree>> /\ Keep

\* External: the printer writes a file of its own, a timelapse say.
PrinterWrites ==
  /\ \E p \in Written :
       /\ p \notin DOMAIN tree
       /\ IsDir(tree, Front(p))
       /\ tree' = Put(tree, p, [kind |-> "file", to |-> <<>>])
  /\ UNCHANGED <<odd, local, op>> /\ Keep

-----------------------------------------------------------------------------
RemoveStep(c) == RemoveTry(c) \/ RemoveList(c) \/ RemoveEntry(c) \/ RemoveEmpty(c)
DownloadStep(c) == DownloadList(c) \/ DownloadEntry(c) \/ DownloadDone(c)
OneStep(c) ==
  Delete(c) \/ MakeDirectory(c) \/ Rename(c) \/ Upload(c) \/ ListFiles(c) \/ DownloadFile(c)

Next ==
  \/ \E c \in Clients : Call(c) \/ RemoveStep(c) \/ DownloadStep(c) \/ OneStep(c) \/ Breaks(c)
  \/ PrinterWrites

Spec == Init /\ [][Next]_vars

-----------------------------------------------------------------------------
\* A walk has frames for as long as it runs, and whatever moves, the storage stays a tree.
TypeOK ==
  /\ odd \in SUBSET Entry
  /\ GoodTree(tree)
  /\ DOMAIN local \subseteq Path \ {<<>>}
  /\ op \in [Clients -> Operation]
  /\ \A c \in Clients : Busy(c) <=> op[c].stack # <<>>
  /\ kept \in [Clients -> SUBSET Plain]

Removers(q) ==
  {c \in Clients : Busy(c) /\ op[c].call.what \in {"rm", "rmr", "mv"}
                   /\ Below(Followed(tree, op[c].call.path), q)}

\* Nothing but what is at or below the path asked for is ever removed from the storage:
\* not through a link in it, not when the tree is changed meanwhile (removeAll).  A link that
\* is moved to where the removal is, and a listed name with separators, are followed.
RemovesOnlyBelow ==
  [][\A q \in DOMAIN tree \ DOMAIN tree' : Removers(q) # {}]_vars

\* When a removal succeeds, nothing is left at the path or below it, whatever was written
\* there while it ran (removeAll; a directory that is no longer empty fails).
RemovedMeansGone ==
  [][\A c \in Clients :
       Busy(c) /\ op[c].call.what = "rmr" /\ op'[c].result = "ok" =>
         \A q \in DOMAIN tree' : ~Below(op[c].call.path, q)]_vars

\* A file is only ever saved where it was asked for, or below the directory that was named for
\* the download of a directory, whatever names the server lists (DownloadFile,
\* DownloadDirectory, localEntryPath).
SavesOnlyBelow ==
  \A p \in DOMAIN local : \E c \in Clients :
    LET call == op[c].call
    IN \/ call.what = "get" /\ p = SavedAt(call.path, call.to)
       \/ call.what = "getdir" /\ Below(call.to, p)

\* When the download of a whole directory succeeds, every file that was in it all the time is
\* there, under the name it has below the directory (DownloadDirectory).
DownloadIsComplete ==
  \A c \in Clients :
    LET call == op[c].call
    IN call.what = "getdir" /\ call.rec /\ op[c].result = "ok" =>
         \A q \in kept[c] :
           Below(call.path, q) => call.to \o Beyond(call.path, q) \in DOMAIN local

=============================================================================
