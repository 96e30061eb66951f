----------------------------- MODULE FileTransfer -----------------------------
(***************************************************************************)
(* File management on a host over SFTP (server/controllers/sftp.go, with   *)
(* ssh_conn.go and pathutil.go): list, download, upload, mkdir, delete and *)
(* rename by several administrators at once.                               *)
(*                                                                         *)
(* Every request has a connection of its own, and each of its SFTP calls   *)
(* is a step.  An open file is a handle on an object, not on a path: it    *)
(* stays with the object when the path is renamed, deleted or given to     *)
(* another file.  Content is a sequence of blocks, each known by the file  *)
(* it came from and its number there.                                      *)
(***************************************************************************)
EXTENDS Integers, Sequences, FiniteSets

CONSTANTS
    Req,    \* requests; each is made at most once
    Path,   \* safe and clean paths (pathSafe, path.Clean, sanitizeUploadTarget)
    Old,    \* objects that exist at the beginning
    Blocks, \* Blocks[o]: the length of an old file, or of what request o uploads
    Hole,   \* a block that was never written
    Nil

ASSUME FileAssumption ==
    /\ Req \cap Old = {} /\ Nil \notin Req \cup Old /\ "dir" \notin Req \cup Old
    /\ Blocks \in [Req \cup Old -> Nat]

VARIABLES
    entry,   \* entry[p]: Nil, "dir", or the object at path p
    content, \* content[o]: the blocks of an object
    req,     \* req[r]: the request and where it is
    touched, \* history: requests whose object another one has written to
    trail    \* requests with an audit record

fileVars == <<entry, content, req, touched, trail>>

\* An upload to a new path makes an object named after the request.
Object == Req \cup Old

Whole(o) == [i \in 1 .. Blocks[o] |-> <<o, i>>]

NewReq == [at |-> "new", op |-> Nil, path |-> Nil, to |-> Nil,
           obj |-> Nil, off |-> 0, size |-> 0, got |-> <<>>]

Block == (Object \X Nat) \cup {Hole}

Request ==
    [at : {"new", "dialing", "ready", "open", "copied", "done", "failed"},
     op : {Nil, "list", "download", "upload", "mkdir", "delete", "rename"},
     path : Path \cup {Nil}, to : Path \cup {Nil},
     obj : Object \cup {Nil}, off : Nat, size : Nat, got : Seq(Block)]

\* An object is at one path at most.
FileTypeOK ==
    /\ entry \in [Path -> Object \cup {Nil, "dir"}]
    /\ \A p, q \in Path : entry[p] = entry[q] /\ entry[p] \in Object => p = q
    /\ content \in [Object -> Seq(Block)]
    /\ req \in [Req -> Request]
    /\ \A r \in Req : req[r].off <= Blocks[r]
    /\ touched \subseteq Req /\ trail \subseteq Req

FileInit ==
    /\ entry \in [Path -> Old \cup {Nil}]
    /\ \A p, q \in Path : entry[p] = entry[q] /\ entry[p] # Nil => p = q
    /\ content = [o \in Object |-> IF o \in Old THEN Whole(o) ELSE <<>>]
    /\ req = [r \in Req |-> NewReq]
    /\ touched = {} /\ trail = {}

At(r, op, s) == req[r].op = op /\ req[r].at = s

\* The call succeeds, the audit record is written and the answer sent.
Complete(r) ==
    /\ req' = [req EXCEPT ![r].at = "done"]
    /\ trail' = trail \cup {r}

\* Everyone else who has handled object o has to expect that it changed.
Touch(r, o) == touched' = touched \cup {s \in Req \ {r} : req[s].obj = o}

-----------------------------------------------------------------------------

Arrive(r, op, p, q) ==
    /\ req[r].at = "new"
    /\ op = "rename" \/ q = p
    /\ req' = [req EXCEPT ![r] = [@ EXCEPT !.at = "dialing", !.op = op, !.path = p, !.to = q]]
    /\ UNCHANGED <<entry, content, touched, trail>>

\* dialSFTP: the channel is resolved, an SSH and an SFTP connection opened.
DialSFTP(r) ==
    /\ req[r].at = "dialing"
    /\ req' = [req EXCEPT ![r].at = "ready"]
    /\ UNCHANGED <<entry, content, touched, trail>>

\* A call fails: the handler answers with an error and undoes nothing.
CallFails(r) ==
    /\ req[r].at \in {"dialing", "ready"} \/ At(r, "upload", "open") \/ At(r, "delete", "open")
    /\ req' = [req EXCEPT ![r].at = "failed"]
    /\ UNCHANGED <<entry, content, touched, trail>>

\* ReadDir; nothing is recorded.
FileList(r) ==
    /\ At(r, "list", "ready")
    /\ req' = [req EXCEPT ![r].at = "done"]
    /\ UNCHANGED <<entry, content, touched, trail>>

\* MkdirAll succeeds on a directory that exists.
FileMkdir(r) ==
    /\ At(r, "mkdir", "ready") /\ entry[req[r].path] \in {Nil, "dir"}
    /\ entry' = [entry EXCEPT ![req[r].path] = "dir"]
    /\ Complete(r)
    /\ UNCHANGED <<content, touched>>

\* Mutant: the old name stays.
FileRenameCopies(r) ==
    /\ At(r, "rename", "ready")
    /\ entry[req[r].path] # Nil /\ entry[req[r].to] = Nil
    /\ entry' = [entry EXCEPT ![req[r].to] = entry[req[r].path]]
    /\ Complete(r)
    /\ UNCHANGED <<content, touched>>

\* The server refuses to rename to a path that exists.
FileRename(r) ==
    /\ At(r, "rename", "ready")
    /\ entry[req[r].path] # Nil /\ entry[req[r].to] = Nil
    /\ entry' = [entry EXCEPT ![req[r].to] = entry[req[r].path], ![req[r].path] = Nil]
    /\ Complete(r)
    /\ UNCHANGED <<content, touched>>

\* FileDeleteHandler: Stat, then RemoveDirectory or Remove by what it said;
\* Remove also takes an empty directory that came in between.
DeleteStat(r) ==
    /\ At(r, "delete", "ready") /\ entry[req[r].path] # Nil
    /\ LET o == IF entry[req[r].path] = "dir" THEN Nil ELSE entry[req[r].path]
       IN  req' = [req EXCEPT ![r] = [@ EXCEPT !.at = "open", !.obj = o]]
    /\ UNCHANGED <<entry, content, touched, trail>>

DeleteRemove(r) ==
    /\ At(r, "delete", "open")
    /\ entry[req[r].path] = "dir" \/ (entry[req[r].path] # Nil /\ req[r].obj # Nil)
    /\ entry' = [entry EXCEPT ![req[r].path] = Nil]
    /\ Complete(r)
    /\ UNCHANGED <<content, touched>>

-----------------------------------------------------------------------------
\* FileUploadHandler; the form has been read completely before.

\* Mutant: the file is opened without being emptied.
UploadCreateKeeps(r) ==
    /\ At(r, "upload", "ready") /\ entry[req[r].path] # "dir"
    /\ LET o == IF entry[req[r].path] = Nil THEN r ELSE entry[req[r].path]
       IN  /\ entry' = [entry EXCEPT ![req[r].path] = o]
           /\ req' = [req EXCEPT ![r] = [@ EXCEPT !.at = "open", !.obj = o]]
           /\ Touch(r, o)
    /\ UNCHANGED <<content, trail>>

\* sftp.Create empties a file that exists.
UploadCreate(r) ==
    /\ At(r, "upload", "ready") /\ entry[req[r].path] # "dir"
    /\ LET o == IF entry[req[r].path] = Nil THEN r ELSE entry[req[r].path]
       IN  /\ entry' = [entry EXCEPT ![req[r].path] = o]
           /\ content' = [content EXCEPT ![o] = <<>>]
           /\ req' = [req EXCEPT ![r] = [@ EXCEPT !.at = "open", !.obj = o]]
           /\ Touch(r, o)
    /\ UNCHANGED trail

\* A write at position i; what lies between the end and i becomes a hole.
WriteAt(s, i, x) ==
    [k \in 1 .. (IF i > Len(s) THEN i ELSE Len(s)) |->
        IF k = i THEN x ELSE IF k <= Len(s) THEN s[k] ELSE Hole]

\* One block of io.Copy; the handle keeps its own offset.
UploadBlock(r) ==
    /\ At(r, "upload", "open") /\ req[r].off < Blocks[r]
    /\ content' = [content EXCEPT ![req[r].obj] = WriteAt(@, req[r].off + 1, <<r, req[r].off + 1>>)]
    /\ req' = [req EXCEPT ![r].off = @ + 1]
    /\ Touch(r, req[r].obj)
    /\ UNCHANGED <<entry, trail>>

UploadEnd(r) ==
    /\ At(r, "upload", "open") /\ req[r].off = Blocks[r]
    /\ Complete(r)
    /\ UNCHANGED <<entry, content, touched>>

-----------------------------------------------------------------------------
\* FileDownloadHandler: Content-Length is the size that Stat found at the path,
\* the body is what Open finds there later.

DownloadStat(r) ==
    /\ At(r, "download", "ready") /\ entry[req[r].path] \in Object
    /\ LET o == entry[req[r].path]
       IN  req' = [req EXCEPT ![r] = [@ EXCEPT !.at = "open", !.obj = o, !.size = Len(content[o])]]
    /\ UNCHANGED <<entry, content, touched, trail>>

DownloadOpen(r) ==
    /\ At(r, "download", "open") /\ entry[req[r].path] \in Object
    /\ req' = [req EXCEPT ![r] = [@ EXCEPT !.at = "copied", !.obj = entry[req[r].path]]]
    /\ touched' = IF entry[req[r].path] = req[r].obj THEN touched ELSE touched \cup {r}
    /\ UNCHANGED <<entry, content, trail>>

DownloadOpenFails(r) ==
    /\ At(r, "download", "open") /\ entry[req[r].path] \notin Object
    /\ req' = [req EXCEPT ![r].at = "failed"]
    /\ UNCHANGED <<entry, content, touched, trail>>

\* io.Copy up to the announced length.
DownloadBlock(r) ==
    /\ At(r, "download", "copied")
    /\ Len(req[r].got) < req[r].size /\ Len(req[r].got) < Len(content[req[r].obj])
    /\ req' = [req EXCEPT ![r].got = Append(req[r].got, content[req[r].obj][Len(req[r].got) + 1])]
    /\ UNCHANGED <<entry, content, touched, trail>>

\* The end of the file, or a connection that broke: both are recorded alike.
DownloadEnd(r, ok) ==
    /\ At(r, "download", "copied")
    /\ ok => Len(req[r].got) = req[r].size \/ Len(req[r].got) >= Len(content[req[r].obj])
    /\ Complete(r)
    /\ UNCHANGED <<entry, content, touched>>

-----------------------------------------------------------------------------

FileNext ==
    \E r \in Req :
        \/ \E op \in {"list", "download", "upload", "mkdir", "delete", "rename"}, p, q \in Path :
              Arrive(r, op, p, q)
        \/ DialSFTP(r) \/ CallFails(r)
        \/ FileList(r) \/ FileMkdir(r) \/ FileRename(r)
        \/ DeleteStat(r) \/ DeleteRemove(r)
        \/ UploadCreate(r) \/ UploadBlock(r) \/ UploadEnd(r)
        \/ DownloadStat(r) \/ DownloadOpen(r) \/ DownloadOpenFails(r) \/ DownloadBlock(r)
        \/ \E ok \in BOOLEAN : DownloadEnd(r, ok)

FileSpec == FileInit /\ [][FileNext]_fileVars

-----------------------------------------------------------------------------
\* Properties.

\* Files arrive whole.  An upload that was answered and recorded has left
\* exactly its own blocks in the object it opened, though the object held a
\* longer file before and its path was renamed or deleted meanwhile; and a
\* download that gave the announced number of blocks gave the whole file.  Both
\* fail only when another upload writes to the same object, or when the path
\* names another file between Stat and Open.
TransfersIntact ==
    \A r \in Req \ touched : req[r].at = "done" =>
        /\ req[r].op = "upload" => content[req[r].obj] = Whole(r)
        /\ req[r].op = "download" /\ Len(req[r].got) = req[r].size
              => req[r].got = content[req[r].obj]

=============================================================================
