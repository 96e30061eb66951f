----------------------------- MODULE Host_proofs -----------------------------
(***************************************************************************)
(* What runs on a host: the agent's main loop for every number of servers, *)
(* every breaker window and every report period (AgentLoop); and the       *)
(* transfer of files to and from it for any number of requests, paths,     *)
(* files and sizes (FileTransfer).                                         *)
(***************************************************************************)
EXTENDS AgentLoop, FileTransfer, TLAPS

\* The pointer arithmetic of the router stays among the configured nodes.
LEMMA ModInNode == ASSUME NEW a \in Nat PROVE a % N \in Node
  BY RouterAssumption DEF Node

\* NextNode keeps the router well typed.
LEMMA NextNodeType ==
  ASSUME RouterTypeOK, NEW n \in Node, NextNode(n)
  PROVE  RouterTypeOK'
  <1>1. index' \in Node
    <2>1. n + 1 \in Nat  BY RouterAssumption DEF Node
    <2>2. QED  BY <2>1, ModInNode DEF NextNode, Successor
  <1>2. QED
    BY <1>1 DEF NextNode, RouterTypeOK, FailLimit

\* Recording a result keeps the router well typed.
LEMMA RecordType ==
  ASSUME RouterTypeOK, NEW ok \in BOOLEAN, Record(ok)
  PROVE  RouterTypeOK'
  <1>1. CASE ok
    BY <1>1 DEF Record, RecordSuccess, RouterTypeOK, FailLimit
  <1>2. CASE ~ ok
    BY <1>2, RouterAssumption DEF Record, RecordFailure, RouterTypeOK, FailLimit
  <1>3. QED  BY <1>1, <1>2

\* The passing of time keeps the router well typed.
LEMMA TimeType ==
  ASSUME RouterTypeOK, NEW d \in 1 .. MaxRound, RouterTimePasses(d)
  PROVE  RouterTypeOK'
  BY RouterAssumption, LoopAssumption DEF RouterTimePasses, RouterTypeOK

\* Every step of the agent, the service manager and the environment keeps TypeOK.
LEMMA TypeStep == TypeOK /\ [Next]_vars => TypeOK'
  <1> SUFFICES ASSUME TypeOK, [Next]_vars PROVE TypeOK'
    OBVIOUS
  <1> USE DEF Goto, Steps
  <1>1. ASSUME NEW n \in Node, Boot(n) PROVE TypeOK'
    BY <1>1, NextNodeType DEF Boot, AgentRegisterHandler, TypeOK, timerVars, diskVars
  <1>2. ASSUME NEW n \in Node, Pick(n) PROVE TypeOK'
    BY <1>2, NextNodeType DEF Pick, TypeOK, timerVars, diskVars
  <1>3. CASE Heartbeat
    <2>1. Accepted \in BOOLEAN  BY DEF Accepted, TypeOK
    <2>2. RouterTypeOK'  BY <1>3, <2>1, RecordType DEF Heartbeat, TypeOK
    <2>3. QED  BY <1>3, <2>2 DEF Heartbeat, TypeOK, timerVars, diskVars
  <1>4. CASE AssetReport
    <2>1. Accepted \in BOOLEAN  BY DEF Accepted, TypeOK
    <2>2. RouterTypeOK'
      BY <1>4, <2>1, RecordType DEF AssetReport, TypeOK, routerVars, RouterTypeOK
    <2>3. QED  BY <1>4, <2>2, LoopAssumption DEF AssetReport, TypeOK, diskVars
  <1>5. CASE MetricReport
    <2>1. Accepted \in BOOLEAN  BY DEF Accepted, TypeOK
    <2>2. RouterTypeOK'
      BY <1>5, <2>1, RecordType DEF MetricReport, TypeOK, routerVars, RouterTypeOK
    <2>3. QED  BY <1>5, <2>2, LoopAssumption DEF MetricReport, TypeOK, diskVars
  <1>6. CASE TaskPoll
    <2>1. RouterTypeOK'
      <3>1. CASE RecordFailure
        BY <3>1, RecordType, FALSE \in BOOLEAN DEF Record, TypeOK
      <3>2. CASE RecordSuccess
        BY <3>2, RecordType, TRUE \in BOOLEAN DEF Record, TypeOK
      <3>3. CASE UNCHANGED routerVars
        BY <3>3 DEF routerVars, RouterTypeOK, TypeOK
      <3>4. QED  BY <1>6, <3>1, <3>2, <3>3 DEF TaskPoll
    <2>2. QED  BY <1>6, <2>1 DEF TaskPoll, TypeOK, timerVars, diskVars
  <1>7. ASSUME NEW d \in 1 .. MaxRound, Sleep(d) PROVE TypeOK'
    <2>1. RouterTypeOK'  BY <1>7, TimeType DEF Sleep, TypeOK
    <2>2. QED
      BY <1>7, <2>1, LoopAssumption DEF Sleep, Capped, TypeOK, diskVars
  <1>8. CASE UpdateGivesUp \/ BackUp \/ WriteNew \/ SwapIn \/ UpdateFails \/ CleanUp \/ Crash
    <2>1. UNCHANGED loopVars
      BY <1>8 DEF UpdateGivesUp, BackUp, WriteNew, SwapIn, UpdateFails, CleanUp, Crash
    <2>2. RouterTypeOK'
      BY <2>1 DEF loopVars, routerVars, TypeOK, RouterTypeOK
    <2>3. pc' \in Steps
      BY <1>8 DEF UpdateGivesUp, BackUp, WriteNew, SwapIn, UpdateFails, CleanUp, Crash
    <2>4. /\ exe' \in {"old", "new", "partial", "none"}
          /\ bak' \in {"old", "new", "partial", "none"}
          /\ rollbackLost' \in BOOLEAN
      BY <1>8 DEF UpdateGivesUp, BackUp, WriteNew, SwapIn, UpdateFails, CleanUp, Crash,
                  diskVars, TypeOK
    <2>5. QED
      BY <2>1, <2>2, <2>3, <2>4 DEF loopVars, timerVars, TypeOK
  <1>9. CASE Restart
    <2>1. 0 \in Node /\ 0 \in 0 .. AssetsEvery /\ 0 \in 0 .. MetricsEvery
      BY RouterAssumption, LoopAssumption DEF Node
    <2>2. RouterTypeOK'
      BY <1>9, <2>1 DEF Restart, ResetRouter, RouterTypeOK, FailLimit
    <2>3. QED  BY <1>9, <2>1, <2>2 DEF Restart, diskVars, TypeOK
  <1>10. CASE DeleteHost
    BY <1>10 DEF DeleteHost, routerVars, timerVars, diskVars, TypeOK, RouterTypeOK
  <1>11. ASSUME NEW n \in Node, ServerFlips(n) PROVE TypeOK'
    BY <1>11 DEF ServerFlips, routerVars, timerVars, diskVars, TypeOK, RouterTypeOK
  <1>12. CASE UNCHANGED vars
    BY <1>12 DEF vars, routerVars, timerVars, diskVars, TypeOK, RouterTypeOK
  <1>13. QED
    BY <1>1, <1>2, <1>3, <1>4, <1>5, <1>6, <1>7, <1>8, <1>9, <1>10, <1>11, <1>12
    DEF Next, AgentStep

\* Type correctness of the agent, whatever the cluster's size and the periods: in
\* particular the router's pointer never leaves the list of nodes, so NextNode,
\* RecordSuccess and RecordFailure never index past it.
THEOREM TypeCorrect == Spec => []TypeOK
  <1>1. Init => TypeOK
    <2> SUFFICES ASSUME Init PROVE TypeOK
      OBVIOUS
    <2>1. 0 \in Node /\ 0 \in 0 .. AssetsEvery /\ 0 \in 0 .. MetricsEvery
      BY RouterAssumption, LoopAssumption DEF Node
    <2>2. RouterTypeOK
      BY <2>1 DEF Init, NewClusterRouter, RouterTypeOK, FailLimit
    <2>3. QED  BY <2>1, <2>2 DEF Init, TypeOK, Steps
  <1>2. QED  BY <1>1, TypeStep, PTL DEF Spec

-----------------------------------------------------------------------------

\* The steps that leave the router alone, or build a new one, keep its deadlines.
LEMMA QuietRouter ==
  ASSUME TypeOK, BreakerHasDeadline, UNCHANGED routerVars \/ ResetRouter
  PROVE  BreakerHasDeadline'
  <1>1. CASE UNCHANGED routerVars
    BY <1>1 DEF BreakerHasDeadline, routerVars
  <1>2. CASE ResetRouter
    BY <1>2 DEF BreakerHasDeadline, ResetRouter, FailLimit
  <1>3. QED  BY <1>1, <1>2

\* Recording a result keeps them: a third failure sets the window.
LEMMA RecordDeadline ==
  ASSUME TypeOK, BreakerHasDeadline, RecordSuccess \/ RecordFailure
  PROVE  BreakerHasDeadline'
  <1>1. CASE RecordSuccess
    BY <1>1 DEF RecordSuccess, BreakerHasDeadline, TypeOK, RouterTypeOK, FailLimit
  <1>2. CASE RecordFailure
    BY <1>2, RouterAssumption
    DEF RecordFailure, BreakerHasDeadline, TypeOK, RouterTypeOK, FailLimit
  <1>3. QED  BY <1>1, <1>2

\* So do the scan and the passing of time.
LEMMA ScanDeadline ==
  ASSUME TypeOK, BreakerHasDeadline, NEW n \in Node, NextNode(n)
  PROVE  BreakerHasDeadline'
  BY DEF NextNode, BreakerHasDeadline, TypeOK, RouterTypeOK, FailLimit

LEMMA TimeDeadline ==
  ASSUME TypeOK, BreakerHasDeadline, NEW d \in 1 .. MaxRound, RouterTimePasses(d)
  PROVE  BreakerHasDeadline'
  BY RouterAssumption, LoopAssumption
  DEF RouterTimePasses, BreakerHasDeadline, TypeOK, RouterTypeOK

\* For every cluster size and window, a node whose breaker is open has a deadline
\* after which NextNode may return it again.
THEOREM DeadlineInvariant == Spec => []BreakerHasDeadline
  <1>1. Init => BreakerHasDeadline
    BY DEF Init, NewClusterRouter, BreakerHasDeadline, FailLimit
  <1>2. TypeOK /\ BreakerHasDeadline /\ [Next]_vars => BreakerHasDeadline'
    <2> SUFFICES ASSUME TypeOK, BreakerHasDeadline, [Next]_vars
                 PROVE  BreakerHasDeadline'
      OBVIOUS
    <2>1. CASE \E n \in Node : Boot(n) \/ Pick(n)
      BY <2>1, ScanDeadline DEF Boot, Pick
    <2>2. CASE Heartbeat \/ AssetReport \/ MetricReport \/ TaskPoll
      BY <2>2, RecordDeadline, QuietRouter
      DEF Heartbeat, AssetReport, MetricReport, TaskPoll, Record, routerVars
    <2>3. CASE \E d \in 1 .. MaxRound : Sleep(d)
      BY <2>3, TimeDeadline DEF Sleep
    <2>4. CASE UpdateGivesUp \/ BackUp \/ WriteNew \/ SwapIn \/ UpdateFails
                 \/ CleanUp \/ Crash \/ Restart
      BY <2>4, QuietRouter
      DEF UpdateGivesUp, BackUp, WriteNew, SwapIn, UpdateFails, CleanUp, Crash,
          Restart, loopVars
    <2>5. CASE DeleteHost \/ (\E n \in Node : ServerFlips(n)) \/ UNCHANGED vars
      BY <2>5, QuietRouter DEF DeleteHost, ServerFlips, vars
    <2>6. QED  BY <2>1, <2>2, <2>3, <2>4, <2>5 DEF Next, AgentStep
  <1>3. QED  BY <1>1, <1>2, TypeCorrect, PTL DEF Spec

-----------------------------------------------------------------------------

\* For every cluster size, a node with an open breaker is used only when no
\* breaker lets a request through.
THEOREM LastResort == Spec => OpenNodeOnlyAsLastResort
  <1>1. [Next]_vars => [pc = "pick" /\ pc' = "heartbeat" /\ ~ Usable(url')
                          => \A n \in Node : ~ Usable(n)]_vars
    <2> SUFFICES ASSUME Next, pc = "pick", pc' = "heartbeat", ~ Usable(url')
                 PROVE  \A n \in Node : ~ Usable(n)
      OBVIOUS
    <2>1. PICK n \in Node : Pick(n)
      BY DEF Next, AgentStep, Boot, Heartbeat, AssetReport, MetricReport, TaskPoll, Sleep,
             UpdateGivesUp, BackUp, WriteNew, SwapIn, UpdateFails, CleanUp,
             Crash, Restart, DeleteHost, ServerFlips, Goto
    <2>2. Scanned(n) /\ ~ Usable(n)
      BY <2>1 DEF Pick, NextNode
    <2>3. QED  BY <2>2 DEF Scanned
  <1>2. QED  BY <1>1, PTL DEF Spec, OpenNodeOnlyAsLastResort

-----------------------------------------------------------------------------

\* What BinarySurvives needs to be inductive: which file the update in progress
\* relies on at each of its steps.
DiskInv ==
    rollbackLost \/
    /\ pc \in {"write", "swap"} => bak = "old"
    /\ pc = "clean" => exe = "new"
    /\ pc \notin Replacing \cup {"dead"} => exe = version
    /\ pc \in {"update", "write", "swap"} => version = "old"
    /\ pc = "dead" => exe \in {"old", "new"} \/ bak = "old"

\* A step that moves neither files nor the version, and neither starts nor ends
\* an update, keeps DiskInv.
LEMMA DiskQuiet ==
  ASSUME DiskInv, UNCHANGED <<exe, bak, rollbackLost, version>>,
         pc' = pc \/ (pc \notin Replacing \cup {"dead"}
                        /\ pc' \notin Replacing \cup {"dead", "update"})
  PROVE  DiskInv'
  BY DEF DiskInv, Replacing

\* For every number of updates, failures and crashes, a complete agent binary is
\* on disk as long as every roll-back rename worked.
THEOREM BinaryInvariant == Spec => []BinarySurvives
  <1>1. Init => DiskInv
    BY DEF Init, DiskInv, Replacing
  <1>2. TypeOK /\ DiskInv /\ [Next]_vars => DiskInv'
    <2> SUFFICES ASSUME TypeOK, DiskInv, [Next]_vars PROVE DiskInv'
      OBVIOUS
    <2> USE DEF Goto
    <2>1. CASE \E n \in Node : Boot(n) \/ Pick(n)
      BY <2>1, DiskQuiet DEF Boot, Pick, diskVars, Replacing
    <2>2. CASE Heartbeat
      BY <2>2 DEF Heartbeat, diskVars, DiskInv, Replacing
    <2>3. CASE AssetReport \/ MetricReport \/ TaskPoll
                 \/ \E d \in 1 .. MaxRound : Sleep(d)
      BY <2>3, DiskQuiet
      DEF AssetReport, MetricReport, TaskPoll, Sleep, diskVars, Replacing
    <2>4. CASE UpdateGivesUp
      BY <2>4, DiskQuiet DEF UpdateGivesUp, diskVars, loopVars, Replacing
    <2>5. CASE BackUp
      BY <2>5 DEF BackUp, loopVars, DiskInv, Replacing
    <2>6. CASE WriteNew \/ SwapIn
      BY <2>6 DEF WriteNew, SwapIn, loopVars, DiskInv, Replacing
    <2>7. CASE UpdateFails
      <3>1. version = "old" \/ rollbackLost  BY <2>7 DEF UpdateFails, DiskInv, Replacing
      <3>2. QED  BY <2>7, <3>1 DEF UpdateFails, loopVars, DiskInv, Replacing
    <2>8. CASE CleanUp \/ Crash
      BY <2>8 DEF CleanUp, Crash, loopVars, DiskInv, Replacing, TypeOK, Steps
    <2>9. CASE Restart
      BY <2>9 DEF Restart, diskVars, DiskInv, Replacing
    <2>10. CASE DeleteHost \/ (\E n \in Node : ServerFlips(n)) \/ UNCHANGED vars
      BY <2>10, DiskQuiet DEF DeleteHost, ServerFlips, vars, diskVars
    <2>11. QED
      BY <2>1, <2>2, <2>3, <2>4, <2>5, <2>6, <2>7, <2>8, <2>9, <2>10 DEF Next, AgentStep
  <1>3. TypeOK /\ DiskInv => BinarySurvives
    BY DEF TypeOK, DiskInv, BinarySurvives, Replacing, Steps
  <1>4. QED  BY <1>1, <1>2, <1>3, TypeCorrect, PTL DEF Spec

-----------------------------------------------------------------------------
\* File transfer: the invariant.

Early == {"new", "dialing", "ready"}

Uploading(w) == w.op = "upload" /\ w.at \in {"open", "done"}
Downloading(w) == w.op = "download" /\ w.at \in {"open", "copied", "done"}

\* A request has its paths from its arrival on, has done nothing before it has a
\* connection, and has an object while it transfers a file.
Ordered(w) ==
    /\ w.at # "new" => w.path \in Path /\ w.to \in Path
    /\ w.at \in Early => w.obj = Nil /\ w.off = 0 /\ w.size = 0 /\ w.got = <<>>
    /\ Uploading(w) \/ Downloading(w) => w.obj \in Object

\* The first n blocks of what request r uploads.
Sent(r, n) == [i \in 1 .. n |-> <<r, i>>]

\* An upload has left in its object what it has sent so far, and has sent
\* everything when it ends.
UploadSound(r, w, c) ==
    Uploading(w) => /\ c[w.obj] = Sent(r, w.off)
                    /\ w.at = "done" => w.off = Blocks[r]

\* A download has announced the length of its object and got the first blocks of
\* it.
DownloadSound(w, c) ==
    Downloading(w) => /\ w.size = Len(c[w.obj]) /\ Len(w.got) <= w.size
                      /\ \A i \in 1 .. Len(w.got) : w.got[i] = c[w.obj][i]

\* What holds of request r at w when the objects have content c and the requests
\* in t have been disturbed.
Sound(r, w, c, t) ==
    /\ w.off <= Blocks[r]
    /\ Ordered(w)
    /\ r \notin t => UploadSound(r, w, c) /\ DownloadSound(w, c)

\* The object that an upload makes exists only after the upload has opened it.
MadeInv == \A p \in Path : entry[p] \in Req => req[entry[p]].at \notin Early

FileInv == MadeInv /\ \A r \in Req : Sound(r, req[r], content, touched)

-----------------------------------------------------------------------------
\* File transfer: a step of one request.

\* The assumptions on the constants in the form the steps need.
LEMMA ObjectFacts ==
    /\ Req \subseteq Object /\ Nil \notin Object /\ "dir" \notin Object
    /\ \A r \in Req : Blocks[r] \in Nat
    /\ \A r \in Req, n \in Nat : <<r, n>> \in Block
<1>. QED
  BY FileAssumption DEF Object, Block

\* Request r goes to w.  The rest is undisturbed if whoever's object is written
\* to is among the disturbed, and if a path gets no object but that of r.
LEMMA StepOfOne ==
    ASSUME FileTypeOK, FileInv, NEW r \in Req, NEW w \in Request,
           req' = [req EXCEPT ![r] = w],
           req[r].at \notin Early => w.at \notin Early,
           entry' \in [Path -> Object \cup {Nil, "dir"}],
           \A p, q \in Path : entry'[p] = entry'[q] /\ entry'[p] \in Object => p = q,
           \A p \in Path : entry'[p] \in Req =>
              (entry'[p] = r /\ w.at \notin Early) \/ \E q \in Path : entry[q] = entry'[p],
           content' \in [Object -> Seq(Block)],
           touched \subseteq touched', touched' \subseteq Req, trail' \subseteq Req,
           \A s \in Req \ {r} : s \notin touched' /\ req[s].obj \in Object =>
              content'[req[s].obj] = content[req[s].obj],
           Sound(r, w, content', touched')
    PROVE  FileTypeOK' /\ FileInv'
<1>1. /\ req' \in [Req -> Request] /\ req'[r] = w
      /\ \A s \in Req \ {r} : req'[s] = req[s]
  BY DEF FileTypeOK
<1>2. ASSUME NEW s \in Req PROVE Sound(s, req'[s], content', touched')
  <2>1. CASE s = r
    BY <1>1, <2>1
  <2>2. CASE s # r
    <3>1. req'[s] = req[s] /\ Sound(s, req[s], content, touched)
      BY <1>1, <2>2 DEF FileInv
    <3>2. ASSUME s \notin touched'
          PROVE  UploadSound(s, req[s], content') /\ DownloadSound(req[s], content')
      <4>1. UploadSound(s, req[s], content) /\ DownloadSound(req[s], content)
        BY <3>1, <3>2 DEF Sound
      <4>2. Uploading(req[s]) \/ Downloading(req[s]) => content'[req[s].obj] = content[req[s].obj]
        BY <2>2, <3>1, <3>2 DEF Sound, Ordered
      <4>3. QED
        BY <4>1, <4>2 DEF UploadSound, DownloadSound
    <3>3. QED
      BY <3>1, <3>2 DEF Sound
  <2>3. QED
    BY <2>1, <2>2
<1>3. MadeInv'
  <2>1. ASSUME NEW p \in Path, entry'[p] \in Req PROVE req'[entry'[p]].at \notin Early
    <3>1. CASE entry'[p] = r /\ w.at \notin Early
      BY <1>1, <3>1
    <3>2. CASE \E q \in Path : entry[q] = entry'[p]
      <4>1. req[entry'[p]].at \notin Early
        BY <2>1, <3>2 DEF FileInv, MadeInv
      <4>2. QED
        BY <1>1, <2>1, <4>1
    <3>3. QED
      BY <2>1, <3>1, <3>2
  <2>2. QED
    BY <2>1 DEF MadeInv
<1>4. \A s \in Req : req'[s].off <= Blocks[s]
  BY <1>2 DEF Sound
<1>5. FileTypeOK'
  BY <1>1, <1>4 DEF FileTypeOK
<1>6. FileInv'
  BY <1>2, <1>3 DEF FileInv
<1>7. QED
  BY <1>5, <1>6

\* The same for a step that leaves the files alone.
LEMMA StepOfRequest ==
    ASSUME FileTypeOK, FileInv, NEW r \in Req, NEW w \in Request,
           req' = [req EXCEPT ![r] = w],
           req[r].at \notin Early => w.at \notin Early,
           UNCHANGED <<entry, content>>,
           touched \subseteq touched', touched' \subseteq Req, trail' \subseteq Req,
           Sound(r, w, content, touched')
    PROVE  FileTypeOK' /\ FileInv'
<1>1. \A p \in Path : entry'[p] \in Req =>
              (entry'[p] = r /\ w.at \notin Early) \/ \E q \in Path : entry[q] = entry'[p]
  OBVIOUS
<1>2. /\ entry' \in [Path -> Object \cup {Nil, "dir"}] /\ content' \in [Object -> Seq(Block)]
      /\ \A p, q \in Path : entry'[p] = entry'[q] /\ entry'[p] \in Object => p = q
  BY DEF FileTypeOK
<1>3. \A s \in Req \ {r} : s \notin touched' /\ req[s].obj \in Object =>
              content'[req[s].obj] = content[req[s].obj]
  OBVIOUS
<1>4. Sound(r, w, content', touched')
  OBVIOUS
<1>5. QED
  BY <1>1, <1>2, <1>3, <1>4, StepOfOne

\* The initial state.
LEMMA FileStart == FileInit => FileTypeOK /\ FileInv
<1>. SUFFICES ASSUME FileInit PROVE FileTypeOK /\ FileInv
  OBVIOUS
<1>1. \A o \in Object : Blocks[o] \in Nat /\ o # Nil /\ o # "dir"
  BY FileAssumption DEF Object
<1>2. NewReq \in Request
  BY DEF NewReq, Request
<1>3. ASSUME NEW o \in Object PROVE Whole(o) \in Seq(Block)
  <2>1. \A i \in 1 .. Blocks[o] : <<o, i>> \in Block
    BY DEF Block
  <2>2. QED
    BY <1>1, <2>1 DEF Whole
<1>4. content \in [Object -> Seq(Block)]
  BY <1>3 DEF FileInit
<1>5. \A r \in Req : Sound(r, req[r], content, touched)
  <2>1. ASSUME NEW r \in Req PROVE Sound(r, NewReq, content, touched)
    BY <1>1 DEF Sound, Ordered, NewReq, Early, Uploading, Downloading, UploadSound, DownloadSound, Object
  <2>2. QED
    BY <2>1 DEF FileInit
<1>6. FileTypeOK
  <2>1. entry \in [Path -> Object \cup {Nil, "dir"}]
    BY DEF FileInit, Object
  <2>2. \A p, q \in Path : entry[p] = entry[q] /\ entry[p] \in Object => p = q
    BY <1>1 DEF FileInit
  <2>3. req \in [Req -> Request] /\ touched \subseteq Req /\ trail \subseteq Req
    BY <1>2 DEF FileInit
  <2>4. \A r \in Req : req[r].off <= Blocks[r]
    BY <1>5 DEF Sound
  <2>5. QED
    BY <1>4, <2>1, <2>2, <2>3, <2>4 DEF FileTypeOK
<1>7. MadeInv
  <2>1. \A p \in Path : entry[p] \notin Req
    BY FileAssumption DEF FileInit
  <2>2. QED
    BY <2>1 DEF MadeInv
<1>8. QED
  BY <1>5, <1>6, <1>7 DEF FileInv

-----------------------------------------------------------------------------
\* File transfer: the steps.

\* Going on to another stage changes nothing else of a request.
LEMMA StageFacts ==
    ASSUME NEW w \in Request,
           NEW a \in {"new", "dialing", "ready", "open", "copied", "done", "failed"}
    PROVE  LET v == [w EXCEPT !.at = a]
           IN  /\ v \in Request /\ v.at = a /\ v.op = w.op /\ v.path = w.path /\ v.to = w.to
               /\ v.obj = w.obj /\ v.off = w.off /\ v.size = w.size /\ v.got = w.got
<1>. QED
  BY DEF Request

\* A request that fails, or ends without having transferred a file, makes no
\* claims any more.
LEMMA IdleSound ==
    ASSUME NEW r \in Req, NEW w, NEW c, NEW t, w.off <= Blocks[r], w.at \notin Early,
           w.path \in Path, w.to \in Path, ~ Uploading(w), ~ Downloading(w)
    PROVE  Sound(r, w, c, t)
<1>. QED
  BY DEF Sound, Ordered, Early, UploadSound, DownloadSound

\* A write of the next block to an object that holds the blocks sent so far.
LEMMA WriteFacts ==
    ASSUME NEW c \in Seq(Block), NEW n \in Nat, NEW x \in Block
    PROVE  /\ WriteAt(c, n + 1, x) \in Seq(Block)
           /\ Len(c) = n => Len(WriteAt(c, n + 1, x)) = n + 1
           /\ Len(c) = n => \A k \in 1 .. (n + 1) :
                 WriteAt(c, n + 1, x)[k] = IF k = n + 1 THEN x ELSE c[k]
<1>. DEFINE m == IF n + 1 > Len(c) THEN n + 1 ELSE Len(c)
            f(k) == IF k = n + 1 THEN x ELSE IF k <= Len(c) THEN c[k] ELSE Hole
<1>1. m \in Nat /\ Len(c) \in Nat /\ (Len(c) = n => m = n + 1)
  OBVIOUS
<1>2. \A k \in 1 .. m : f(k) \in Block
  BY DEF Block
<1>3. WriteAt(c, n + 1, x) = [k \in 1 .. m |-> f(k)]
  BY DEF WriteAt
<1>. HIDE DEF m, f
<1>4. WriteAt(c, n + 1, x) \in Seq(Block) /\ Len(WriteAt(c, n + 1, x)) = m
  BY <1>1, <1>2, <1>3
<1>5. Len(c) = n => \A k \in 1 .. (n + 1) : WriteAt(c, n + 1, x)[k] = IF k = n + 1 THEN x ELSE c[k]
  <2>1. ASSUME Len(c) = n, NEW k \in 1 .. (n + 1) PROVE WriteAt(c, n + 1, x)[k] = f(k)
    BY <1>1, <1>3, <2>1
  <2>2. ASSUME Len(c) = n, NEW k \in 1 .. (n + 1) PROVE f(k) = IF k = n + 1 THEN x ELSE c[k]
    BY <2>2 DEF f
  <2>3. QED
    BY <2>1, <2>2
<1>6. QED
  BY <1>1, <1>4, <1>5

\* Every step keeps the types and the invariant.
LEMMA FileStep ==
    ASSUME FileTypeOK, FileInv, [FileNext]_fileVars
    PROVE  FileTypeOK' /\ FileInv'
<1>1. ASSUME NEW r \in Req
      PROVE  req[r] \in Request /\ Sound(r, req[r], content, touched) /\ Blocks[r] \in Nat
  BY ObjectFacts DEF FileTypeOK, FileInv
<1>2. ASSUME NEW r \in Req, req[r].at # "new"
      PROVE  req[r].path \in Path /\ req[r].to \in Path /\ req[r].off <= Blocks[r]
  BY <1>1, <1>2 DEF Sound, Ordered
<1>3. ASSUME NEW r \in Req,
             NEW op \in {"list", "download", "upload", "mkdir", "delete", "rename"},
             NEW p \in Path, NEW q \in Path, Arrive(r, op, p, q)
      PROVE  FileTypeOK' /\ FileInv'
  <2>. DEFINE w == [req[r] EXCEPT !.at = "dialing", !.op = op, !.path = p, !.to = q]
  <2>1. /\ w \in Request /\ w.at = "dialing" /\ w.op = op /\ w.path = p /\ w.to = q
        /\ w.obj = req[r].obj /\ w.off = req[r].off /\ w.size = req[r].size /\ w.got = req[r].got
    BY <1>1 DEF Request
  <2>2. req[r].at = "new" /\ req' = [req EXCEPT ![r] = w] /\ UNCHANGED <<entry, content, touched, trail>>
    BY <1>3 DEF Arrive
  <2>. HIDE DEF w
  <2>3. Sound(r, w, content, touched')
    BY <1>1, <2>1, <2>2 DEF Sound, Ordered, Early, Uploading, Downloading, UploadSound, DownloadSound
  <2>4. QED
    BY <2>1, <2>2, <2>3, StepOfRequest DEF FileTypeOK, Early
<1>4. ASSUME NEW r \in Req, DialSFTP(r) PROVE FileTypeOK' /\ FileInv'
  <2>. DEFINE w == [req[r] EXCEPT !.at = "ready"]
  <2>1. /\ w \in Request /\ w.at = "ready" /\ w.path = req[r].path /\ w.to = req[r].to
        /\ w.obj = req[r].obj /\ w.off = req[r].off /\ w.size = req[r].size /\ w.got = req[r].got
    BY <1>1, StageFacts
  <2>2. req[r].at = "dialing" /\ req' = [req EXCEPT ![r] = w] /\ UNCHANGED <<entry, content, touched, trail>>
    BY <1>4 DEF DialSFTP
  <2>. HIDE DEF w
  <2>3. Sound(r, w, content, touched')
    BY <1>1, <2>1, <2>2 DEF Sound, Ordered, Early, Uploading, Downloading, UploadSound, DownloadSound
  <2>4. QED
    BY <2>1, <2>2, <2>3, StepOfRequest DEF FileTypeOK, Early
<1>5. ASSUME NEW r \in Req, CallFails(r) \/ DownloadOpenFails(r) PROVE FileTypeOK' /\ FileInv'
  <2>. DEFINE w == [req[r] EXCEPT !.at = "failed"]
  <2>1. /\ w \in Request /\ w.at = "failed" /\ w.path = req[r].path /\ w.to = req[r].to
        /\ w.off = req[r].off
    BY <1>1, StageFacts
  <2>2. req[r].at # "new" /\ req' = [req EXCEPT ![r] = w] /\ UNCHANGED <<entry, content, touched, trail>>
    BY <1>5 DEF CallFails, DownloadOpenFails, At
  <2>. HIDE DEF w
  <2>3. Sound(r, w, content, touched')
    BY <1>2, <2>1, <2>2, IdleSound DEF Early, Uploading, Downloading
  <2>4. QED
    BY <2>1, <2>2, <2>3, StepOfRequest DEF FileTypeOK, Early
<1>6. ASSUME NEW r \in Req, NEW a \in {"list", "mkdir", "delete", "rename"}, req[r].op = a, req[r].at # "new"
      PROVE  LET w == [req[r] EXCEPT !.at = "done"]
             IN  /\ w \in Request /\ w.at \notin Early
                 /\ \A c, t : Sound(r, w, c, t)
  <2>. DEFINE w == [req[r] EXCEPT !.at = "done"]
  <2>1. /\ w \in Request /\ w.at = "done" /\ w.path = req[r].path /\ w.to = req[r].to
        /\ w.off = req[r].off /\ w.op = req[r].op
    BY <1>1, StageFacts
  <2>. HIDE DEF w
  <2>2. w.at \notin Early /\ ~ Uploading(w) /\ ~ Downloading(w)
    BY <1>6, <2>1 DEF Early, Uploading, Downloading
  <2>3. \A c, t : Sound(r, w, c, t)
    BY <1>2, <1>6, <2>1, <2>2, IdleSound
  <2>4. QED
    BY <2>1, <2>2, <2>3 DEF w
<1>7. ASSUME NEW r \in Req, FileList(r) PROVE FileTypeOK' /\ FileInv'
  <2>. DEFINE w == [req[r] EXCEPT !.at = "done"]
  <2>1. /\ req[r].op = "list" /\ req[r].at = "ready" /\ req' = [req EXCEPT ![r] = w]
        /\ UNCHANGED <<entry, content, touched, trail>>
    BY <1>7 DEF FileList, At
  <2>2. w \in Request /\ w.at \notin Early /\ Sound(r, w, content, touched')
    BY <1>6, <2>1
  <2>. HIDE DEF w
  <2>3. QED
    BY <2>1, <2>2, StepOfRequest DEF FileTypeOK
<1>8. ASSUME NEW r \in Req, FileMkdir(r) \/ FileRename(r) \/ DeleteRemove(r) PROVE FileTypeOK' /\ FileInv'
  <2>. DEFINE w == [req[r] EXCEPT !.at = "done"]
  <2>1. /\ req[r].op \in {"mkdir", "delete", "rename"} /\ req[r].at # "new" /\ req' = [req EXCEPT ![r] = w]
        /\ trail' = trail \cup {r} /\ UNCHANGED <<content, touched>>
    BY <1>8 DEF FileMkdir, FileRename, DeleteRemove, Complete, At
  <2>2. w \in Request /\ w.at \notin Early /\ Sound(r, w, content', touched')
    BY <1>6, <2>1
  <2>. HIDE DEF w
  <2>3. req[r].path \in Path /\ req[r].to \in Path
    BY <1>2, <2>1
  <2>4. /\ entry' \in [Path -> Object \cup {Nil, "dir"}]
        /\ \A p, q \in Path : entry'[p] = entry'[q] /\ entry'[p] \in Object => p = q
        /\ \A p \in Path : entry'[p] \in Object => \E q \in Path : entry[q] = entry'[p]
    <3>1. CASE FileMkdir(r)
      BY <2>3, <3>1, ObjectFacts DEF FileMkdir, FileTypeOK
    <3>2. CASE DeleteRemove(r)
      BY <2>3, <3>2, ObjectFacts DEF DeleteRemove, FileTypeOK
    <3>3. CASE FileRename(r)
      <4>1. /\ entry'[req[r].path] = Nil /\ entry[req[r].to] = Nil
            /\ req[r].to # req[r].path => entry'[req[r].to] = entry[req[r].path]
            /\ \A p \in Path \ {req[r].path, req[r].to} : entry'[p] = entry[p]
            /\ entry' \in [Path -> Object \cup {Nil, "dir"}]
        BY <2>3, <3>3 DEF FileRename, FileTypeOK
      <4>2. ASSUME NEW p \in Path, entry'[p] \in Object
            PROVE  \/ p = req[r].to /\ entry'[p] = entry[req[r].path]
                   \/ p \notin {req[r].path, req[r].to} /\ entry'[p] = entry[p]
        BY <4>1, <4>2, ObjectFacts
      <4>3. \A p \in Path : entry'[p] \in Object => \E q \in Path : entry[q] = entry'[p]
        BY <2>3, <4>2
      <4>4. \A p, q \in Path : entry'[p] = entry'[q] /\ entry'[p] \in Object => p = q
        BY <2>3, <4>2 DEF FileTypeOK
      <4>5. QED
        BY <4>1, <4>3, <4>4
    <3>4. QED
      BY <1>8, <3>1, <3>2, <3>3
  <2>5. content' \in [Object -> Seq(Block)]
    BY <2>1 DEF FileTypeOK
  <2>6. \A p \in Path : entry'[p] \in Req => \E q \in Path : entry[q] = entry'[p]
    BY <2>4, ObjectFacts
  <2>7. touched \subseteq touched' /\ touched' \subseteq Req /\ trail' \subseteq Req
    BY <2>1 DEF FileTypeOK
  <2>8. \A s \in Req \ {r} : s \notin touched' /\ req[s].obj \in Object =>
              content'[req[s].obj] = content[req[s].obj]
    BY <2>1
  <2>9. QED
    BY <2>1, <2>2, <2>4, <2>5, <2>6, <2>7, <2>8, StepOfOne
<1>9. ASSUME NEW r \in Req, DeleteStat(r) PROVE FileTypeOK' /\ FileInv'
  <2>. DEFINE o == IF entry[req[r].path] = "dir" THEN Nil ELSE entry[req[r].path]
              w == [req[r] EXCEPT !.at = "open", !.obj = o]
  <2>1. /\ req[r].op = "delete" /\ req[r].at = "ready" /\ req' = [req EXCEPT ![r] = w]
        /\ UNCHANGED <<entry, content, touched, trail>>
    BY <1>9 DEF DeleteStat, At
  <2>2. req[r].path \in Path /\ req[r].to \in Path /\ req[r].off <= Blocks[r]
    BY <1>2, <2>1
  <2>3. o \in Object \cup {Nil}
    BY <2>2 DEF FileTypeOK
  <2>. HIDE DEF o
  <2>4. /\ w \in Request /\ w.at = "open" /\ w.op = req[r].op /\ w.path = req[r].path /\ w.to = req[r].to
        /\ w.off = req[r].off
    BY <1>1, <2>3 DEF Request
  <2>. HIDE DEF w
  <2>5. Sound(r, w, content, touched')
    BY <2>1, <2>2, <2>4, IdleSound DEF Early, Uploading, Downloading
  <2>6. QED
    BY <2>1, <2>4, <2>5, StepOfRequest DEF FileTypeOK, Early
<1>10. ASSUME NEW r \in Req, UploadCreate(r) PROVE FileTypeOK' /\ FileInv'
  <2>. DEFINE o == IF entry[req[r].path] = Nil THEN r ELSE entry[req[r].path]
              w == [req[r] EXCEPT !.at = "open", !.obj = o]
  <2>1. /\ req[r].op = "upload" /\ req[r].at = "ready" /\ entry[req[r].path] # "dir"
        /\ req' = [req EXCEPT ![r] = w] /\ entry' = [entry EXCEPT ![req[r].path] = o]
        /\ content' = [content EXCEPT ![o] = <<>>] /\ trail' = trail
        /\ touched' = touched \cup {s \in Req \ {r} : req[s].obj = o}
    BY <1>10 DEF UploadCreate, At, Touch
  <2>2. req[r].path \in Path /\ req[r].to \in Path /\ req[r].off = 0 /\ Blocks[r] \in Nat
    BY <1>1, <1>2, <2>1 DEF Sound, Ordered, Early
  <2>3. o \in Object
    BY <2>1, <2>2, ObjectFacts DEF FileTypeOK
  <2>4. /\ entry' \in [Path -> Object \cup {Nil, "dir"}]
        /\ \A p, q \in Path : entry'[p] = entry'[q] /\ entry'[p] \in Object => p = q
    <3>1. \A p \in Path : entry[p] # r
      BY <2>1 DEF FileInv, MadeInv, Early
    <3>2. \A p \in Path : entry[p] = o => p = req[r].path
      BY <2>2, <2>3, <3>1 DEF FileTypeOK
    <3>. HIDE DEF o
    <3>3. QED
      BY <2>1, <2>2, <2>3, <3>2 DEF FileTypeOK
  <2>5. o = r \/ o = entry[req[r].path]
    OBVIOUS
  <2>. HIDE DEF o
  <2>6. /\ w \in Request /\ w.at = "open" /\ w.op = req[r].op /\ w.path = req[r].path /\ w.to = req[r].to
        /\ w.off = req[r].off /\ w.obj = o
    BY <1>1, <2>3 DEF Request
  <2>. HIDE DEF w
  <2>7. content' \in [Object -> Seq(Block)] /\ content'[o] = <<>>
        /\ \A x \in Object \ {o} : content'[x] = content[x]
    BY <2>1, <2>3 DEF FileTypeOK
  <2>8. Sound(r, w, content', touched')
    <3>1. Sent(r, 0) = <<>>
      BY DEF Sent
    <3>2. QED
      BY <2>1, <2>2, <2>3, <2>6, <2>7, <3>1
         DEF Sound, Ordered, Early, Uploading, Downloading, UploadSound, DownloadSound
  <2>9. w.at \notin Early
    BY <2>6 DEF Early
  <2>10. \A p \in Path : entry'[p] \in Req =>
              (entry'[p] = r /\ w.at \notin Early) \/ \E q \in Path : entry[q] = entry'[p]
    BY <2>1, <2>2, <2>5, <2>9 DEF FileTypeOK
  <2>11. touched \subseteq touched' /\ touched' \subseteq Req /\ trail' \subseteq Req
    BY <2>1 DEF FileTypeOK
  <2>12. \A s \in Req \ {r} : s \notin touched' /\ req[s].obj \in Object =>
              content'[req[s].obj] = content[req[s].obj]
    BY <2>1, <2>7
  <2>13. QED
    BY <2>1, <2>4, <2>6, <2>7, <2>8, <2>9, <2>10, <2>11, <2>12, StepOfOne
<1>11. ASSUME NEW r \in Req, UploadBlock(r) PROVE FileTypeOK' /\ FileInv'
  <2>. DEFINE o == req[r].obj
              n == req[r].off
              x == <<r, n + 1>>
              c == WriteAt(content[o], n + 1, x)
              w == [req[r] EXCEPT !.off = n + 1]
  <2>1. /\ req[r].op = "upload" /\ req[r].at = "open" /\ n < Blocks[r]
        /\ req' = [req EXCEPT ![r] = w] /\ entry' = entry
        /\ content' = [content EXCEPT ![o] = c] /\ trail' = trail
        /\ touched' = touched \cup {s \in Req \ {r} : req[s].obj = o}
    BY <1>11 DEF UploadBlock, At, Touch
  <2>2. n \in Nat /\ Blocks[r] \in Nat /\ req[r].path \in Path /\ req[r].to \in Path
    BY <1>1, <1>2, <2>1 DEF Request
  <2>3. o \in Object
    BY <1>1, <2>1 DEF Sound, Ordered, Uploading
  <2>4. /\ w \in Request /\ w.at = "open" /\ w.op = req[r].op /\ w.path = req[r].path /\ w.to = req[r].to
        /\ w.off = n + 1 /\ w.obj = o
    BY <1>1, <2>1, <2>2 DEF Request
  <2>5. content[o] \in Seq(Block) /\ x \in Block
    BY <2>2, <2>3, ObjectFacts DEF FileTypeOK
  <2>6. c \in Seq(Block)
    <3>. HIDE DEF x, n, o
    <3>1. QED
      BY <2>2, <2>5, WriteFacts
  <2>7. r \notin touched => c = Sent(r, n + 1)
    <3>. SUFFICES ASSUME r \notin touched PROVE c = Sent(r, n + 1)
      OBVIOUS
    <3>1. content[o] = Sent(r, n)
      BY <1>1, <2>1 DEF Sound, Uploading, UploadSound
    <3>2. Len(content[o]) = n /\ \A k \in 1 .. n : content[o][k] = <<r, k>>
      BY <2>2, <3>1 DEF Sent
    <3>3. Len(c) = n + 1 /\ \A k \in 1 .. (n + 1) : c[k] = IF k = n + 1 THEN x ELSE content[o][k]
      <4>. HIDE DEF x, n, o
      <4>1. QED
        BY <2>2, <2>5, <3>2, WriteFacts
    <3>. HIDE DEF c
    <3>4. ASSUME NEW k \in 1 .. (n + 1) PROVE c[k] = <<r, k>>
      <4>1. CASE k = n + 1
        BY <3>3, <4>1
      <4>2. CASE k # n + 1
        <5>1. k \in 1 .. n
          BY <2>2, <4>2
        <5>2. QED
          BY <3>2, <3>3, <4>2, <5>1
      <4>3. QED
        BY <4>1, <4>2
    <3>5. c = [k \in 1 .. (n + 1) |-> c[k]]
      BY <2>2, <2>6, <3>3
    <3>6. QED
      BY <3>4, <3>5 DEF Sent
  <2>. HIDE DEF c, w, o, n
  <2>8. content' \in [Object -> Seq(Block)] /\ content'[o] = c
        /\ \A z \in Object \ {o} : content'[z] = content[z]
    BY <2>1, <2>3, <2>6 DEF FileTypeOK
  <2>9. Sound(r, w, content', touched')
    BY <2>1, <2>2, <2>3, <2>4, <2>7, <2>8
       DEF Sound, Ordered, Early, Uploading, Downloading, UploadSound, DownloadSound
  <2>10. w.at \notin Early
    BY <2>4 DEF Early
  <2>11. /\ entry' \in [Path -> Object \cup {Nil, "dir"}]
         /\ \A p, q \in Path : entry'[p] = entry'[q] /\ entry'[p] \in Object => p = q
         /\ touched \subseteq touched' /\ touched' \subseteq Req /\ trail' \subseteq Req
    BY <2>1 DEF FileTypeOK
  <2>12. \A s \in Req \ {r} : s \notin touched' /\ req[s].obj \in Object =>
              content'[req[s].obj] = content[req[s].obj]
    BY <2>1, <2>8
  <2>13. \A p \in Path : entry'[p] \in Req => \E q \in Path : entry[q] = entry'[p]
    BY <2>1
  <2>14. QED
    BY <2>1, <2>4, <2>8, <2>9, <2>10, <2>11, <2>12, <2>13, StepOfOne
<1>12. ASSUME NEW r \in Req, UploadEnd(r) PROVE FileTypeOK' /\ FileInv'
  <2>. DEFINE w == [req[r] EXCEPT !.at = "done"]
  <2>1. /\ w \in Request /\ w.at = "done" /\ w.op = req[r].op /\ w.path = req[r].path /\ w.to = req[r].to
        /\ w.obj = req[r].obj /\ w.off = req[r].off
    BY <1>1, StageFacts
  <2>2. /\ req[r].op = "upload" /\ req[r].at = "open" /\ req[r].off = Blocks[r]
        /\ req' = [req EXCEPT ![r] = w] /\ trail' = trail \cup {r} /\ UNCHANGED <<entry, content, touched>>
    BY <1>12 DEF UploadEnd, Complete, At
  <2>. HIDE DEF w
  <2>3. Sound(r, w, content, touched')
    BY <1>1, <2>1, <2>2 DEF Sound, Ordered, Early, Uploading, Downloading, UploadSound, DownloadSound
  <2>4. QED
    BY <2>1, <2>2, <2>3, StepOfRequest DEF FileTypeOK, Early
<1>13. ASSUME NEW r \in Req, DownloadStat(r) PROVE FileTypeOK' /\ FileInv'
  <2>. DEFINE o == entry[req[r].path]
              w == [req[r] EXCEPT !.at = "open", !.obj = o, !.size = Len(content[o])]
  <2>1. /\ req[r].op = "download" /\ req[r].at = "ready" /\ o \in Object /\ req' = [req EXCEPT ![r] = w]
        /\ UNCHANGED <<entry, content, touched, trail>>
    BY <1>13 DEF DownloadStat, At
  <2>2. /\ req[r].path \in Path /\ req[r].to \in Path /\ req[r].off <= Blocks[r] /\ req[r].got = <<>>
    BY <1>1, <1>2, <2>1 DEF Sound, Ordered, Early
  <2>3. Len(content[o]) \in Nat
    BY <2>1 DEF FileTypeOK
  <2>. HIDE DEF o
  <2>4. /\ w \in Request /\ w.at = "open" /\ w.op = req[r].op /\ w.path = req[r].path /\ w.to = req[r].to
        /\ w.off = req[r].off /\ w.obj = o /\ w.size = Len(content[o]) /\ w.got = req[r].got
    BY <1>1, <2>1, <2>3 DEF Request
  <2>. HIDE DEF w
  <2>5. Sound(r, w, content, touched')
    BY <2>1, <2>2, <2>3, <2>4 DEF Sound, Ordered, Early, Uploading, Downloading, UploadSound, DownloadSound
  <2>6. QED
    BY <2>1, <2>4, <2>5, StepOfRequest DEF FileTypeOK, Early
<1>14. ASSUME NEW r \in Req, DownloadOpen(r) PROVE FileTypeOK' /\ FileInv'
  <2>. DEFINE o == entry[req[r].path]
              w == [req[r] EXCEPT !.at = "copied", !.obj = o]
  <2>1. /\ req[r].op = "download" /\ req[r].at = "open" /\ o \in Object /\ req' = [req EXCEPT ![r] = w]
        /\ touched' = (IF o = req[r].obj THEN touched ELSE touched \cup {r}) /\ UNCHANGED <<entry, content, trail>>
    BY <1>14 DEF DownloadOpen, At
  <2>2. /\ req[r].path \in Path /\ req[r].to \in Path /\ req[r].off <= Blocks[r]
    BY <1>2, <2>1
  <2>. HIDE DEF o
  <2>3. /\ w \in Request /\ w.at = "copied" /\ w.op = req[r].op /\ w.path = req[r].path /\ w.to = req[r].to
        /\ w.off = req[r].off /\ w.obj = o /\ w.size = req[r].size /\ w.got = req[r].got
    BY <1>1, <2>1 DEF Request
  <2>. HIDE DEF w
  <2>4. Sound(r, w, content, touched')
    BY <1>1, <2>1, <2>2, <2>3 DEF Sound, Ordered, Early, Uploading, Downloading, UploadSound, DownloadSound
  <2>5. QED
    BY <2>1, <2>3, <2>4, StepOfRequest DEF FileTypeOK, Early
<1>15. ASSUME NEW r \in Req, DownloadBlock(r) PROVE FileTypeOK' /\ FileInv'
  <2>. DEFINE o == req[r].obj
              g == req[r].got
              h == Append(g, content[o][Len(g) + 1])
              w == [req[r] EXCEPT !.got = h]
  <2>1. /\ req[r].op = "download" /\ req[r].at = "copied" /\ req' = [req EXCEPT ![r] = w]
        /\ Len(g) < req[r].size /\ Len(g) < Len(content[o])
        /\ UNCHANGED <<entry, content, touched, trail>>
    BY <1>15 DEF DownloadBlock, At
  <2>2. /\ req[r].path \in Path /\ req[r].to \in Path /\ req[r].off <= Blocks[r]
        /\ g \in Seq(Block) /\ req[r].size \in Nat /\ o \in Object
    BY <1>1, <1>2, <2>1 DEF Request, Sound, Ordered, Downloading
  <2>3. content[o] \in Seq(Block)
    BY <2>2 DEF FileTypeOK
  <2>4. content[o][Len(g) + 1] \in Block
    BY <2>1, <2>2, <2>3
  <2>5. /\ h \in Seq(Block) /\ Len(h) = Len(g) + 1
        /\ \A i \in 1 .. Len(g) + 1 : h[i] = IF i = Len(g) + 1 THEN content[o][i] ELSE g[i]
    BY <2>2, <2>4
  <2>. HIDE DEF h
  <2>6. /\ w \in Request /\ w.at = "copied" /\ w.op = req[r].op /\ w.path = req[r].path /\ w.to = req[r].to
        /\ w.off = req[r].off /\ w.obj = o /\ w.size = req[r].size /\ w.got = h
    BY <1>1, <2>1, <2>5 DEF Request
  <2>. HIDE DEF w
  <2>7. Downloading(w) => Downloading(req[r])
    BY <2>1 DEF Downloading
  <2>8. r \notin touched => DownloadSound(w, content)
    <3>. SUFFICES ASSUME r \notin touched PROVE DownloadSound(w, content)
      OBVIOUS
    <3>1. /\ req[r].size = Len(content[o]) /\ \A i \in 1 .. Len(g) : g[i] = content[o][i]
      BY <1>1, <2>1 DEF Sound, DownloadSound, Downloading
    <3>2. Len(w.got) <= w.size
      BY <2>1, <2>2, <2>5, <2>6
    <3>3. \A i \in 1 .. Len(w.got) : w.got[i] = content[o][i]
      BY <2>2, <2>5, <2>6, <3>1
    <3>4. QED
      BY <2>6, <3>1, <3>2, <3>3 DEF DownloadSound
  <2>9. Sound(r, w, content, touched')
    BY <2>1, <2>2, <2>6, <2>8 DEF Sound, Ordered, Early, Uploading, UploadSound
  <2>10. QED
    BY <2>1, <2>6, <2>9, StepOfRequest DEF FileTypeOK, Early
<1>16. ASSUME NEW r \in Req, NEW ok \in BOOLEAN, DownloadEnd(r, ok) PROVE FileTypeOK' /\ FileInv'
  <2>. DEFINE w == [req[r] EXCEPT !.at = "done"]
  <2>1. /\ w \in Request /\ w.at = "done" /\ w.op = req[r].op /\ w.path = req[r].path /\ w.to = req[r].to
        /\ w.obj = req[r].obj /\ w.off = req[r].off /\ w.size = req[r].size /\ w.got = req[r].got
    BY <1>1, StageFacts
  <2>2. /\ req[r].op = "download" /\ req[r].at = "copied" /\ req' = [req EXCEPT ![r] = w]
        /\ trail' = trail \cup {r} /\ UNCHANGED <<entry, content, touched>>
    BY <1>16 DEF DownloadEnd, Complete, At
  <2>. HIDE DEF w
  <2>3. Sound(r, w, content, touched')
    BY <1>1, <2>1, <2>2 DEF Sound, Ordered, Early, Uploading, Downloading, UploadSound, DownloadSound
  <2>4. QED
    BY <2>1, <2>2, <2>3, StepOfRequest DEF FileTypeOK, Early
<1>17. CASE UNCHANGED fileVars
  BY <1>17 DEF fileVars, FileTypeOK, FileInv, MadeInv
<1>18. QED
  BY <1>3, <1>4, <1>5, <1>7, <1>8, <1>9, <1>10, <1>11, <1>12, <1>13, <1>14, <1>15, <1>16, <1>17 DEF FileNext

\* FileTypeOK and FileInv hold in every reachable state.
LEMMA FileInvariant == FileSpec => [](FileTypeOK /\ FileInv)
<1>. QED
  BY FileStart, FileStep, PTL DEF FileSpec

\* Whatever requests overlap, an object is never at two paths (sftp.go).
THEOREM FileTypeCorrect == FileSpec => []FileTypeOK
<1>. QED
  BY FileInvariant, PTL

\* Files arrive whole, for any number of requests, paths, files and sizes: an
\* undisturbed upload leaves exactly its own blocks, an undisturbed download of
\* the announced length is the file (FileUploadHandler, FileDownloadHandler).
THEOREM FilesArriveWhole == FileSpec => []TransfersIntact
<1>1. ASSUME FileTypeOK, FileInv PROVE TransfersIntact
  <2>. SUFFICES ASSUME NEW r \in Req \ touched, req[r].at = "done"
                PROVE  /\ req[r].op = "upload" => content[req[r].obj] = Whole(r)
                       /\ req[r].op = "download" /\ Len(req[r].got) = req[r].size
                             => req[r].got = content[req[r].obj]
    BY DEF TransfersIntact
  <2>1. /\ UploadSound(r, req[r], content) /\ DownloadSound(req[r], content) /\ Ordered(req[r])
        /\ req[r] \in Request
    BY <1>1 DEF FileTypeOK, FileInv, Sound
  <2>2. req[r].op = "upload" => content[req[r].obj] = Whole(r)
    BY <2>1 DEF UploadSound, Uploading, Sent, Whole
  <2>3. ASSUME req[r].op = "download", Len(req[r].got) = req[r].size
        PROVE  req[r].got = content[req[r].obj]
    <3>1. /\ req[r].got \in Seq(Block) /\ req[r].obj \in Object
          /\ Len(req[r].got) = Len(content[req[r].obj])
          /\ \A i \in 1 .. Len(req[r].got) : req[r].got[i] = content[req[r].obj][i]
      BY <2>1, <2>3 DEF DownloadSound, Downloading, Ordered, Request
    <3>2. content[req[r].obj] \in Seq(Block)
      BY <1>1, <3>1 DEF FileTypeOK
    <3>3. \A s, t \in Seq(Block) : Len(s) = Len(t) /\ (\A i \in 1 .. Len(s) : s[i] = t[i]) => s = t
      OBVIOUS
    <3>4. QED
      BY <3>1, <3>2, <3>3
  <2>4. QED
    BY <2>2, <2>3
<1>2. QED
  BY <1>1, FileInvariant, PTL

=============================================================================
