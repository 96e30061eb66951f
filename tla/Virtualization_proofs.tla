------------------------ MODULE Virtualization_proofs ------------------------
(***************************************************************************)
(* Proofs about the requests to Proxmox VE and vSphere, for any requests,  *)
(* guests and nodes.                                                       *)
(***************************************************************************)
EXTENDS Virtualization, TLAPS

\* The operations: which are kept apart, and what the router makes of them.
LEMMA OperationFacts ==
  /\ \A op \in Operation : Route(op) \in Operation
  /\ Write \cap (PVEList \cup VMList \cup PVEGet \cup VMGet) = {}
  /\ (PVEList \cup VMList) \cap (PVEGet \cup VMGet) = {}
  /\ Write \subseteq Audited /\ Write \subseteq Operation
  /\ "guests" \notin VSphere /\ "vms" \in VSphere
  /\ "guests" \notin PVEGet \cup VMGet \cup Write /\ "vms" \notin PVEGet \cup VMGet \cup Write
  BY DEF Operation, Route, Write, PVEList, VMList, PVEGet, VMGet, Audited, VSphere,
         PowerGuest, PowerVM, PVESnapshot, VMSnapshot

\* The parts of a list are parts.
LEMMA PartFacts ==
  /\ VMParts \subseteq Part /\ VMParts \subseteq Guest
  /\ \A op \in PVEList, nodes \in SUBSET Node : PVEParts(op, nodes) \subseteq Part
  <1>0. VMParts \subseteq Guest
    BY DEF VMParts
  <1>1. VMParts \subseteq Part
    BY Zenon DEF Part
  <1>2. ASSUME NEW op \in PVEList, NEW nodes \in SUBSET Node
        PROVE  PVEParts(op, nodes) \subseteq Part
    <2>1. PVEParts(op, nodes) \subseteq PVEParts(op, Node)
      BY DEF PVEParts
    <2>2. PVEParts(op, Node) \subseteq Part
      BY DEF Part
    <2>3. QED  BY <2>1, <2>2
  <1>3. QED  BY <1>0, <1>1, <1>2

\* The answer for a part shows guests, each with its node.
LEMMA ContentsType ==
  ASSUME TypeOK, NEW part \in Part
  PROVE  Contents(part) \subseteq Guest \X (Node \cup {None})
  <1>1. CASE part \in VMParts
    BY <1>1 DEF Contents, VMParts
  <1>2. CASE part \notin VMParts
    <2>1. part[1] \in Node
      <3>1. PICK op \in PVEList : part \in PVEParts(op, Node)
        BY <1>2, Zenon DEF Part
      <3>2. QED  BY <3>1 DEF PVEParts
    <2>2. QED  BY <1>2, <2>1 DEF Contents, TypeOK
  <1>3. QED  BY <1>1, <1>2

\* What the steps of a list make of a request.
LEMMA ListRecords ==
  ASSUME NEW x \in RequestState, NEW todo, todo \subseteq Part, NEW missed, missed \subseteq Part,
         NEW shown, shown \subseteq Guest \X (Node \cup {None})
  PROVE  /\ [x EXCEPT !.at = "listing", !.todo = todo, !.missed = missed] \in RequestState
         /\ [x EXCEPT !.at = "listing", !.todo = todo, !.missed = missed].op = x.op
         /\ [x EXCEPT !.todo = todo, !.shown = shown, !.missed = missed] \in RequestState
  <1> DEFINE S == SUBSET (Guest \X (Node \cup {None}))
             P == SUBSET Part
             O == Operation \cup {None}
             G == Guest \cup {None}
             M == SUBSET Guest
  <1>1. RequestState = [at : Stage, op : O, guest : G, todo : P, shown : S, missed : P, moved : M]
    BY DEF RequestState
  <1>2. "listing" \in Stage  BY DEF Stage
  <1>3. todo \in P /\ missed \in P /\ shown \in S
    OBVIOUS
  <1> HIDE DEF S, P, O, G, M
  <1>4. QED  BY <1>1, <1>2, <1>3

-----------------------------------------------------------------------------
\* What has happened by the time a request is at a certain stage.

Early == {"new", "arrived", "checked"}

StageInv ==
    \A r \in Req :
        /\ req[r].at \in Early => r \notin session
        /\ req[r].at \in Early \cup {"connected"} => job[r] = "none" /\ req[r].shown = {}
        /\ req[r].at \notin {"returning", "done"} => r \notin trail
        /\ req[r].at = "listing" => req[r].op \in PVEList \cup VMList
        /\ req[r].at = "waiting" => req[r].op \in Write /\ job[r] # "none"
        /\ req[r].at = "called" /\ req[r].op \in Write =>
              job[r] # "none" /\ (req[r].op \in VSphere => job[r] = "ok")

\* Every step keeps the types.
LEMMA TypeStep == TypeOK /\ StageInv /\ [Next]_vars => TypeOK'
  <1> SUFFICES ASSUME TypeOK, StageInv, [Next]_vars PROVE TypeOK'
    OBVIOUS
  <1> USE DEF TypeOK, At, Go
  <1>0. NewReq \in RequestState
    BY DEF NewReq, RequestState, Stage
  <1>a. ASSUME NEW r \in Req, NEW s \in Stage, Go(r, s)
        PROVE  req' \in [Req -> RequestState] /\ \A q \in Req : req'[q].op = req[q].op
    BY <1>a DEF RequestState
  <1>b. \A r \in Req : req[r] \in RequestState
    OBVIOUS
  <1>1. ASSUME NEW r \in Req, NEW op \in Offered[r], NEW g \in Guest \cup {None}, Arrive(r, op, g)
        PROVE  TypeOK'
    <2>1. Route(op) \in Operation
      BY OperationFacts, VirtualizationAssumption
    <2>2. req' \in [Req -> RequestState]
      BY <1>1, <2>1, <1>0 DEF Arrive, RequestState, NewReq, Stage
    <2>3. r \notin session /\ r \notin trail /\ \A q \in Req \ {r} : req'[q] = req[q]
      BY <1>1 DEF Arrive, StageInv, Early
    <2>4. QED  BY <1>1, <2>2, <2>3 DEF Arrive
  <1>2. ASSUME NEW r \in Req, CheckChannel(r) PROVE TypeOK'
    <2>1. \E s \in Stage : Go(r, s)
      BY <1>2 DEF CheckChannel, Stage
    <2>2. QED  BY <1>2, <2>1, <1>a DEF CheckChannel
  <1>3. ASSUME NEW r \in Req, NEW ok \in BOOLEAN, Connect(r, ok) PROVE TypeOK'
    <2>1. \E s \in Stage : Go(r, s)
      BY <1>3 DEF Connect, Stage
    <2>2. QED  BY <1>3, <2>1, <1>a DEF Connect
  <1>4. ASSUME NEW r \in Req, ConnectLost(r) PROVE TypeOK'
    <2>1. \E s \in Stage : Go(r, s)
      BY <1>4 DEF ConnectLost, Stage
    <2>2. QED  BY <1>4, <2>1, <1>a DEF ConnectLost
  <1>5. ASSUME NEW r \in Req,
               \/ CallAccepted(r) \/ CallLost(r) \/ CallFails(r) \/ Wait(r) \/ WaitBroken(r)
               \/ Get(r) \/ ListEnd(r)
        PROVE  TypeOK'
    <2>1. \E s \in Stage : Go(r, s)
      BY <1>5 DEF CallAccepted, CallLost, CallFails, Wait, WaitBroken, Get, ListEnd, Stage
    <2>2. /\ UNCHANGED <<enabled, place, session, gone, trail>>
          /\ cut' \in {cut, cut \cup {r}}
          /\ job' \in {job, [job EXCEPT ![r] = "running"]}
      BY <1>5 DEF CallAccepted, CallLost, CallFails, Wait, WaitBroken, Get, ListEnd
    <2>3. QED  BY <2>1, <2>2, <1>a
  <1>6. ASSUME NEW r \in Req, NEW online \in SUBSET Node, ListBegin(r, online) PROVE TypeOK'
    <2>1. /\ req[r].op \in PVEList \/ req[r].op \in VSphere
      BY <1>6 DEF ListBegin, VSphere
    <2>2. PICK todo \in SUBSET Part, missed \in SUBSET Part :
             req' = [req EXCEPT ![r] =
                       [req[r] EXCEPT !.at = "listing", !.todo = todo, !.missed = missed]]
      BY <1>6, <2>1, PartFacts DEF ListBegin
    <2>3. req' \in [Req -> RequestState] /\ \A q \in Req : req'[q].op = req[q].op
      <3> HIDE DEF TypeOK
      <3> DEFINE x == [req[r] EXCEPT !.at = "listing", !.todo = todo, !.missed = missed]
      <3>1. req[r] \in RequestState /\ todo \subseteq Part /\ missed \subseteq Part
               /\ {} \subseteq Guest \X (Node \cup {None})
        BY <1>b
      <3>2. x \in RequestState /\ x.op = req[r].op
        BY ONLY <3>1, ListRecords, Zenon
      <3> HIDE DEF x
      <3>3. QED  BY <2>2, <3>2 DEF x, TypeOK
    <2>4. QED  BY <1>6, <2>3 DEF ListBegin
  <1>7. ASSUME NEW r \in Req, NEW part \in req[r].todo, NEW ok \in BOOLEAN, ListPart(r, part, ok)
        PROVE  TypeOK'
    <2>1. part \in Part
      BY DEF RequestState
    <2>2. Contents(part) \subseteq Guest \X (Node \cup {None})
      BY <2>1, ContentsType
    <2>3. req[r].shown \subseteq Guest \X (Node \cup {None})
      BY DEF RequestState
    <2>4. req[r].todo \subseteq Part /\ req[r].missed \subseteq Part
      BY DEF RequestState
    <2>5. PICK todo, shown, missed :
             /\ todo = req[r].todo \ {part}
             /\ shown = IF ok THEN req[r].shown \cup Contents(part) ELSE req[r].shown
             /\ missed = IF ok THEN req[r].missed ELSE req[r].missed \cup {part}
      OBVIOUS
    <2>6. /\ req[r] \in RequestState /\ todo \subseteq Part /\ missed \subseteq Part
          /\ shown \subseteq Guest \X (Node \cup {None})
      BY <1>b, <2>1, <2>2, <2>3, <2>4, <2>5
    <2> DEFINE x == [req[r] EXCEPT !.todo = todo, !.shown = shown, !.missed = missed]
    <2>7. req' = [req EXCEPT ![r] = x]
      BY <1>7, <2>5 DEF ListPart
    <2>8. x \in RequestState /\ x.op = req[r].op
      <3>1. x \in RequestState
        BY ONLY <2>6, ListRecords, Zenon
      <3>2. x.op = req[r].op
        BY ONLY <2>6 DEF RequestState
      <3>3. QED  BY <3>1, <3>2
    <2> HIDE DEF x
    <2>9. req' \in [Req -> RequestState] /\ \A q \in Req : req'[q].op = req[q].op
      BY <2>7, <2>8
    <2>10. QED  BY <1>7, <2>9 DEF ListPart
  <1>8. ASSUME NEW r \in Req, NEW ok \in BOOLEAN, Audit(r, ok) PROVE TypeOK'
    <2>1. req' \in [Req -> RequestState] /\ \A q \in Req : req'[q].op = req[q].op
      BY <1>8, <1>0 DEF Audit, RequestState, NewReq, Stage
    <2>2. QED  BY <1>8, <2>1 DEF Audit
  <1>9. ASSUME NEW r \in Req, NEW ok \in BOOLEAN, Return(r, ok) PROVE TypeOK'
    <2>1. \E s \in Stage : Go(r, s)
      BY <1>9 DEF Return, Stage
    <2>2. QED  BY <1>9, <2>1, <1>a DEF Return
  <1>10. ASSUME NEW r \in Req, ClientGone(r) PROVE TypeOK'
    BY <1>10 DEF ClientGone
  <1>11. ASSUME NEW r \in Req, NEW v \in {"ok", "failed"}, JobEnds(r, v) PROVE TypeOK'
    BY <1>11 DEF JobEnds
  <1>12. ASSUME NEW p \in DOMAIN enabled, SetChannel(p) PROVE TypeOK'
    BY <1>12 DEF SetChannel
  <1>13. ASSUME NEW g \in DOMAIN place, NEW n \in Node, Migrate(g, n) PROVE TypeOK'
    <2>1. place' \in [{h \in Guest : Kind[h] # "vm"} -> Node]
      BY <1>13 DEF Migrate
    <2>2. req' \in [Req -> RequestState] /\ \A q \in Req : req'[q].op = req[q].op
      <3>1. g \in Guest
        OBVIOUS
      <3>2. \A q \in Req : [req[q] EXCEPT !.moved = @ \cup {g}] \in RequestState
        BY <3>1 DEF RequestState
      <3>3. \A q \in Req : [req[q] EXCEPT !.moved = @ \cup {g}].op = req[q].op
        BY DEF RequestState
      <3>4. QED  BY <1>13, <3>2, <3>3 DEF Migrate
    <2>3. QED  BY <1>13, <2>1, <2>2 DEF Migrate
  <1>14. CASE UNCHANGED vars
    BY <1>14 DEF vars
  <1> HIDE DEF TypeOK, At, Go
  <1>15. QED
    BY <1>1, <1>2, <1>3, <1>4, <1>5, <1>6, <1>7, <1>8, <1>9, <1>10, <1>11, <1>12, <1>13, <1>14
       DEF Next

\* Most steps move a request to another stage and leave the rest of it alone.
LEMMA GoFacts ==
  ASSUME TypeOK, NEW r \in Req, NEW s, Go(r, s)
  PROVE  /\ req'[r].at = s /\ req'[r].op = req[r].op /\ req'[r].todo = req[r].todo
         /\ req'[r].shown = req[r].shown /\ req'[r].missed = req[r].missed
         /\ req'[r].moved = req[r].moved
         /\ \A q \in Req \ {r} : req'[q] = req[q]
  BY DEF TypeOK, RequestState, Go

\* Every step keeps what the stages say.
LEMMA StageStep == TypeOK /\ StageInv /\ [Next]_vars => StageInv'
  <1> DEFINE Holds(q) ==
        /\ req[q].at \in Early => q \notin session
        /\ req[q].at \in Early \cup {"connected"} => job[q] = "none" /\ req[q].shown = {}
        /\ req[q].at \notin {"returning", "done"} => q \notin trail
        /\ req[q].at = "listing" => req[q].op \in PVEList \cup VMList
        /\ req[q].at = "waiting" => req[q].op \in Write /\ job[q] # "none"
        /\ req[q].at = "called" /\ req[q].op \in Write =>
              job[q] # "none" /\ (req[q].op \in VSphere => job[q] = "ok")
  <1> SUFFICES ASSUME TypeOK, StageInv, [Next]_vars, NEW q \in Req PROVE Holds(q)'
    BY DEF StageInv
  <1> USE DEF At
  <1>0. Holds(q) /\ job \in [Req -> {"none", "running", "ok", "failed"}]
    BY DEF StageInv, TypeOK
  <1>a. ASSUME NEW r \in Req, r # q, req'[q] = req[q], job'[q] = job[q],
               session' \in {session, session \cup {r}, session \ {r}},
               trail' \in {trail, trail \cup {r}}
        PROVE  Holds(q)'
    BY <1>0, <1>a
  <1>1. ASSUME NEW r \in Req, NEW op \in Offered[r], NEW g \in Guest \cup {None}, Arrive(r, op, g)
        PROVE  Holds(q)'
    <2>1. req'[r].at = "arrived" /\ req'[r].shown = {} /\ \A p \in Req \ {r} : req'[p] = req[p]
      BY <1>1 DEF Arrive, NewReq, TypeOK
    <2>2. CASE q = r
      BY <1>0, <1>1, <2>1, <2>2 DEF Arrive, Early
    <2>3. CASE q # r
      BY <1>0, <1>1, <2>1, <2>3 DEF Arrive
    <2>4. QED  BY <2>2, <2>3
  <1>2. ASSUME NEW r \in Req, NEW ok \in BOOLEAN,
               \/ CheckChannel(r) \/ Connect(r, ok) \/ ConnectLost(r)
               \/ CallAccepted(r) \/ CallLost(r) \/ CallFails(r) \/ Wait(r) \/ WaitBroken(r)
               \/ Get(r) \/ ListEnd(r) \/ Return(r, ok)
        PROVE  Holds(q)'
    <2>1. PICK s : Go(r, s)
      BY <1>2 DEF CheckChannel, Connect, ConnectLost, CallAccepted, CallLost, CallFails, Wait,
                  WaitBroken, Get, ListEnd, Return
    <2>2. /\ req'[r].at = s /\ req'[r].op = req[r].op /\ req'[r].shown = req[r].shown
          /\ \A p \in Req \ {r} : req'[p] = req[p]
      BY <2>1, GoFacts
    <2>3. CASE q # r
      <3>1. /\ job'[q] = job[q] /\ trail' = trail
            /\ session' \in {session, session \cup {r}, session \ {r}}
        BY <1>2, <1>0, <2>3 DEF CheckChannel, Connect, ConnectLost, CallAccepted, CallLost,
                  CallFails, Wait, WaitBroken, Get, ListEnd, Return
      <3>2. QED  BY <1>a, <2>2, <2>3, <3>1
    <2>4. CASE q = r
      <3>1. CASE CheckChannel(r)
        BY <1>0, <2>4, <3>1, GoFacts DEF CheckChannel, Early
      <3>2. CASE Connect(r, ok)
        BY <1>0, <2>4, <3>2, GoFacts DEF Connect, Early
      <3>3. CASE ConnectLost(r)
        BY <1>0, <2>4, <3>3, GoFacts DEF ConnectLost, Early
      <3>4. CASE CallAccepted(r)
        BY <1>0, <2>4, <3>4, GoFacts DEF CallAccepted, Early
      <3>5. CASE CallLost(r) \/ CallFails(r)
        BY <1>0, <2>4, <3>5, GoFacts DEF CallLost, CallFails, Early
      <3>6. CASE Wait(r) \/ WaitBroken(r)
        BY <1>0, <2>4, <3>6, GoFacts DEF Wait, WaitBroken, Early
      <3>7. CASE Get(r) \/ ListEnd(r)
        BY <1>0, <2>4, <3>7, GoFacts, OperationFacts DEF Get, ListEnd, Early
      <3>8. CASE Return(r, ok)
        BY <1>0, <2>4, <3>8, GoFacts DEF Return, Early
      <3>9. QED  BY <1>2, <3>1, <3>2, <3>3, <3>4, <3>5, <3>6, <3>7, <3>8
    <2>5. QED  BY <2>3, <2>4
  <1>3. ASSUME NEW r \in Req, NEW online \in SUBSET Node, ListBegin(r, online) PROVE Holds(q)'
    <2>1. req'[r].at = "listing" /\ req'[r].op = req[r].op
      BY <1>3 DEF ListBegin, TypeOK, RequestState
    <2>2. \A p \in Req \ {r} : req'[p] = req[p]
      BY <1>3 DEF ListBegin, TypeOK
    <2>3. QED  BY <1>0, <1>3, <2>1, <2>2 DEF ListBegin, Early
  <1>4. ASSUME NEW r \in Req, NEW part \in req[r].todo, NEW ok \in BOOLEAN, ListPart(r, part, ok)
        PROVE  Holds(q)'
    <2>1. req'[r].at = req[r].at /\ req'[r].op = req[r].op
      BY <1>4 DEF ListPart, TypeOK, RequestState
    <2>2. \A p \in Req \ {r} : req'[p] = req[p]
      BY <1>4 DEF ListPart, TypeOK
    <2>3. QED  BY <1>0, <1>4, <2>1, <2>2 DEF ListPart, Early
  <1>5. ASSUME NEW r \in Req, NEW ok \in BOOLEAN, Audit(r, ok) PROVE Holds(q)'
    <2>1. req'[r].at = "returning" /\ \A p \in Req \ {r} : req'[p] = req[p]
      BY <1>5 DEF Audit, TypeOK, NewReq
    <2>2. QED  BY <1>0, <1>5, <2>1 DEF Audit, Early
  <1>6. ASSUME NEW r \in Req, ClientGone(r) PROVE Holds(q)'
    BY <1>0, <1>6 DEF ClientGone
  <1>7. ASSUME NEW r \in Req, NEW v \in {"ok", "failed"}, JobEnds(r, v) PROVE Holds(q)'
    BY <1>0, <1>7 DEF JobEnds
  <1>8. ASSUME NEW p \in DOMAIN enabled, SetChannel(p) PROVE Holds(q)'
    BY <1>0, <1>8 DEF SetChannel
  <1>9. ASSUME NEW g \in DOMAIN place, NEW n \in Node, Migrate(g, n) PROVE Holds(q)'
    <2>1. req'[q].at = req[q].at /\ req'[q].op = req[q].op /\ req'[q].shown = req[q].shown
      BY <1>9 DEF Migrate, TypeOK, RequestState
    <2>2. QED  BY <1>0, <1>9, <2>1 DEF Migrate
  <1>10. CASE UNCHANGED vars
    BY <1>0, <1>10 DEF vars
  <1> HIDE DEF Holds, At
  <1>11. QED
    BY <1>1, <1>2, <1>3, <1>4, <1>5, <1>6, <1>7, <1>8, <1>9, <1>10 DEF Next

\* Initially types and stages are as they should be.
LEMMA TypeInit == Init => TypeOK /\ StageInv
  <1>1. NewReq \in RequestState /\ NewReq.at = "new" /\ NewReq.shown = {}
    BY DEF NewReq, RequestState, Stage
  <1>2. QED  BY <1>1 DEF Init, TypeOK, StageInv, Early

\* Types and stages together.
LEMMA TypeAndStage == Spec => [](TypeOK /\ StageInv)
  BY TypeInit, TypeStep, StageStep, PTL DEF Spec

\* A request is always in one of its stages with an operation of a platform, only
\* requests to vSphere hold sessions, and only the audited operations are recorded.
THEOREM TypeCorrect == Spec => []TypeOK
  BY TypeAndStage, PTL

-----------------------------------------------------------------------------
\* The end of a request.  From the deferred return on, a write that the platform
\* has taken and that has not failed is recorded, or something broke off.

EndInv ==
    \A r \in Req :
        /\ req[r].op \in Write /\ r \in trail =>
              job[r] # "none" /\ (req[r].op \in VSphere => job[r] = "ok")
        /\ req[r].op \in Write /\ req[r].at \in {"returning", "done"} /\ job[r] \in {"running", "ok"}
              => r \in trail \/ r \in cut
        /\ r \in session /\ req[r].at = "done" => r \in cut

\* Every step keeps EndInv.
LEMMA EndStep == TypeOK /\ StageInv /\ EndInv /\ [Next]_vars => EndInv'
  <1> DEFINE Holds(q) ==
        /\ req[q].op \in Write /\ q \in trail =>
              job[q] # "none" /\ (req[q].op \in VSphere => job[q] = "ok")
        /\ req[q].op \in Write /\ req[q].at \in {"returning", "done"} /\ job[q] \in {"running", "ok"}
              => q \in trail \/ q \in cut
        /\ q \in session /\ req[q].at = "done" => q \in cut
  <1> DEFINE Stages(q) ==
        /\ req[q].at \in Early => q \notin session
        /\ req[q].at \in Early \cup {"connected"} => job[q] = "none"
        /\ req[q].at \notin {"returning", "done"} => q \notin trail
        /\ req[q].at = "called" /\ req[q].op \in Write =>
              job[q] # "none" /\ (req[q].op \in VSphere => job[q] = "ok")
  <1> SUFFICES ASSUME TypeOK, StageInv, EndInv, [Next]_vars, NEW q \in Req PROVE Holds(q)'
    BY DEF EndInv
  <1> USE DEF At
  <1>0. Holds(q) /\ Stages(q) /\ job \in [Req -> {"none", "running", "ok", "failed"}]
    BY DEF EndInv, StageInv, TypeOK
  <1>a. ASSUME NEW r \in Req, r # q, req'[q] = req[q], job'[q] = job[q],
               session' \in {session, session \cup {r}, session \ {r}},
               trail' \in {trail, trail \cup {r}}, cut' \in {cut, cut \cup {r}}
        PROVE  Holds(q)'
    BY <1>0, <1>a
  <1>1. ASSUME NEW r \in Req, NEW op \in Offered[r], NEW g \in Guest \cup {None}, Arrive(r, op, g)
        PROVE  Holds(q)'
    <2>1. req'[r].at = "arrived" /\ \A p \in Req \ {r} : req'[p] = req[p]
      BY <1>1 DEF Arrive, NewReq, TypeOK
    <2>2. CASE q = r
      BY <1>0, <1>1, <2>1, <2>2 DEF Arrive, Early
    <2>3. CASE q # r
      BY <1>0, <1>1, <2>1, <2>3 DEF Arrive
    <2>4. QED  BY <2>2, <2>3
  <1>2. ASSUME NEW r \in Req, NEW ok \in BOOLEAN,
               \/ CheckChannel(r) \/ Connect(r, ok) \/ ConnectLost(r)
               \/ CallAccepted(r) \/ CallLost(r) \/ CallFails(r) \/ Wait(r) \/ WaitBroken(r)
               \/ Get(r) \/ ListEnd(r) \/ Return(r, ok)
        PROVE  Holds(q)'
    <2>1. CASE q # r
      <3>1. \E s : Go(r, s)
        BY <1>2 DEF CheckChannel, Connect, ConnectLost, CallAccepted, CallLost, CallFails, Wait,
                    WaitBroken, Get, ListEnd, Return
      <3>2. req'[q] = req[q]
        BY <2>1, <3>1, GoFacts
      <3>3. /\ job'[q] = job[q] /\ trail' = trail /\ cut' \in {cut, cut \cup {r}}
            /\ session' \in {session, session \cup {r}, session \ {r}}
        BY <1>2, <1>0, <2>1 DEF CheckChannel, Connect, ConnectLost, CallAccepted, CallLost,
                  CallFails, Wait, WaitBroken, Get, ListEnd, Return
      <3>4. QED  BY <1>a, <2>1, <3>2, <3>3
    <2>2. CASE q = r
      <3>1. CASE CheckChannel(r)
        BY <1>0, <2>2, <3>1, GoFacts DEF CheckChannel, Early
      <3>2. CASE Connect(r, ok)
        BY <1>0, <2>2, <3>2, GoFacts DEF Connect, Early
      <3>3. CASE ConnectLost(r)
        BY <1>0, <2>2, <3>3, GoFacts DEF ConnectLost, Early
      <3>4. CASE CallAccepted(r)
        BY <1>0, <2>2, <3>4, GoFacts DEF CallAccepted, Early
      <3>5. CASE CallLost(r) \/ CallFails(r)
        BY <1>0, <2>2, <3>5, GoFacts DEF CallLost, CallFails, Early
      <3>6. CASE Wait(r) \/ WaitBroken(r)
        BY <1>0, <2>2, <3>6, GoFacts DEF Wait, WaitBroken, Early
      <3>7. CASE Get(r) \/ ListEnd(r)
        BY <1>0, <2>2, <3>7, GoFacts DEF Get, ListEnd, Early
      <3>8. CASE Return(r, ok)
        BY <1>0, <2>2, <3>8, GoFacts DEF Return, Early
      <3>9. QED  BY <1>2, <3>1, <3>2, <3>3, <3>4, <3>5, <3>6, <3>7, <3>8
    <2>3. QED  BY <2>1, <2>2
  <1>3. ASSUME NEW r \in Req, NEW online \in SUBSET Node, ListBegin(r, online) PROVE Holds(q)'
    <2>1. req'[r].at = "listing" /\ req'[r].op = req[r].op
      BY <1>3 DEF ListBegin, TypeOK, RequestState
    <2>2. \A p \in Req \ {r} : req'[p] = req[p]
      BY <1>3 DEF ListBegin, TypeOK
    <2>3. QED  BY <1>0, <1>3, <2>1, <2>2 DEF ListBegin, Early
  <1>4. ASSUME NEW r \in Req, NEW part \in req[r].todo, NEW ok \in BOOLEAN, ListPart(r, part, ok)
        PROVE  Holds(q)'
    <2>1. req'[r].at = req[r].at /\ req'[r].op = req[r].op
      BY <1>4 DEF ListPart, TypeOK, RequestState
    <2>2. \A p \in Req \ {r} : req'[p] = req[p]
      BY <1>4 DEF ListPart, TypeOK
    <2>3. QED  BY <1>0, <1>4, <2>1, <2>2 DEF ListPart, Early
  <1>5. ASSUME NEW r \in Req, NEW ok \in BOOLEAN, Audit(r, ok) PROVE Holds(q)'
    <2>1. /\ req'[r].at = "returning" /\ req'[r].op = req[r].op
          /\ \A p \in Req \ {r} : req'[p] = req[p]
      BY <1>5 DEF Audit, TypeOK, NewReq
    <2>2. CASE q = r
      BY <1>0, <1>5, <2>1, <2>2, OperationFacts DEF Audit, Early
    <2>3. CASE q # r
      BY <1>0, <1>5, <2>1, <2>3 DEF Audit
    <2>4. QED  BY <2>2, <2>3
  <1>6. ASSUME NEW r \in Req, ClientGone(r) PROVE Holds(q)'
    BY <1>0, <1>6 DEF ClientGone
  <1>7. ASSUME NEW r \in Req, NEW v \in {"ok", "failed"}, JobEnds(r, v) PROVE Holds(q)'
    BY <1>0, <1>7 DEF JobEnds
  <1>8. ASSUME NEW p \in DOMAIN enabled, SetChannel(p) PROVE Holds(q)'
    BY <1>0, <1>8 DEF SetChannel
  <1>9. ASSUME NEW g \in DOMAIN place, NEW n \in Node, Migrate(g, n) PROVE Holds(q)'
    <2>1. req'[q].at = req[q].at /\ req'[q].op = req[q].op
      BY <1>9 DEF Migrate, TypeOK, RequestState
    <2>2. QED  BY <1>0, <1>9, <2>1 DEF Migrate
  <1>10. CASE UNCHANGED vars
    BY <1>0, <1>10 DEF vars
  <1> HIDE DEF Holds, Stages, At
  <1>11. QED
    BY <1>1, <1>2, <1>3, <1>4, <1>5, <1>6, <1>7, <1>8, <1>9, <1>10 DEF Next

\* EndInv holds throughout.
LEMMA EndInvariant == Spec => []EndInv
  <1>1. Init => EndInv
    <2>1. NewReq.at = "new"  BY DEF NewReq
    <2>2. QED  BY <2>1 DEF Init, EndInv
  <1>2. QED  BY <1>1, TypeAndStage, EndStep, PTL DEF Spec

\* The audit trail records no write that did not happen, and misses one only
\* where a call or an insert broke off.
THEOREM TrailHonest == Spec => []AuditTrailHonest
  <1>1. EndInv => AuditTrailHonest
    BY DEF EndInv, AuditTrailHonest, At
  <1>2. QED  BY <1>1, EndInvariant, PTL

\* On every way out of a handler the session is given back, or something broke off.
THEOREM NoSessionLeft == Spec => []SessionsReturned
  <1>1. TypeOK /\ EndInv => SessionsReturned
    BY DEF TypeOK, EndInv, SessionsReturned, At
  <1>2. QED  BY <1>1, EndInvariant, TypeCorrect, PTL

-----------------------------------------------------------------------------
\* Lists.  While a list is put together, a guest that has not moved since its
\* beginning is shown, on its node, exactly if the call for its node and type has
\* been made and did not fail.

PartOf(g) == <<place[g], Kind[g]>>

Shows(r, g) == {p \in req[r].shown : p[1] = g}

ListInv ==
    \A r \in Req : req[r].at \in {"listing", "called"} =>
        /\ req[r].op = "guests" =>
              /\ req[r].todo \cap req[r].missed = {}
              /\ req[r].todo \subseteq Node \X {"qemu", "lxc"}
              /\ \A g \in DOMAIN place \ req[r].moved :
                    Shows(r, g) = IF PartOf(g) \in req[r].todo \cup req[r].missed
                                  THEN {} ELSE {<<g, place[g]>>}
        /\ req[r].op = "vms" =>
              \A g \in VMParts \ (req[r].todo \cup req[r].missed) : <<g, None>> \in req[r].shown
        /\ req[r].at = "called" /\ req[r].op \in {"guests", "vms"} => req[r].todo = {}

\* The answer for one node and type shows the guests of that node and type, and
\* no other.
LEMMA ContentsFacts ==
  ASSUME TypeOK, NEW part \in Node \X {"qemu", "lxc"}, NEW g \in DOMAIN place
  PROVE  {p \in Contents(part) : p[1] = g}
            = IF PartOf(g) = part THEN {<<g, place[g]>>} ELSE {}
  <1>1. part \notin VMParts
    BY VirtualizationAssumption DEF VMParts
  <1>2. Contents(part)
           = {<<h, part[1]>> : h \in {k \in DOMAIN place : place[k] = part[1] /\ Kind[k] = part[2]}}
    BY <1>1 DEF Contents
  <1>3. part = <<part[1], part[2]>>
    OBVIOUS
  <1>4. CASE PartOf(g) = part
    <2>1. place[g] = part[1] /\ Kind[g] = part[2]
      BY <1>4 DEF PartOf
    <2>2. \A p : p \in Contents(part) /\ p[1] = g <=> p = <<g, place[g]>>
      BY <1>2, <2>1
    <2>3. QED  BY <1>4, <2>2
  <1>5. CASE PartOf(g) # part
    <2>1. ~(place[g] = part[1] /\ Kind[g] = part[2])
      BY <1>3, <1>5 DEF PartOf
    <2>2. \A p \in Contents(part) : p[1] # g
      BY <1>2, <2>1
    <2>3. QED  BY <1>5, <2>2
  <1>6. QED  BY <1>4, <1>5

\* One more part of a list of guests.
LEMMA GuestPartStep ==
  ASSUME TypeOK, NEW r \in Req, NEW part \in req[r].todo, NEW ok \in BOOLEAN,
         ListPart(r, part, ok), req[r].op = "guests",
         req[r].todo \cap req[r].missed = {}, part \in Node \X {"qemu", "lxc"},
         NEW g \in DOMAIN place,
         Shows(r, g) = IF PartOf(g) \in req[r].todo \cup req[r].missed
                       THEN {} ELSE {<<g, place[g]>>}
  PROVE  Shows(r, g)' = IF PartOf(g)' \in req'[r].todo \cup req'[r].missed
                        THEN {} ELSE {<<g, place'[g]>>}
  <1>1. place' = place /\ PartOf(g)' = PartOf(g)
    BY DEF ListPart, PartOf
  <1>2. CASE ok
    <2>1. /\ req'[r].todo = req[r].todo \ {part} /\ req'[r].missed = req[r].missed
          /\ req'[r].shown = req[r].shown \cup Contents(part)
      BY <1>2 DEF ListPart, TypeOK, RequestState
    <2>2. Shows(r, g)' = Shows(r, g) \cup {p \in Contents(part) : p[1] = g}
      BY <2>1 DEF Shows
    <2>3. Shows(r, g)' = Shows(r, g) \cup (IF PartOf(g) = part THEN {<<g, place[g]>>} ELSE {})
      BY <2>2, ContentsFacts
    <2>4. QED  BY <1>1, <2>1, <2>3
  <1>3. CASE ~ok
    <2>1. /\ req'[r].todo = req[r].todo \ {part} /\ req'[r].missed = req[r].missed \cup {part}
          /\ req'[r].shown = req[r].shown
      BY <1>3 DEF ListPart, TypeOK, RequestState
    <2>2. QED  BY <1>1, <2>1 DEF Shows
  <1>4. QED  BY <1>2, <1>3

\* Every step keeps ListInv.
LEMMA ListStep == TypeOK /\ StageInv /\ ListInv /\ [Next]_vars => ListInv'
  <1> DEFINE Guests(q) ==
        req[q].op = "guests" =>
              /\ req[q].todo \cap req[q].missed = {}
              /\ req[q].todo \subseteq Node \X {"qemu", "lxc"}
              /\ \A g \in DOMAIN place \ req[q].moved :
                    Shows(q, g) = IF PartOf(g) \in req[q].todo \cup req[q].missed
                                  THEN {} ELSE {<<g, place[g]>>}
  <1> DEFINE Machines(q) ==
        req[q].op = "vms" =>
              \A g \in VMParts \ (req[q].todo \cup req[q].missed) : <<g, None>> \in req[q].shown
  <1> DEFINE Ended(q) ==
        req[q].at = "called" /\ req[q].op \in {"guests", "vms"} => req[q].todo = {}
  <1> DEFINE Holds(q) == req[q].at \in {"listing", "called"} => Guests(q) /\ Machines(q) /\ Ended(q)
  <1> SUFFICES ASSUME TypeOK, StageInv, ListInv, [Next]_vars, NEW q \in Req PROVE Holds(q)'
    BY DEF ListInv
  <1> USE DEF At
  <1>0. Holds(q)
    BY DEF ListInv
  <1>a. ASSUME place' = place, req'[q] = req[q] PROVE Holds(q)'
    BY <1>0, <1>a DEF Shows, PartOf
  <1>1. ASSUME NEW r \in Req, NEW op \in Offered[r], NEW g \in Guest \cup {None}, Arrive(r, op, g)
        PROVE  Holds(q)'
    <2>1. /\ req'[r].at = "arrived" /\ place' = place
          /\ \A p \in Req \ {r} : req'[p] = req[p]
      BY <1>1 DEF Arrive, NewReq, TypeOK
    <2>2. CASE q = r
      BY <2>1, <2>2
    <2>3. CASE q # r
      BY <1>a, <2>1, <2>3
    <2>4. QED  BY <2>2, <2>3
  <1>2. ASSUME NEW r \in Req, NEW ok \in BOOLEAN,
               \/ CheckChannel(r) \/ Connect(r, ok) \/ ConnectLost(r)
               \/ CallAccepted(r) \/ CallLost(r) \/ CallFails(r) \/ Wait(r) \/ WaitBroken(r)
               \/ Get(r) \/ Return(r, ok)
        PROVE  Holds(q)'
    <2>1. PICK s : /\ Go(r, s) /\ place' = place
                   /\ s # "listing"
                   /\ s = "called" => req[r].op \in Write \cup PVEGet \cup VMGet
      BY <1>2 DEF CheckChannel, Connect, ConnectLost, CallAccepted, CallLost, CallFails, Wait,
                  WaitBroken, Get, Return, StageInv
    <2>2. /\ req'[r].at = s /\ req'[r].op = req[r].op
          /\ \A p \in Req \ {r} : req'[p] = req[p]
      BY <2>1, GoFacts
    <2>3. CASE q = r
      <3>1. s = "called" => req'[q].op \notin {"guests", "vms"}
        BY <2>1, <2>2, <2>3, OperationFacts
      <3>2. QED  BY <2>1, <2>2, <2>3, <3>1
    <2>4. CASE q # r
      BY <1>a, <2>1, <2>2, <2>4
    <2>5. QED  BY <2>3, <2>4
  <1>3. ASSUME NEW r \in Req, ListEnd(r) PROVE Holds(q)'
    <2>1. Go(r, "called") /\ place' = place /\ req[r].todo = {} /\ req[r].at = "listing"
      BY <1>3 DEF ListEnd
    <2>2. /\ req'[r].at = "called" /\ req'[r].op = req[r].op /\ req'[r].todo = req[r].todo
          /\ req'[r].shown = req[r].shown /\ req'[r].missed = req[r].missed
          /\ req'[r].moved = req[r].moved
          /\ \A p \in Req \ {r} : req'[p] = req[p]
      BY <2>1, GoFacts
    <2>3. CASE q = r
      <3>1. Guests(q) /\ Machines(q)
        BY <1>0, <2>1, <2>3
      <3>2. Guests(q)'
        BY <2>1, <2>2, <2>3, <3>1 DEF Shows, PartOf
      <3>3. Machines(q)' /\ Ended(q)'
        BY <2>1, <2>2, <2>3, <3>1
      <3>4. QED  BY <3>2, <3>3
    <2>4. CASE q # r
      BY <1>a, <2>1, <2>2, <2>4
    <2>5. QED  BY <2>3, <2>4
  <1>4. ASSUME NEW r \in Req, NEW online \in SUBSET Node, ListBegin(r, online) PROVE Holds(q)'
    <2>1. /\ req'[r].at = "listing" /\ req'[r].op = req[r].op /\ req'[r].shown = req[r].shown
          /\ req'[r].todo = IF req[r].op \in VSphere THEN VMParts ELSE PVEParts(req[r].op, online)
          /\ req'[r].missed = IF req[r].op \in VSphere THEN {}
                              ELSE PVEParts(req[r].op, Node \ online)
      BY <1>4 DEF ListBegin, TypeOK, RequestState
    <2>2. place' = place /\ \A p \in Req \ {r} : req'[p] = req[p]
      BY <1>4 DEF ListBegin, TypeOK
    <2>3. req[r].shown = {}
      BY <1>4 DEF ListBegin, StageInv
    <2>4. CASE q = r
      <3>1. Guests(q)'
        <4> SUFFICES ASSUME req'[q].op = "guests"
                     PROVE  /\ req'[q].todo \cap req'[q].missed = {}
                            /\ req'[q].todo \subseteq Node \X {"qemu", "lxc"}
                            /\ \A g \in DOMAIN place' \ req'[q].moved :
                                  Shows(q, g)' = IF PartOf(g)' \in req'[q].todo \cup req'[q].missed
                                                 THEN {} ELSE {<<g, place'[g]>>}
          OBVIOUS
        <4>1. /\ req'[q].todo = online \X {"qemu", "lxc"}
              /\ req'[q].missed = (Node \ online) \X {"qemu", "lxc"}
          BY <2>1, <2>4, OperationFacts DEF PVEParts
        <4>2. req'[q].todo \cap req'[q].missed = {} /\ req'[q].todo \subseteq Node \X {"qemu", "lxc"}
          BY <4>1
        <4>3. ASSUME NEW g \in DOMAIN place'
              PROVE  PartOf(g)' \in req'[q].todo \cup req'[q].missed /\ Shows(q, g)' = {}
          <5>1. place'[g] \in Node /\ Kind[g] \in {"qemu", "lxc"}
            BY <2>2, VirtualizationAssumption DEF TypeOK
          <5>2. PartOf(g)' = <<place'[g], Kind[g]>>
            BY DEF PartOf
          <5>3. Shows(q, g)' = {}
            BY <2>1, <2>3, <2>4 DEF Shows
          <5>4. QED  BY <4>1, <5>1, <5>2, <5>3
        <4>4. QED  BY <4>2, <4>3
      <3>2. Machines(q)'
        BY <2>1, <2>4, OperationFacts
      <3>3. QED  BY <2>1, <2>4, <3>1, <3>2
    <2>5. CASE q # r
      BY <1>a, <2>2, <2>5
    <2>6. QED  BY <2>4, <2>5
  <1>5. ASSUME NEW r \in Req, NEW part \in req[r].todo, NEW ok \in BOOLEAN, ListPart(r, part, ok)
        PROVE  Holds(q)'
    <2>1. /\ req'[r].at = req[r].at /\ req'[r].op = req[r].op /\ req'[r].moved = req[r].moved
          /\ req'[r].todo = req[r].todo \ {part}
          /\ req'[r].missed = IF ok THEN req[r].missed ELSE req[r].missed \cup {part}
          /\ req'[r].shown = IF ok THEN req[r].shown \cup Contents(part) ELSE req[r].shown
      BY <1>5 DEF ListPart, TypeOK, RequestState
    <2>2. place' = place /\ \A p \in Req \ {r} : req'[p] = req[p]
      BY <1>5 DEF ListPart, TypeOK
    <2>3. CASE q = r
      <3>0. Guests(q) /\ Machines(q) /\ req'[q].at = "listing"
        BY <1>0, <1>5, <2>1, <2>3 DEF ListPart
      <3>1. Guests(q)'
        <4> SUFFICES ASSUME req'[q].op = "guests"
                     PROVE  /\ req'[q].todo \cap req'[q].missed = {}
                            /\ req'[q].todo \subseteq Node \X {"qemu", "lxc"}
                            /\ \A g \in DOMAIN place' \ req'[q].moved :
                                  Shows(q, g)' = IF PartOf(g)' \in req'[q].todo \cup req'[q].missed
                                                 THEN {} ELSE {<<g, place'[g]>>}
          OBVIOUS
        <4>1. req[q].op = "guests" /\ part \in Node \X {"qemu", "lxc"}
          BY <2>1, <2>3, <3>0
        <4>2. req'[q].todo \cap req'[q].missed = {} /\ req'[q].todo \subseteq Node \X {"qemu", "lxc"}
          BY <2>1, <2>3, <3>0, <4>1
        <4>3. ASSUME NEW g \in DOMAIN place' \ req'[q].moved
              PROVE  Shows(q, g)' = IF PartOf(g)' \in req'[q].todo \cup req'[q].missed
                                    THEN {} ELSE {<<g, place'[g]>>}
          <5>1. /\ g \in DOMAIN place
                /\ Shows(q, g) = IF PartOf(g) \in req[q].todo \cup req[q].missed
                                 THEN {} ELSE {<<g, place[g]>>}
                /\ req[q].todo \cap req[q].missed = {}
            BY <2>1, <2>2, <2>3, <3>0, <4>1
          <5>2. QED  BY <1>5, <2>3, <4>1, <5>1, GuestPartStep
        <4>4. QED  BY <4>2, <4>3
      <3>2. Machines(q)'
        <4> SUFFICES ASSUME req'[q].op = "vms",
                            NEW g \in VMParts \ (req'[q].todo \cup req'[q].missed)
                     PROVE  <<g, None>> \in req'[q].shown
          OBVIOUS
        <4>1. CASE g = part
          <5>1. ok  BY <2>1, <2>3, <4>1
          <5>2. Contents(part) = {<<part, None>>}
            BY <4>1 DEF Contents
          <5>3. QED  BY <2>1, <2>3, <4>1, <5>1, <5>2
        <4>2. CASE g # part
          <5>1. <<g, None>> \in req[q].shown
            BY <2>1, <2>3, <3>0, <4>2
          <5>2. QED  BY <2>1, <2>3, <5>1
        <4>3. QED  BY <4>1, <4>2
      <3>3. QED  BY <3>0, <3>1, <3>2
    <2>4. CASE q # r
      BY <1>a, <2>2, <2>4
    <2>5. QED  BY <2>3, <2>4
  <1>6. ASSUME NEW r \in Req, NEW ok \in BOOLEAN, Audit(r, ok) PROVE Holds(q)'
    <2>1. /\ req'[r].at = "returning" /\ place' = place
          /\ \A p \in Req \ {r} : req'[p] = req[p]
      BY <1>6 DEF Audit, TypeOK, NewReq
    <2>2. CASE q = r
      BY <2>1, <2>2
    <2>3. CASE q # r
      BY <1>a, <2>1, <2>3
    <2>4. QED  BY <2>2, <2>3
  <1>7. ASSUME NEW g \in DOMAIN place, NEW n \in Node, Migrate(g, n) PROVE Holds(q)'
    <2>1. /\ req'[q].at = req[q].at /\ req'[q].op = req[q].op /\ req'[q].shown = req[q].shown
          /\ req'[q].todo = req[q].todo /\ req'[q].missed = req[q].missed
      BY <1>7 DEF Migrate, TypeOK, RequestState
    <2>2. DOMAIN place' = DOMAIN place /\ \A h \in DOMAIN place \ {g} : place'[h] = place[h]
      BY <1>7 DEF Migrate, TypeOK
    <2>3. ASSUME req[q].at \in {"listing", "called"} PROVE Guests(q)' /\ Machines(q)' /\ Ended(q)'
      <3>1. Guests(q) /\ Machines(q) /\ Ended(q)
        BY <1>0, <2>3
      <3>2. Machines(q)' /\ Ended(q)'
        BY <2>1, <3>1
      <3>3. Guests(q)'
        <4> SUFFICES ASSUME req'[q].op = "guests"
                     PROVE  /\ req'[q].todo \cap req'[q].missed = {}
                            /\ req'[q].todo \subseteq Node \X {"qemu", "lxc"}
                            /\ \A h \in DOMAIN place' \ req'[q].moved :
                                  Shows(q, h)' = IF PartOf(h)' \in req'[q].todo \cup req'[q].missed
                                                 THEN {} ELSE {<<h, place'[h]>>}
          OBVIOUS
        <4>1. req'[q].moved = req[q].moved \cup {g}
          BY <1>7, <2>1, <2>3 DEF Migrate, TypeOK, RequestState
        <4>2. ASSUME NEW h \in DOMAIN place' \ req'[q].moved
              PROVE  Shows(q, h)' = IF PartOf(h)' \in req'[q].todo \cup req'[q].missed
                                    THEN {} ELSE {<<h, place'[h]>>}
          <5>1. h \in DOMAIN place \ req[q].moved /\ place'[h] = place[h]
            BY <2>2, <4>1
          <5>2. PartOf(h)' = PartOf(h) /\ Shows(q, h)' = Shows(q, h)
            BY <2>1, <5>1 DEF PartOf, Shows
          <5>3. QED  BY <2>1, <3>1, <5>1, <5>2
        <4>3. QED  BY <2>1, <3>1, <4>2
      <3>4. QED  BY <3>2, <3>3
    <2>4. QED  BY <2>1, <2>3
  <1>8. \/ \E r \in Req : ClientGone(r) \/ \E v \in {"ok", "failed"} : JobEnds(r, v)
        \/ \E p \in DOMAIN enabled : SetChannel(p)
        \/ UNCHANGED vars
        => place' = place /\ req'[q] = req[q]
    BY DEF ClientGone, JobEnds, SetChannel, vars
  <1> HIDE DEF Holds, At
  <1>9. QED
    BY <1>a, <1>1, <1>2, <1>3, <1>4, <1>5, <1>6, <1>7, <1>8 DEF Next

\* A list assembled while guests move is right about every guest that stays: it
\* shows it once, on its node, unless the call for its node failed.
THEOREM ListsRight == Spec => []StillGuestsListed
  <1>1. Init => ListInv
    <2>1. NewReq.at = "new"  BY DEF NewReq
    <2>2. QED  BY <2>1 DEF Init, ListInv
  <1>2. ListInv => StillGuestsListed
    BY DEF ListInv, StillGuestsListed, At, Shows, PartOf
  <1>3. QED  BY <1>1, <1>2, TypeAndStage, ListStep, PTL DEF Spec

=============================================================================
