---------------------------- MODULE Virtualization ----------------------------
(***************************************************************************)
(* Management of virtual machines and containers through the Proxmox VE    *)
(* and vSphere channels of a host (server/controllers/pve.go, vsphere.go,  *)
(* server/services/pve.go, vsphere.go).                                    *)
(*                                                                         *)
(* A request counts the enabled channels, reads the channel again, logs in *)
(* anew, makes its calls, writes the audit record and answers.  Calls use  *)
(* the context of the request: when the browser goes away they fail at     *)
(* once, the logout at the end included, while the platform goes on with   *)
(* what it accepted.  A write on Proxmox VE is answered when the job is    *)
(* accepted; on vSphere the handler waits for the task.                    *)
(***************************************************************************)
EXTENDS Integers, FiniteSets

CONSTANTS
    Req,      \* requests of administrators; each is made at most once
    Offered,  \* Offered[r]: the operations r may be about
    Guest,    \* machines and containers of both platforms
    Kind,     \* Kind[g]: "qemu" or "lxc" on Proxmox VE, "vm" on vSphere
    Node,     \* nodes of the Proxmox VE cluster
    None

-----------------------------------------------------------------------------
\* The operations.

\* PowerGuest: one table for both types, then the refusals for containers.
PowerGuest(k) ==
    {"start", "stop", "reboot", "shutdown", "reset", "suspend", "resume"}
        \ (IF k = "lxc" THEN {"reset", "suspend", "resume"} ELSE {})

\* VSphereVMPowerHandler and PowerVM.
PowerVM == {"vm_on", "vm_off", "vm_reset", "vm_suspend"}

PVESnapshot == {"create_snapshot", "delete_snapshot", "rollback_snapshot"}
VMSnapshot  == {"vm_create_snapshot", "vm_delete_snapshot", "vm_rollback_snapshot"}

\* Lists put together from several calls, and reads of one call.
PVEList == {"guests", "storage", "networks"}
VMList  == {"vms"}
PVEGet  == {"snapshots", "cluster", "guest", "backups", "backup_content"}
VMGet   == {"vm_snapshots", "vm_datastores", "vm_networks"}

Write == PowerGuest("qemu") \cup PowerVM \cup PVESnapshot \cup VMSnapshot
VSphere == PowerVM \cup VMSnapshot \cup VMList \cup VMGet
Operation == Write \cup PVEList \cup VMList \cup PVEGet \cup VMGet

Platform(op) == IF op \in VSphere THEN "vsphere" ELSE "pve"

\* The last line tells the names of guests from the parts of a list (PVEParts).
ASSUME VirtualizationAssumption ==
    /\ Kind \in [Guest -> {"qemu", "lxc", "vm"}]
    /\ Offered \in [Req -> SUBSET Operation]
    /\ None \notin Guest /\ None \notin Node
    /\ Guest \cap (Node \X (PVEList \cup {"qemu", "lxc"})) = {}

\* HostDetailHandler: the case for GET .../vsphere/vms comes first and takes
\* every GET below it, also the one meant for VSphereSnapshotsHandler.
Route(op) == IF op = "vm_snapshots" THEN "vms" ELSE op

\* The handlers that call auditLog.
Audited == Write \cup {"guests", "vms"}

\* do: the token goes with POST and PUT and a body; DeleteSnapshot has no body.
SendsToken(op) == op \in Write \ {"delete_snapshot"}

-----------------------------------------------------------------------------

VARIABLES
    enabled, \* enabled[p]: there is an enabled channel of platform p
    place,   \* place[g]: the node a Proxmox VE guest is on
    req,     \* req[r]: where the request is
    job,     \* job[r]: what the platform made of the write
    session, \* requests whose vSphere session is open
    gone,    \* requests whose client has gone away
    cut,     \* history: requests with a call or an insert that broke off
    trail    \* requests with an audit record

vars == <<enabled, place, req, job, session, gone, cut, trail>>

\* What a list asks for one by one: the machines and the containers, the storage
\* or the networks of each online node, or the properties of each machine found.
PVEParts(op, nodes) == nodes \X (IF op = "guests" THEN {"qemu", "lxc"} ELSE {op})
VMParts == {g \in Guest : Kind[g] = "vm"}

Part == VMParts \cup UNION {PVEParts(op, Node) : op \in PVEList}

NewReq == [at |-> "new", op |-> None, guest |-> None,
           todo |-> {}, shown |-> {}, missed |-> {}, moved |-> {}]

Stage == {"new", "arrived", "checked", "connected", "listing", "waiting", "called",
          "returning", "done"}

RequestState ==
    [at : Stage, op : Operation \cup {None}, guest : Guest \cup {None},
     todo : SUBSET Part, shown : SUBSET (Guest \X (Node \cup {None})),
     missed : SUBSET Part, moved : SUBSET Guest]

TypeOK ==
    /\ enabled \in [{"pve", "vsphere"} -> BOOLEAN]
    /\ place \in [{g \in Guest : Kind[g] # "vm"} -> Node]
    /\ req \in [Req -> RequestState]
    /\ job \in [Req -> {"none", "running", "ok", "failed"}]
    /\ session \subseteq {r \in Req : req[r].op \in VSphere}
    /\ gone \subseteq cut /\ cut \subseteq Req
    /\ trail \subseteq {r \in Req : req[r].op \in Audited}

Init ==
    /\ enabled = [p \in {"pve", "vsphere"} |-> TRUE]
    /\ place \in [{g \in Guest : Kind[g] # "vm"} -> Node]
    /\ req = [r \in Req |-> NewReq]
    /\ job = [r \in Req |-> "none"]
    /\ session = {} /\ gone = {} /\ cut = {} /\ trail = {}

At(r, s) == req[r].at = s
Go(r, s) == req' = [req EXCEPT ![r].at = s]

-----------------------------------------------------------------------------
\* The beginning of every handler.

\* The request of an administrator with a complete body.  A write names a guest
\* of its platform, not always one the platform accepts the action for.
Arrive(r, op, g) ==
    /\ At(r, "new")
    /\ IF op \in Write THEN g \in Guest /\ (Kind[g] = "vm" <=> op \in VSphere) ELSE g = None
    /\ req' = [req EXCEPT ![r] = [NewReq EXCEPT !.at = "arrived", !.op = Route(op), !.guest = g]]
    /\ UNCHANGED <<enabled, place, job, session, gone, cut, trail>>

\* requirePVEAdmin, and the same COUNT in vsphereManager.
CheckChannel(r) ==
    /\ At(r, "arrived")
    /\ Go(r, IF enabled[Platform(req[r].op)] THEN "checked" ELSE "done")
    /\ UNCHANGED <<enabled, place, job, session, gone, cut, trail>>

\* connectPVE reads the row of the channel again: it may be gone by now.
Reachable(r) == enabled[Platform(req[r].op)] /\ r \notin gone

\* connectPVE and ConnectVSphere; the credential may not decrypt or be refused.
\* A failure returns before any Close is deferred.
Connect(r, ok) ==
    /\ At(r, "checked")
    /\ ok => Reachable(r)
    /\ Go(r, IF ok THEN "connected" ELSE "done")
    /\ session' = IF ok /\ req[r].op \in VSphere THEN session \cup {r} ELSE session
    /\ UNCHANGED <<enabled, place, job, gone, cut, trail>>

\* The login is carried out and its answer lost: the session exists, and nobody
\* knows of it.
ConnectLost(r) ==
    /\ At(r, "checked") /\ enabled[Platform(req[r].op)]
    /\ Go(r, "done")
    /\ session' = IF req[r].op \in VSphere THEN session \cup {r} ELSE session
    /\ cut' = cut \cup {r}
    /\ UNCHANGED <<enabled, place, job, gone, trail>>

-----------------------------------------------------------------------------
\* Writes.

\* What the client library and the platform let through: containers refuse some
\* actions before anything is sent, and Proxmox VE refuses a write without the
\* token that came with the ticket.
Acceptable(r) ==
    \/ req[r].op \in PowerGuest(Kind[req[r].guest])
    \/ req[r].op \in PVESnapshot /\ SendsToken(req[r].op)
    \/ req[r].op \in VSphere

\* The platform takes the job, and the answer arrives.
CallAccepted(r) ==
    /\ At(r, "connected") /\ req[r].op \in Write
    /\ Acceptable(r) /\ r \notin gone
    /\ job' = [job EXCEPT ![r] = "running"]
    /\ Go(r, IF req[r].op \in VSphere THEN "waiting" ELSE "called")
    /\ UNCHANGED <<enabled, place, session, gone, cut, trail>>

\* It takes the job and the answer is lost: 30 seconds have passed, or the
\* client goes away meanwhile.
CallLost(r) ==
    /\ At(r, "connected") /\ req[r].op \in Write
    /\ Acceptable(r)
    /\ job' = [job EXCEPT ![r] = "running"]
    /\ Go(r, "returning")
    /\ cut' = cut \cup {r}
    /\ UNCHANGED <<enabled, place, session, gone, trail>>

\* An error before, on the way, or from the platform; findVM found no machine.
CallFails(r) ==
    /\ At(r, "connected")
    /\ Go(r, "returning")
    /\ UNCHANGED <<enabled, place, job, session, gone, cut, trail>>

\* Mutant: the task is not waited for.
WaitOmitted(r) ==
    /\ At(r, "waiting")
    /\ Go(r, "called")
    /\ UNCHANGED <<enabled, place, job, session, gone, cut, trail>>

\* task.Wait returns with the result of the task.
Wait(r) ==
    /\ At(r, "waiting") /\ job[r] # "running"
    /\ Go(r, IF job[r] = "ok" THEN "called" ELSE "returning")
    /\ UNCHANGED <<enabled, place, job, session, gone, cut, trail>>

\* It returns early because the connection broke or the client has gone.
WaitBroken(r) ==
    /\ At(r, "waiting")
    /\ Go(r, "returning")
    /\ cut' = cut \cup {r}
    /\ UNCHANGED <<enabled, place, job, session, gone, trail>>

-----------------------------------------------------------------------------
\* Reads.

\* One call, or the first call of a list: the nodes, or the machines, there are.
Get(r) ==
    /\ At(r, "connected") /\ req[r].op \in PVEGet \cup VMGet
    /\ r \notin gone
    /\ Go(r, "called")
    /\ UNCHANGED <<enabled, place, job, session, gone, cut, trail>>

ListBegin(r, online) ==
    /\ At(r, "connected") /\ req[r].op \in PVEList \cup VMList
    /\ r \notin gone
    /\ LET own == req[r]
       IN  req' = [req EXCEPT ![r] =
              [own EXCEPT !.at = "listing",
                          !.todo = IF own.op \in VSphere THEN VMParts ELSE PVEParts(own.op, online),
                          !.missed = IF own.op \in VSphere THEN {} ELSE PVEParts(own.op, Node \ online)]]
    /\ UNCHANGED <<enabled, place, job, session, gone, cut, trail>>

\* What the answer for one part contains.
Contents(part) ==
    IF part \in VMParts THEN {<<part, None>>}
    ELSE {<<g, part[1]>> : g \in {h \in DOMAIN place : place[h] = part[1] /\ Kind[h] = part[2]}}

\* Mutant: a part that fails ends the list.
ListPartStops(r, part, ok) ==
    /\ At(r, "listing") /\ part \in req[r].todo
    /\ ok => r \notin gone
    /\ LET own == req[r]
       IN  req' = [req EXCEPT ![r] =
              [own EXCEPT !.todo = IF ok THEN own.todo \ {part} ELSE {},
                          !.shown = IF ok THEN own.shown \cup Contents(part) ELSE own.shown,
                          !.missed = IF ok THEN own.missed ELSE own.missed \cup {part}]]
    /\ UNCHANGED <<enabled, place, job, session, gone, cut, trail>>

\* One part of a list; a part that fails is passed over.
ListPart(r, part, ok) ==
    /\ At(r, "listing") /\ part \in req[r].todo
    /\ ok => r \notin gone
    /\ LET own == req[r]
       IN  req' = [req EXCEPT ![r] =
              [own EXCEPT !.todo = own.todo \ {part},
                          !.shown = IF ok THEN own.shown \cup Contents(part) ELSE own.shown,
                          !.missed = IF ok THEN own.missed ELSE own.missed \cup {part}]]
    /\ UNCHANGED <<enabled, place, job, session, gone, cut, trail>>

ListEnd(r) ==
    /\ At(r, "listing") /\ req[r].todo = {}
    /\ Go(r, "called")
    /\ UNCHANGED <<enabled, place, job, session, gone, cut, trail>>

-----------------------------------------------------------------------------
\* The end of every handler.

\* Mutant: every request is recorded, also the plain reads.
AuditEverything(r, ok) ==
    /\ At(r, "called")
    /\ trail' = IF ok THEN trail \cup {r} ELSE trail
    /\ cut' = IF ok THEN cut ELSE cut \cup {r}
    /\ req' = [req EXCEPT ![r] = [NewReq EXCEPT !.at = "returning", !.op = req[r].op, !.guest = req[r].guest]]
    /\ UNCHANGED <<enabled, place, job, session, gone>>

\* auditLog ignores an error of the insert.
Audit(r, ok) ==
    /\ At(r, "called")
    /\ trail' = IF ok /\ req[r].op \in Audited THEN trail \cup {r} ELSE trail
    /\ cut' = IF ok THEN cut ELSE cut \cup {r}
    /\ req' = [req EXCEPT ![r] = [NewReq EXCEPT !.at = "returning", !.op = req[r].op, !.guest = req[r].guest]]
    /\ UNCHANGED <<enabled, place, job, session, gone>>

\* Mutant: Close is called at the end of a successful request and not deferred.
ReturnEarly(r, ok) ==
    /\ At(r, "returning")
    /\ ok => r \notin gone
    /\ session' = IF ok /\ (r \in trail \/ req[r].op \notin Audited) THEN session \ {r} ELSE session
    /\ cut' = IF ok THEN cut ELSE cut \cup {r}
    /\ Go(r, "done")
    /\ UNCHANGED <<enabled, place, job, gone, trail>>

\* The answer, and the deferred Close of a vSphere session.
Return(r, ok) ==
    /\ At(r, "returning")
    /\ ok => r \notin gone
    /\ session' = IF ok THEN session \ {r} ELSE session
    /\ cut' = IF ok THEN cut ELSE cut \cup {r}
    /\ Go(r, "done")
    /\ UNCHANGED <<enabled, place, job, gone, trail>>

-----------------------------------------------------------------------------
\* Others.

\* An administrator switches the channel on or off, or deletes and creates it.
SetChannel(p) ==
    /\ enabled' = [enabled EXCEPT ![p] = ~@]
    /\ UNCHANGED <<place, req, job, session, gone, cut, trail>>

ClientGone(r) ==
    /\ req[r].at \notin {"new", "done"} /\ r \notin gone
    /\ gone' = gone \cup {r}
    /\ cut' = cut \cup {r}
    /\ UNCHANGED <<enabled, place, req, job, session, trail>>

\* The platform finishes a job.
JobEnds(r, v) ==
    /\ job[r] = "running"
    /\ job' = [job EXCEPT ![r] = v]
    /\ UNCHANGED <<enabled, place, req, session, gone, cut, trail>>

\* The platform moves a guest to another node.
Migrate(g, n) ==
    /\ place[g] # n
    /\ place' = [place EXCEPT ![g] = n]
    /\ req' = [r \in Req |-> IF req[r].op = "guests" /\ req[r].at \in {"listing", "called"}
                              THEN [req[r] EXCEPT !.moved = @ \cup {g}] ELSE req[r]]
    /\ UNCHANGED <<enabled, job, session, gone, cut, trail>>

-----------------------------------------------------------------------------

Next ==
    \/ \E r \in Req :
          \/ \E op \in Offered[r], g \in Guest \cup {None} : Arrive(r, op, g)
          \/ CheckChannel(r)
          \/ ConnectLost(r)
          \/ CallAccepted(r) \/ CallLost(r) \/ CallFails(r)
          \/ Wait(r) \/ WaitBroken(r)
          \/ Get(r) \/ ListEnd(r)
          \/ \E online \in SUBSET Node : ListBegin(r, online)
          \/ \E part \in req[r].todo, ok \in BOOLEAN : ListPart(r, part, ok)
          \/ \E ok \in BOOLEAN : Connect(r, ok) \/ Audit(r, ok) \/ Return(r, ok)
          \/ ClientGone(r)
          \/ \E v \in {"ok", "failed"} : JobEnds(r, v)
    \/ \E p \in DOMAIN enabled : SetChannel(p)
    \/ \E g \in DOMAIN place, n \in Node : Migrate(g, n)

Spec == Init /\ [][Next]_vars

-----------------------------------------------------------------------------
\* Properties.

\* The audit trail can be relied on in both directions.  A record of a write
\* means the platform has taken it, and on vSphere carried it out, whatever
\* became of other requests, of the client and of the channel; and when a
\* request is over, a write without a record was not taken, or has failed, or
\* something broke off.
AuditTrailHonest ==
    \A r \in Req : req[r].op \in Write =>
        /\ r \in trail => job[r] # "none" /\ (req[r].op \in VSphere => job[r] = "ok")
        /\ At(r, "done") /\ job[r] \in {"running", "ok"} => r \in trail \/ r \in cut

\* A vSphere session does not outlive its request, on any way out of a handler,
\* unless the client went away or a call broke off (the deferred Close).
SessionsReturned ==
    \A r \in session : At(r, "done") => r \in cut

\* A list put together call by call while guests move is right about those that
\* stay: each is shown exactly once, unless the call for its node failed
\* (ListGuests, ListVMs).
StillGuestsListed ==
    \A r \in Req : req[r].op \in {"guests", "vms"} /\ At(r, "called") =>
        /\ \A g \in DOMAIN place \ req[r].moved : req[r].op = "guests" =>
              {p \in req[r].shown : p[1] = g}
                  = IF <<place[g], Kind[g]>> \in req[r].missed THEN {} ELSE {<<g, place[g]>>}
        /\ \A g \in VMParts \ req[r].missed : req[r].op = "vms" => <<g, None>> \in req[r].shown

=============================================================================
