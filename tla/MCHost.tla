-------------------------------- MODULE MCHost --------------------------------
\* Model-checking instance of what happens on a managed host: the loop of the
\* agent, and the file requests. The two share no variable, so their product has
\* no property that one of them alone has not: a behaviour is one of either, the
\* other standing still. The old file is longer than what one of the requests
\* uploads and as long as what another does.
EXTENDS AgentLoop, FileTransfer, TLC

CONSTANTS r1, r2, r3, old

VARIABLE part

BlocksValue == r1 :> 1 @@ r2 :> 2 @@ r3 :> 1 @@ old :> 2

\* The component that stands still has one initial state.
HostInit ==
    /\ Init /\ FileInit
    /\ \/ part = "agent" /\ entry = [p \in Path |-> Nil]
       \/ part = "files" /\ up = [n \in Node |-> TRUE]

\* Every request has been answered.
Answered == part = "files" /\ (\A r \in Req : req[r].at \in {"done", "failed"})

HostNext ==
    \/ part = "agent" /\ Next /\ UNCHANGED <<fileVars, part>>
    \/ part = "files" /\ FileNext /\ UNCHANGED <<vars, part>>
    \/ Answered /\ UNCHANGED <<vars, fileVars, part>>

HostSpec ==
    /\ HostInit /\ [][HostNext]_<<vars, fileVars, part>>
    /\ WF_vars(part = "agent" /\ AgentStep) /\ WF_vars(part = "agent" /\ Restart)
=============================================================================
