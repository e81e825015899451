------------------------------ MODULE PalProcess ------------------------------
(***************************************************************************)
(* Child processes and their pipes (dpcrt_pal_linux.c): the three ways to  *)
(* spawn one, the wait for one, and what the kernel keeps: which process   *)
(* holds which end of which pipe, and who has ended and was not waited     *)
(* for.  The caller has one thread; a child runs a shell command, and both *)
(* inherit what their parent holds when they are forked.                   *)
(***************************************************************************)
EXTENDS Naturals

CONSTANTS Child, Pipe, Parent,
          Capacity,    \* of a pipe
          MaxOut,      \* how much a child has to write at most
          SyncAlone,   \* the client spawns and waits only when it has no other child
          SpawnsBare   \* it spawns only when it holds no pipe to write to

ASSUME PalProcessAssumption ==
    /\ Parent \notin Child /\ "none" \notin Child /\ Pipe \subseteq Nat \ {0}
    /\ Capacity \in Nat \ {0} /\ MaxOut \in Nat
    /\ SyncAlone \in BOOLEAN /\ SpawnsBare \in BOOLEAN

VARIABLES state,    \* of each child
          job,      \* its pipes, and which of them its caller asked for
          pending,  \* how much it has to write yet
          held,     \* the ends of pipes that each process holds
          level,    \* how much is in each pipe
          call,     \* the call that the parent is in
          client,   \* the ends that the client was given and has not closed
          lost,     \* history: the ends of calls whose fork failed
          report    \* history: whose status the wait for each child returned

kernel == <<state, job, pending, held, level>>

vars == <<state, job, pending, held, level, call, client, lost, report>>

Read(p) == <<p, "r">>

Write(p) == <<p, "w">>

End == Pipe \X {"r", "w"}

\* A job without pipes.
Plain == [input |-> 0, output |-> 0, fed |-> FALSE, shown |-> FALSE]

Job == [input : Pipe, output : Pipe, fed : BOOLEAN, shown : BOOLEAN] \cup {Plain}

NoStatus == "none"

NoCall == [op |-> "none", of |-> Parent]

Init ==
    /\ state = [c \in Child |-> "none"]
    /\ job = [c \in Child |-> Plain]
    /\ pending = [c \in Child |-> 0]
    /\ held = [x \in Child \cup {Parent} |-> {}]
    /\ level = [p \in Pipe |-> 0]
    /\ call = NoCall
    /\ client = {}
    /\ lost = {}
    /\ report = [c \in Child |-> NoStatus]

Holder(e) == {x \in DOMAIN held : e \in held[x]}

-----------------------------------------------------------------------------
(* The calls of the parent.                                                *)

\* Every child was waited for.
Alone == \A c \in Child : state[c] \in {"none", "reaped"}

MaySpawn(c) ==
    /\ call = NoCall /\ state[c] = "none"
    /\ SpawnsBare => \A e \in client : e[2] # "w"

\* fork, with the parent holding these ends
Fork(c, j, ends) ==
    /\ state' = [state EXCEPT ![c] = "forked"]
    /\ job' = [job EXCEPT ![c] = j]
    /\ held' = [held EXCEPT ![Parent] = ends, ![c] = ends]

\* pal_spawnproc_sync, up to its wait
SpawnSync(c) ==
    /\ MaySpawn(c)
    /\ SyncAlone => Alone
    /\ Fork(c, Plain, held[Parent])
    /\ call' = [op |-> "any", of |-> c]
    /\ UNCHANGED <<pending, level, client, lost, report>>

\* pal_spawnproc_async
SpawnAsync(c) ==
    /\ MaySpawn(c)
    /\ Fork(c, Plain, held[Parent])
    /\ UNCHANGED <<pending, level, call, client, lost, report>>

Unheld == {p \in Pipe : \A x \in DOMAIN held : held[x] \cap {Read(p), Write(p)} = {}}

\* What pipe() returns twice: two pipes that nobody holds, the first of them.
Fresh(p, q) ==
    /\ q \in Unheld /\ p \in Unheld \ {q}
    /\ \A r \in Unheld : q <= r /\ (r # q => p <= r)

Ends(j) == {j.input, j.output} \X {"r", "w"}

\* pal_spawnproc_async_piped up to its fork: there are two pipes, whichever of
\* them were asked for.
SpawnPiped(c, j) ==
    /\ MaySpawn(c)
    /\ Fresh(j.input, j.output)
    /\ Fork(c, j, held[Parent] \cup Ends(j))
    /\ level' = [level EXCEPT ![j.input] = 0, ![j.output] = 0]
    /\ call' = [op |-> "attach", of |-> c]
    /\ UNCHANGED <<pending, client, lost, report>>

\* The fork fails and the call returns without closing anything.  That it
\* fails once is a bound.
PipedForkFails(p, q) ==
    /\ call = NoCall /\ lost = {}
    /\ Fresh(p, q)
    /\ held' = [held EXCEPT ![Parent] = @ \cup ({p, q} \X {"r", "w"})]
    /\ lost' = {p, q} \X {"r", "w"}
    /\ UNCHANGED <<state, job, pending, level, call, client, report>>

If(asked, ends) == IF asked THEN ends ELSE {}

\* The ends that are passed to the caller.
Given(j) == If(j.fed, {Write(j.input)}) \cup If(j.shown, {Read(j.output)})

\* Mutants (Name_Bug): a bug of a line each, that a property must find.
Closed_OutKept(j) ==
    {Read(j.input)} \cup If(~j.fed, {Write(j.input)}) \cup If(~j.shown, {Read(j.output)})

Closed_NullKept(j) == {Read(j.input), Write(j.output)}

Closed_Swapped(j) ==
    {Write(j.input), Write(j.output)} \cup If(~j.fed, {Read(j.input)})
    \cup If(~j.shown, {Read(j.output)})

\* The ends that the parent closes.
Closed(j) ==
    {Read(j.input), Write(j.output)}
    \cup If(~j.fed, {Write(j.input)}) \cup If(~j.shown, {Read(j.output)})

\* The parent's branch after the fork of a piped child.
Attach ==
    /\ call.op = "attach"
    /\ held' = [held EXCEPT ![Parent] = @ \ Closed(job[call.of])]
    /\ client' = client \cup Given(job[call.of])
    /\ call' = NoCall
    /\ UNCHANGED <<state, job, pending, level, lost, report>>

\* waitpid(-1): any child that has ended.
SyncReturns(d) ==
    /\ call.op = "any" /\ state[d] = "zombie"
    /\ state' = [state EXCEPT ![d] = "reaped"]
    /\ report' = [report EXCEPT ![call.of] = d]
    /\ call' = NoCall
    /\ UNCHANGED <<job, pending, held, level, client, lost>>

\* pal_syncproc; the client has read what there was to read and closed its ends.
Sync(c) ==
    /\ call = NoCall
    /\ state[c] # "none" /\ report[c] = NoStatus
    /\ Given(job[c]) \cap client = {}
    /\ call' = [op |-> "one", of |-> c]
    /\ UNCHANGED <<kernel, client, lost, report>>

WaitReturns_AnyChild ==
    \E d \in Child :
        /\ call.op = "one" /\ state[d] = "zombie"
        /\ state' = [state EXCEPT ![d] = "reaped"]
        /\ report' = [report EXCEPT ![call.of] = d]
        /\ call' = NoCall
        /\ UNCHANGED <<job, pending, held, level, client, lost>>

\* waitpid of one child; of one that is gone it fails, and the status stays
\* what it was.
WaitReturns ==
    /\ call.op = "one" /\ state[call.of] \in {"zombie", "reaped"}
    /\ state' = [state EXCEPT ![call.of] = "reaped"]
    /\ report' = [report EXCEPT ![call.of] =
                    IF state[call.of] = "zombie" THEN call.of ELSE "unset"]
    /\ call' = NoCall
    /\ UNCHANGED <<job, pending, held, level, client, lost>>

-----------------------------------------------------------------------------
(* The child.                                                              *)

ChildHolds_InKept(c) ==
    IF job[c] = Plain THEN held[c]
    ELSE (held[c] \ (Ends(job[c]) \ {Write(job[c].input)}))
         \cup If(job[c].fed, {Read(job[c].input)}) \cup If(job[c].shown, {Write(job[c].output)})

\* What is left after dup2 and close: its standard streams, and all that the
\* parent held besides.
ChildHolds(c) ==
    IF job[c] = Plain THEN held[c]
    ELSE (held[c] \ Ends(job[c]))
         \cup If(job[c].fed, {Read(job[c].input)}) \cup If(job[c].shown, {Write(job[c].output)})

\* The child's branch up to execl.
ChildExecs(c, n) ==
    /\ state[c] = "forked"
    /\ job[c].shown \/ n = 0
    /\ state' = [state EXCEPT ![c] = "running"]
    /\ held' = [held EXCEPT ![c] = ChildHolds(c)]
    /\ pending' = [pending EXCEPT ![c] = n]
    /\ UNCHANGED <<job, level, call, client, lost, report>>

Ended(c) ==
    /\ state' = [state EXCEPT ![c] = "zombie"]
    /\ held' = [held EXCEPT ![c] = {}]
    /\ UNCHANGED <<job, pending, level, call, client, lost, report>>

\* execl fails and the child aborts.
ExecFails(c) == state[c] = "forked" /\ Ended(c)

Added(p, n) == level' = [level EXCEPT ![p] = @ + n]

Removed(p) == level' = [level EXCEPT ![p] = @ - 1]

ChildReads(c) ==
    /\ state[c] = "running" /\ job[c].fed
    /\ level[job[c].input] > 0
    /\ Removed(job[c].input)
    /\ UNCHANGED <<state, job, pending, held, call, client, lost, report>>

ChildWrites(c) ==
    /\ state[c] = "running" /\ pending[c] > 0
    /\ level[job[c].output] < Capacity
    /\ Added(job[c].output, 1)
    /\ pending' = [pending EXCEPT ![c] = @ - 1]
    /\ UNCHANGED <<state, job, held, call, client, lost, report>>

\* A command may end at any time.
ChildExits(c) == state[c] = "running" /\ Ended(c)

\* Nothing is in the pipe and nobody can write to it: a read() gives the end.
AtEnd(p) == level[p] = 0 /\ Holder(Write(p)) = {}

\* A filter ends when it has read its input to the end and written its output.
FilterExits(c) ==
    /\ pending[c] = 0 /\ (job[c].fed => AtEnd(job[c].input))
    /\ ChildExits(c)

-----------------------------------------------------------------------------
(* The client.                                                             *)

Drops(e) ==
    /\ held' = [held EXCEPT ![Parent] = @ \ {e}]
    /\ client' = client \ {e}
    /\ UNCHANGED <<state, job, pending, level, call, lost, report>>

ClientWrites(c) ==
    /\ call = NoCall /\ Write(job[c].input) \in client
    /\ level[job[c].input] < Capacity /\ Holder(Read(job[c].input)) # {}
    /\ Added(job[c].input, 1)
    /\ UNCHANGED <<state, job, pending, held, call, client, lost, report>>

ClosesInput(c) ==
    /\ call = NoCall /\ Write(job[c].input) \in client
    /\ Drops(Write(job[c].input))

ClientReads(c) ==
    /\ call = NoCall /\ Read(job[c].output) \in client
    /\ level[job[c].output] > 0
    /\ Removed(job[c].output)
    /\ UNCHANGED <<state, job, pending, held, call, client, lost, report>>

\* The client reads to the end.
ClosesOutput(c) ==
    /\ call = NoCall /\ Read(job[c].output) \in client
    /\ AtEnd(job[c].output)
    /\ Drops(Read(job[c].output))

\* No child is left to spawn or to wait for.
Over ==
    /\ call = NoCall /\ client = {} /\ \A c \in Child : report[c] # NoStatus
    /\ UNCHANGED vars

Next ==
    \/ \E c \in Child :
          \/ SpawnSync(c) \/ SpawnAsync(c)
          \/ \E j \in Job \ {Plain} : SpawnPiped(c, j)
          \/ SyncReturns(c) \/ Sync(c)
          \/ \E n \in 0..MaxOut : ChildExecs(c, n)
          \/ ExecFails(c) \/ ChildReads(c) \/ ChildWrites(c) \/ ChildExits(c)
          \/ ClientWrites(c) \/ ClosesInput(c) \/ ClientReads(c) \/ ClosesOutput(c)
    \/ \E p, q \in Pipe : PipedForkFails(p, q)
    \/ Attach \/ WaitReturns \/ Over

Spec == Init /\ [][Next]_vars

\* The kernel runs every process; a command reads its input, writes its output
\* and then ends; the client closes what it writes to, reads what it is given to
\* the end, and then waits for its child.
Fairness ==
    /\ WF_vars(Attach) /\ WF_vars(WaitReturns)
    /\ \A c \in Child :
          /\ WF_vars(SyncReturns(c)) /\ WF_vars(Sync(c))
          /\ WF_vars(\E n \in 0..MaxOut : ChildExecs(c, n))
          /\ WF_vars(ChildReads(c)) /\ WF_vars(ChildWrites(c)) /\ WF_vars(FilterExits(c))
          /\ WF_vars(ClosesInput(c)) /\ WF_vars(ClientReads(c)) /\ WF_vars(ClosesOutput(c))

FairSpec == Spec /\ Fairness

-----------------------------------------------------------------------------
(* Properties.                                                             *)

States == {"none", "forked", "running", "zombie", "reaped"}

\* What the client was given is open, and who has ended holds nothing.
TypeOK ==
    /\ state \in [Child -> States]
    /\ job \in [Child -> Job] /\ pending \in [Child -> 0..MaxOut]
    /\ held \in [Child \cup {Parent} -> SUBSET End] /\ level \in [Pipe -> 0..Capacity]
    /\ call \in [op : {"none", "any", "one", "attach"}, of : Child \cup {Parent}]
    /\ client \subseteq held[Parent] /\ lost \subseteq End
    /\ report \in [Child -> Child \cup {NoStatus, "unset"}]
    /\ \A c \in Child : held[c] # {} => state[c] \in {"forked", "running"}

\* pal_spawnproc_sync and pal_syncproc give the status of the child they were
\* called for, which nobody else has taken: "wait for child to complete".
OwnStatus == \A c \in Child : report[c] \in {NoStatus, c}

\* Outside a call the library holds no pipe for itself: an end that is open in
\* the parent is the client's, or was lost with a fork that failed.
EndsAccounted ==
    call.op # "attach" => held[Parent] = client \cup lost

Output(c) == IF job[c].shown THEN {Write(job[c].output)} ELSE {}

\* A command that runs can write to no pipe but its own standard output, lost
\* ones excepted: none keeps another's input, or its own, from ending.
OnlyTheClientFeeds ==
    \A c \in Child :
        state[c] = "running" => \A e \in held[c] : e[2] = "w" => e \in Output(c) \cup lost

\* A call that waits for a child returns.
WaitsReturn == (call.op \in {"any", "one"}) ~> (call = NoCall)

\* A client that reads a child's output is told that it has ended.
OutputsEnd ==
    \A c \in Child :
        (job[c].shown /\ Read(job[c].output) \in client) ~> (Read(job[c].output) \notin client)
=============================================================================
