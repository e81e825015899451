--------------------------- MODULE PalProcessProofs ---------------------------
(***************************************************************************)
(* Proofs about child processes and their pipes, for every set of children *)
(* and of pipes.                                                           *)
(***************************************************************************)
EXTENDS PalProcess, TLAPS

\* The ends that a piped spawn holds for itself, between its fork and the
\* parent's branch.
InCall == IF call.op = "attach" THEN Ends(job[call.of]) ELSE {}

\* Every end that the parent holds is the client's, lost, or the call's, and is
\* one of these only.
Accounts ==
    /\ held[Parent] = client \cup lost \cup InCall
    /\ client \cap lost = {}
    /\ InCall \cap (client \cup lost) = {}

\* Calls are of children, a piped one has two different pipes, and only a child
\* that was forked, its output shown, has something to write.
CallsAreSound ==
    /\ call.op # "none" => call.of \in Child
    /\ call.op = "attach" =>
          job[call.of] # Plain /\ job[call.of].input # job[call.of].output
    /\ \A c \in Child : pending[c] > 0 => job[c].shown /\ state[c] # "none"

ProcInv == TypeOK /\ CallsAreSound /\ Accounts

-----------------------------------------------------------------------------
(* Jobs and their pipes.                                                   *)

LEMMA PipedJob ==
    ASSUME NEW j \in Job, j # Plain
    PROVE  /\ j.input \in Pipe /\ j.output \in Pipe
           /\ j.fed \in BOOLEAN /\ j.shown \in BOOLEAN
BY DEF Job

LEMMA AskedJob ==
    ASSUME NEW j \in Job
    PROVE  j.fed \/ j.shown => j # Plain
BY DEF Plain

LEMMA EndsAreEnds ==
    ASSUME NEW p \in Pipe, NEW q \in Pipe
    PROVE  /\ {p, q} \X {"r", "w"} \subseteq End
           /\ Read(p) \in End /\ Write(p) \in End
BY DEF End, Read, Write

\* What a piped spawn does with its four ends: each is closed or given away, and
\* none is both.
LEMMA ClosedOrGiven ==
    ASSUME NEW j \in Job, j # Plain, j.input # j.output
    PROVE  /\ Closed(j) \cup Given(j) = Ends(j)
           /\ Closed(j) \cap Given(j) = {}
<1>1. j.fed \in BOOLEAN /\ j.shown \in BOOLEAN  BY PipedJob
<1>2. Ends(j) = {Read(j.input), Write(j.input), Read(j.output), Write(j.output)}
  BY DEF Ends, Read, Write
<1>3. /\ Read(j.input) # Write(j.input) /\ Read(j.input) # Write(j.output)
      /\ Read(j.input) # Read(j.output) /\ Write(j.input) # Read(j.output)
      /\ Write(j.input) # Write(j.output) /\ Read(j.output) # Write(j.output)
  BY DEF Read, Write
<1>4. CASE j.fed /\ j.shown
  BY <1>2, <1>3, <1>4 DEF Closed, Given, If
<1>5. CASE j.fed /\ ~j.shown
  BY <1>2, <1>3, <1>5 DEF Closed, Given, If
<1>6. CASE ~j.fed /\ j.shown
  BY <1>2, <1>3, <1>6 DEF Closed, Given, If
<1>7. CASE ~j.fed /\ ~j.shown
  BY <1>2, <1>3, <1>7 DEF Closed, Given, If
<1> QED  BY <1>1, <1>4, <1>5, <1>6, <1>7

\* A child's standard streams are ends of its own pipes.
LEMMA ChildHoldsEnds ==
    ASSUME TypeOK, NEW c \in Child
    PROVE  ChildHolds(c) \subseteq End
<1>1. job[c] \in Job /\ held[c] \subseteq End  BY DEF TypeOK
<1>2. CASE job[c] = Plain
  BY <1>1, <1>2 DEF ChildHolds
<1>3. CASE job[c] # Plain
  <2>1. job[c].input \in Pipe /\ job[c].output \in Pipe  BY <1>1, <1>3, PipedJob
  <2>2. Read(job[c].input) \in End /\ Write(job[c].output) \in End
    BY <2>1, EndsAreEnds
  <2> QED  BY <1>1, <1>3, <2>2 DEF ChildHolds, If
<1> QED  BY <1>2, <1>3

\* The two pipes that pipe() makes are of nobody.
LEMMA FreshPipes ==
    ASSUME TypeOK, NEW p \in Pipe, NEW q \in Pipe, Fresh(p, q)
    PROVE  /\ p # q
           /\ ({p, q} \X {"r", "w"}) \cap held[Parent] = {}
<1>1. p # q /\ p \in Unheld /\ q \in Unheld  BY DEF Fresh
<1>2. Parent \in DOMAIN held  BY DEF TypeOK
<1>3. held[Parent] \cap {Read(p), Write(p)} = {} /\ held[Parent] \cap {Read(q), Write(q)} = {}
  BY <1>1, <1>2 DEF Unheld
<1>4. {p, q} \X {"r", "w"} = {Read(p), Write(p)} \cup {Read(q), Write(q)}
  BY DEF Read, Write
<1> QED  BY <1>1, <1>3, <1>4

-----------------------------------------------------------------------------
(* The invariant, operation by operation.                                  *)

LEMMA ProcInvInit == Init => ProcInv
<1> SUFFICES ASSUME Init PROVE ProcInv
  OBVIOUS
<1>1. TypeOK
  BY PalProcessAssumption DEF Init, TypeOK, Job, NoCall, States, NoStatus
<1>2. CallsAreSound
  BY DEF Init, CallsAreSound, NoCall
<1>3. Accounts
  BY DEF Init, Accounts, InCall, NoCall
<1> QED  BY <1>1, <1>2, <1>3 DEF ProcInv

\* A child is forked without pipes.
LEMMA ForkPlain ==
    ASSUME ProcInv, NEW c \in Child, call = NoCall, state[c] = "none",
           Fork(c, Plain, held[Parent]),
           call' = NoCall \/ call' = [op |-> "any", of |-> c],
           UNCHANGED <<pending, level, client, lost, report>>
    PROVE  ProcInv'
<1>1. TypeOK'
  BY PalProcessAssumption DEF ProcInv, TypeOK, Fork, Job, NoCall, States
<1>2. held'[Parent] = held[Parent]
  BY PalProcessAssumption DEF ProcInv, TypeOK, Fork
<1>3. CallsAreSound'
  <2>1. \A d \in Child : pending[d] > 0 => job'[d].shown /\ state'[d] # "none"
    <3> SUFFICES ASSUME NEW d \in Child, pending[d] > 0
                 PROVE  job'[d].shown /\ state'[d] # "none"
      OBVIOUS
    <3>1. job[d].shown /\ state[d] # "none"  BY DEF ProcInv, CallsAreSound
    <3> QED  BY <3>1 DEF ProcInv, TypeOK, Fork
  <2> QED  BY <2>1 DEF CallsAreSound, NoCall
<1>4. Accounts'
  BY <1>2 DEF ProcInv, Accounts, InCall, NoCall
<1> QED  BY <1>1, <1>3, <1>4 DEF ProcInv

LEMMA StepSpawnPiped ==
    ASSUME ProcInv, NEW c \in Child, NEW j \in Job \ {Plain}, SpawnPiped(c, j)
    PROVE  ProcInv'
<1> DEFINE ends == held[Parent] \cup Ends(j)
<1>1. /\ state[c] = "none" /\ call = NoCall
      /\ state' = [state EXCEPT ![c] = "forked"] /\ job' = [job EXCEPT ![c] = j]
      /\ held' = [held EXCEPT ![Parent] = ends, ![c] = ends]
      /\ level' = [level EXCEPT ![j.input] = 0, ![j.output] = 0]
      /\ call' = [op |-> "attach", of |-> c]
      /\ UNCHANGED <<pending, client, lost, report>>
  BY DEF SpawnPiped, MaySpawn, Fork
<1>2. j.input \in Pipe /\ j.output \in Pipe  BY PipedJob
<1>3. j.input # j.output /\ Ends(j) \cap held[Parent] = {}
  BY <1>2, FreshPipes DEF ProcInv, SpawnPiped, Ends
<1>4. Ends(j) \subseteq End  BY <1>2, EndsAreEnds DEF Ends
<1>5. TypeOK'
  <2>1. held[Parent] \subseteq End  BY DEF ProcInv, TypeOK
  <2>2. held' \in [Child \cup {Parent} -> SUBSET End]
    BY <1>1, <1>4, <2>1 DEF ProcInv, TypeOK
  <2>3. client' \subseteq held'[Parent]
    BY <1>1, PalProcessAssumption DEF ProcInv, TypeOK
  <2>4. level' \in [Pipe -> 0..Capacity]
    <3>1. 0 \in 0..Capacity  BY PalProcessAssumption
    <3>2. level \in [Pipe -> 0..Capacity]  BY DEF ProcInv, TypeOK
    <3> QED  BY <1>1, <3>1, <3>2
  <2>5. \A d \in Child : held'[d] # {} => state'[d] \in {"forked", "running"}
    BY <1>1, PalProcessAssumption DEF ProcInv, TypeOK
  <2>6. state' \in [Child -> States] /\ job' \in [Child -> Job]
    BY <1>1 DEF ProcInv, TypeOK, States
  <2>7. call' \in [op : {"none", "any", "one", "attach"}, of : Child \cup {Parent}]
    BY <1>1
  <2> QED  BY <1>1, <2>2, <2>3, <2>4, <2>5, <2>6, <2>7 DEF ProcInv, TypeOK
<1>6. job'[c] = j  BY <1>1 DEF ProcInv, TypeOK
<1>7. CallsAreSound'
  <2>1. \A d \in Child : pending[d] > 0 => job'[d].shown /\ state'[d] # "none"
    <3> SUFFICES ASSUME NEW d \in Child, pending[d] > 0
                 PROVE  job'[d].shown /\ state'[d] # "none"
      OBVIOUS
    <3>1. job[d].shown /\ state[d] # "none"  BY DEF ProcInv, CallsAreSound
    <3> QED  BY <1>1, <3>1 DEF ProcInv, TypeOK
  <2> QED  BY <1>1, <1>3, <1>6, <2>1 DEF CallsAreSound
<1>8. Accounts'
  <2>1. held[Parent] = client \cup lost /\ client \cap lost = {}
    BY <1>1 DEF ProcInv, Accounts, InCall, NoCall
  <2>2. InCall' = Ends(j)  BY <1>1, <1>6 DEF InCall
  <2>3. held'[Parent] = ends  BY <1>1, PalProcessAssumption DEF ProcInv, TypeOK
  <2> QED  BY <1>1, <1>3, <2>1, <2>2, <2>3 DEF Accounts
<1> QED  BY <1>5, <1>7, <1>8 DEF ProcInv

LEMMA StepPipedForkFails ==
    ASSUME ProcInv, NEW p \in Pipe, NEW q \in Pipe, PipedForkFails(p, q)
    PROVE  ProcInv'
<1> DEFINE made == {p, q} \X {"r", "w"}
<1>1. /\ call = NoCall /\ lost = {} /\ lost' = made
      /\ held' = [held EXCEPT ![Parent] = held[Parent] \cup made]
      /\ UNCHANGED <<state, job, pending, level, call, client, report>>
  BY DEF PipedForkFails
<1>2. made \cap held[Parent] = {}
  BY FreshPipes DEF ProcInv, PipedForkFails
<1>3. made \subseteq End  BY EndsAreEnds
<1>4. held'[Parent] = held[Parent] \cup made /\ \A d \in Child : held'[d] = held[d]
  BY <1>1, PalProcessAssumption DEF ProcInv, TypeOK
<1>5. TypeOK'
  BY <1>1, <1>3, <1>4 DEF ProcInv, TypeOK
<1>6. CallsAreSound'
  BY <1>1 DEF ProcInv, CallsAreSound
<1>7. Accounts'
  <2>1. held[Parent] = client  BY <1>1 DEF ProcInv, Accounts, InCall, NoCall
  <2> QED  BY <1>1, <1>2, <1>4, <2>1 DEF Accounts, InCall, NoCall
<1> QED  BY <1>5, <1>6, <1>7 DEF ProcInv

LEMMA StepAttach ==
    ASSUME ProcInv, Attach
    PROVE  ProcInv'
<1> DEFINE j == job[call.of]
<1>1. /\ call.op = "attach" /\ call' = NoCall
      /\ held' = [held EXCEPT ![Parent] = held[Parent] \ Closed(j)]
      /\ client' = client \cup Given(j)
      /\ UNCHANGED <<state, job, pending, level, lost, report>>
  BY DEF Attach
<1>2. j \in Job /\ j # Plain /\ j.input # j.output
  BY <1>1 DEF ProcInv, CallsAreSound, TypeOK
<1>3. Closed(j) \cup Given(j) = Ends(j) /\ Closed(j) \cap Given(j) = {}
  BY <1>2, ClosedOrGiven
<1>4. /\ held[Parent] = client \cup lost \cup Ends(j) /\ client \cap lost = {}
      /\ Ends(j) \cap (client \cup lost) = {}
  BY <1>1 DEF ProcInv, Accounts, InCall
<1>5. held'[Parent] = held[Parent] \ Closed(j) /\ \A d \in Child : held'[d] = held[d]
  BY <1>1, PalProcessAssumption DEF ProcInv, TypeOK
<1>6. held'[Parent] = client' \cup lost /\ client' \cap lost = {}
  BY <1>1, <1>3, <1>4, <1>5
<1>7. TypeOK'
  <2>1. held' \in [Child \cup {Parent} -> SUBSET End]
    BY <1>1 DEF ProcInv, TypeOK
  <2>2. call' \in [op : {"none", "any", "one", "attach"}, of : Child \cup {Parent}]
    BY <1>1 DEF NoCall
  <2>3. client' \subseteq held'[Parent]  BY <1>6
  <2> QED  BY <1>1, <1>5, <2>1, <2>2, <2>3 DEF ProcInv, TypeOK
<1>8. CallsAreSound'
  BY <1>1 DEF ProcInv, CallsAreSound, NoCall
<1>9. Accounts'
  BY <1>1, <1>6 DEF Accounts, InCall, NoCall
<1> QED  BY <1>7, <1>8, <1>9 DEF ProcInv

\* A wait, of any child or of one: what it changes of a child is that it is gone.
LEMMA Reaping ==
    ASSUME ProcInv, NEW d \in Child, state[d] \in {"zombie", "reaped"}, call.op \in {"any", "one"},
           NEW r \in Child \cup {NoStatus, "unset"},
           state' = [state EXCEPT ![d] = "reaped"],
           report' = [report EXCEPT ![call.of] = r],
           call' = NoCall,
           UNCHANGED <<job, pending, held, level, client, lost>>
    PROVE  ProcInv'
<1>1. TypeOK'
  <2>1. state' \in [Child -> States]  BY DEF ProcInv, TypeOK, States
  <2>2. \A c \in Child : held[c] # {} => state'[c] \in {"forked", "running"}
    BY DEF ProcInv, TypeOK
  <2>3. call' \in [op : {"none", "any", "one", "attach"}, of : Child \cup {Parent}]
    BY DEF NoCall
  <2>4. report' \in [Child -> Child \cup {NoStatus, "unset"}]
    BY DEF ProcInv, TypeOK
  <2> QED  BY <2>1, <2>2, <2>3, <2>4 DEF ProcInv, TypeOK
<1>2. CallsAreSound'
  BY DEF ProcInv, TypeOK, CallsAreSound, NoCall
<1>3. Accounts'
  BY DEF ProcInv, Accounts, InCall, NoCall
<1> QED  BY <1>1, <1>2, <1>3 DEF ProcInv

LEMMA StepWaits ==
    ASSUME ProcInv
    PROVE  /\ \A d \in Child : SyncReturns(d) => ProcInv'
           /\ WaitReturns => ProcInv'
           /\ \A c \in Child : Sync(c) => ProcInv'
<1>1. ASSUME NEW d \in Child, SyncReturns(d) PROVE ProcInv'
  BY <1>1, Reaping DEF SyncReturns
<1>2. ASSUME WaitReturns PROVE ProcInv'
  <2> DEFINE r == IF state[call.of] = "zombie" THEN call.of ELSE "unset"
  <2>1. call.of \in Child  BY <1>2 DEF WaitReturns, ProcInv, CallsAreSound
  <2>2. r \in Child \cup {NoStatus, "unset"}  BY <2>1
  <2>3. /\ state[call.of] \in {"zombie", "reaped"} /\ call.op \in {"any", "one"}
        /\ state' = [state EXCEPT ![call.of] = "reaped"]
        /\ report' = [report EXCEPT ![call.of] = r]
        /\ call' = NoCall
        /\ UNCHANGED <<job, pending, held, level, client, lost>>
    BY <1>2 DEF WaitReturns
  <2> QED  BY <2>1, <2>2, <2>3, Reaping
<1>3. ASSUME NEW c \in Child, Sync(c) PROVE ProcInv'
  <2>1. /\ call = NoCall /\ call' = [op |-> "one", of |-> c]
        /\ UNCHANGED <<state, job, pending, held, level, client, lost, report>>
    BY <1>3 DEF Sync, kernel
  <2>2. TypeOK'  BY <2>1 DEF ProcInv, TypeOK
  <2>3. CallsAreSound'  BY <2>1 DEF ProcInv, CallsAreSound
  <2>4. Accounts'  BY <2>1 DEF ProcInv, Accounts, InCall, NoCall
  <2> QED  BY <2>2, <2>3, <2>4 DEF ProcInv
<1> QED  BY <1>1, <1>2, <1>3

\* A child changes no end but its own, and nothing of calls.
LEMMA ChildFrame ==
    ASSUME ProcInv, TypeOK', held'[Parent] = held[Parent],
           \A c \in Child : pending'[c] > 0 => job[c].shown /\ state'[c] # "none",
           UNCHANGED <<job, call, client, lost>>
    PROVE  ProcInv'
<1>1. CallsAreSound'
  BY DEF ProcInv, CallsAreSound
<1>2. Accounts'
  BY DEF ProcInv, Accounts, InCall
<1> QED  BY <1>1, <1>2 DEF ProcInv

LEMMA StepChildExecs ==
    ASSUME ProcInv, NEW c \in Child, NEW n \in 0..MaxOut, ChildExecs(c, n)
    PROVE  ProcInv'
<1>1. /\ state[c] = "forked" /\ (job[c].shown \/ n = 0)
      /\ state' = [state EXCEPT ![c] = "running"]
      /\ held' = [held EXCEPT ![c] = ChildHolds(c)]
      /\ pending' = [pending EXCEPT ![c] = n]
      /\ UNCHANGED <<job, level, call, client, lost, report>>
  BY DEF ChildExecs
<1>2. ChildHolds(c) \subseteq End  BY ChildHoldsEnds DEF ProcInv
<1>3. held'[Parent] = held[Parent]
  BY <1>1, PalProcessAssumption DEF ProcInv, TypeOK
<1>4. TypeOK'
  <2>1. state' \in [Child -> States]  BY <1>1 DEF ProcInv, TypeOK, States
  <2>2. pending' \in [Child -> 0..MaxOut]  BY <1>1 DEF ProcInv, TypeOK
  <2>3. held' \in [Child \cup {Parent} -> SUBSET End]
    BY <1>1, <1>2 DEF ProcInv, TypeOK
  <2>4. \A d \in Child : held'[d] # {} => state'[d] \in {"forked", "running"}
    BY <1>1 DEF ProcInv, TypeOK
  <2> QED  BY <1>1, <1>3, <2>1, <2>2, <2>3, <2>4 DEF ProcInv, TypeOK
<1>5. \A d \in Child : pending'[d] > 0 => job[d].shown /\ state'[d] # "none"
  BY <1>1 DEF ProcInv, TypeOK, CallsAreSound
<1> QED  BY <1>1, <1>3, <1>4, <1>5, ChildFrame DEF ProcInv, TypeOK

LEMMA StepEnded ==
    ASSUME ProcInv, NEW c \in Child, Ended(c)
    PROVE  ProcInv'
<1>1. /\ state' = [state EXCEPT ![c] = "zombie"]
      /\ held' = [held EXCEPT ![c] = {}]
      /\ UNCHANGED <<job, pending, level, call, client, lost, report>>
  BY DEF Ended
<1>2. held'[Parent] = held[Parent]
  BY <1>1, PalProcessAssumption DEF ProcInv, TypeOK
<1>3. TypeOK'
  <2>1. state' \in [Child -> States]  BY <1>1 DEF ProcInv, TypeOK, States
  <2>2. held' \in [Child \cup {Parent} -> SUBSET End]
    BY <1>1 DEF ProcInv, TypeOK
  <2>3. \A d \in Child : held'[d] # {} => state'[d] \in {"forked", "running"}
    BY <1>1 DEF ProcInv, TypeOK
  <2> QED  BY <1>1, <1>2, <2>1, <2>2, <2>3 DEF ProcInv, TypeOK
<1>4. \A d \in Child : pending'[d] > 0 => job[d].shown /\ state'[d] # "none"
  BY <1>1 DEF ProcInv, TypeOK, CallsAreSound
<1> QED  BY <1>1, <1>2, <1>3, <1>4, ChildFrame DEF ProcInv, TypeOK

\* What goes through a pipe changes its level and at most what a child has to
\* write yet.
LEMMA PipeFrame ==
    ASSUME ProcInv, NEW p \in Pipe, NEW n \in 0..Capacity,
           level' = [level EXCEPT ![p] = n],
           pending' \in [Child -> 0..MaxOut],
           \A d \in Child : pending'[d] <= pending[d],
           UNCHANGED <<state, job, held, call, client, lost, report>>
    PROVE  ProcInv'
<1>1. level' \in [Pipe -> 0..Capacity]  BY DEF ProcInv, TypeOK
<1>2. TypeOK'  BY <1>1 DEF ProcInv, TypeOK
<1>3. \A d \in Child : pending'[d] > 0 => job[d].shown /\ state'[d] # "none"
  <2> SUFFICES ASSUME NEW d \in Child, pending'[d] > 0
               PROVE  job[d].shown /\ state'[d] # "none"
    OBVIOUS
  <2>1. pending'[d] <= pending[d]  OBVIOUS
  <2>2. pending[d] \in 0..MaxOut /\ pending'[d] \in 0..MaxOut  BY DEF ProcInv, TypeOK
  <2>3. pending[d] > 0  BY <2>1, <2>2, PalProcessAssumption
  <2> QED  BY <2>3 DEF ProcInv, CallsAreSound
<1> QED  BY <1>2, <1>3, ChildFrame

LEMMA StepPipes ==
    ASSUME ProcInv, NEW c \in Child,
           ChildReads(c) \/ ChildWrites(c) \/ ClientWrites(c) \/ ClientReads(c)
    PROVE  ProcInv'
<1>1. job[c] \in Job /\ level \in [Pipe -> 0..Capacity] /\ pending \in [Child -> 0..MaxOut]
  BY DEF ProcInv, TypeOK
<1>2. ASSUME NEW k \in 0..Capacity
      PROVE  /\ k > 0 => k - 1 \in 0..Capacity
             /\ k < Capacity => k + 1 \in 0..Capacity
  BY PalProcessAssumption
<1>3. \A q : (Read(q) \in client \/ Write(q) \in client) => q \in Pipe
  BY DEF ProcInv, TypeOK, End, Read, Write
<1>4. \A d \in Child : pending[d] <= pending[d]
  BY <1>1, PalProcessAssumption
<1>5. CASE ChildReads(c)
  <2> DEFINE p == job[c].input
  <2>1. p \in Pipe  BY <1>1, <1>5, AskedJob, PipedJob DEF ChildReads
  <2>2. level[p] - 1 \in 0..Capacity
    <3>1. level[p] \in 0..Capacity  BY <1>1, <2>1
    <3>2. level[p] > 0  BY <1>5 DEF ChildReads
    <3> QED  BY <1>2, <3>1, <3>2
  <2>3. level' = [level EXCEPT ![p] = level[p] - 1]
    BY <1>5 DEF ChildReads, Removed
  <2>4. UNCHANGED <<state, job, pending, held, call, client, lost, report>>
    BY <1>5 DEF ChildReads
  <2> QED  BY <1>1, <1>4, <2>1, <2>2, <2>3, <2>4, PipeFrame
<1>6. CASE ChildWrites(c)
  <2> DEFINE p == job[c].output
  <2>1. job[c].shown  BY <1>6 DEF ChildWrites, ProcInv, CallsAreSound
  <2>2. p \in Pipe  BY <1>1, <2>1, AskedJob, PipedJob
  <2>3. level[p] + 1 \in 0..Capacity
    <3>1. level[p] \in 0..Capacity  BY <1>1, <2>2
    <3>2. level[p] < Capacity  BY <1>6 DEF ChildWrites
    <3> QED  BY <1>2, <3>1, <3>2
  <2>4. /\ level' = [level EXCEPT ![p] = level[p] + 1]
        /\ pending' = [pending EXCEPT ![c] = pending[c] - 1]
        /\ pending[c] > 0
        /\ UNCHANGED <<state, job, held, call, client, lost, report>>
    BY <1>6 DEF ChildWrites, Added
  <2>5. pending' \in [Child -> 0..MaxOut] /\ \A d \in Child : pending'[d] <= pending[d]
    BY <1>1, <2>4, PalProcessAssumption
  <2> QED  BY <2>2, <2>3, <2>4, <2>5, PipeFrame
<1>7. CASE ClientWrites(c)
  <2> DEFINE p == job[c].input
  <2>1. p \in Pipe  BY <1>3, <1>7 DEF ClientWrites
  <2>2. level[p] + 1 \in 0..Capacity
    <3>1. level[p] \in 0..Capacity  BY <1>1, <2>1
    <3>2. level[p] < Capacity  BY <1>7 DEF ClientWrites
    <3> QED  BY <1>2, <3>1, <3>2
  <2>3. level' = [level EXCEPT ![p] = level[p] + 1]
    BY <1>7 DEF ClientWrites, Added
  <2>4. UNCHANGED <<state, job, pending, held, call, client, lost, report>>
    BY <1>7 DEF ClientWrites
  <2> QED  BY <1>1, <1>4, <2>1, <2>2, <2>3, <2>4, PipeFrame
<1>8. CASE ClientReads(c)
  <2> DEFINE p == job[c].output
  <2>1. p \in Pipe  BY <1>3, <1>8 DEF ClientReads
  <2>2. level[p] - 1 \in 0..Capacity
    <3>1. level[p] \in 0..Capacity  BY <1>1, <2>1
    <3>2. level[p] > 0  BY <1>8 DEF ClientReads
    <3> QED  BY <1>2, <3>1, <3>2
  <2>3. level' = [level EXCEPT ![p] = level[p] - 1]
    BY <1>8 DEF ClientReads, Removed
  <2>4. UNCHANGED <<state, job, pending, held, call, client, lost, report>>
    BY <1>8 DEF ClientReads
  <2> QED  BY <1>1, <1>4, <2>1, <2>2, <2>3, <2>4, PipeFrame
<1> QED  BY <1>5, <1>6, <1>7, <1>8

LEMMA StepDrops ==
    ASSUME ProcInv, call = NoCall, NEW e \in client, Drops(e)
    PROVE  ProcInv'
<1>1. /\ held' = [held EXCEPT ![Parent] = held[Parent] \ {e}]
      /\ client' = client \ {e}
      /\ UNCHANGED <<state, job, pending, level, call, lost, report>>
  BY DEF Drops
<1>2. held'[Parent] = held[Parent] \ {e} /\ \A d \in Child : held'[d] = held[d]
  BY <1>1, PalProcessAssumption DEF ProcInv, TypeOK
<1>3. held' \in [Child \cup {Parent} -> SUBSET End]
  BY <1>1 DEF ProcInv, TypeOK
<1>4. TypeOK'  BY <1>1, <1>2, <1>3 DEF ProcInv, TypeOK
<1>5. CallsAreSound'  BY <1>1 DEF ProcInv, CallsAreSound
<1>6. Accounts'
  <2>1. held[Parent] = client \cup lost /\ client \cap lost = {}
    BY DEF ProcInv, Accounts, InCall, NoCall
  <2> QED  BY <1>1, <1>2, <2>1 DEF Accounts, InCall, NoCall
<1> QED  BY <1>4, <1>5, <1>6 DEF ProcInv

LEMMA ProcInvStep == ProcInv /\ [Next]_vars => ProcInv'
<1> SUFFICES ASSUME ProcInv, [Next]_vars PROVE ProcInv'
  OBVIOUS
<1>1. ASSUME NEW c \in Child, SpawnSync(c) PROVE ProcInv'
  BY <1>1, ForkPlain DEF SpawnSync, MaySpawn
<1>2. ASSUME NEW c \in Child, SpawnAsync(c) PROVE ProcInv'
  BY <1>2, ForkPlain DEF SpawnAsync, MaySpawn
<1>3. ASSUME NEW c \in Child, NEW j \in Job \ {Plain}, SpawnPiped(c, j) PROVE ProcInv'
  BY <1>3, StepSpawnPiped
<1>4. ASSUME NEW c \in Child, SyncReturns(c) \/ Sync(c) PROVE ProcInv'
  BY <1>4, StepWaits
<1>5. ASSUME NEW c \in Child, NEW n \in 0..MaxOut, ChildExecs(c, n) PROVE ProcInv'
  BY <1>5, StepChildExecs
<1>6. ASSUME NEW c \in Child, ExecFails(c) \/ ChildExits(c) PROVE ProcInv'
  BY <1>6, StepEnded DEF ExecFails, ChildExits
<1>7. ASSUME NEW c \in Child,
             ChildReads(c) \/ ChildWrites(c) \/ ClientWrites(c) \/ ClientReads(c)
      PROVE  ProcInv'
  BY <1>7, StepPipes
<1>8. ASSUME NEW c \in Child, ClosesInput(c) \/ ClosesOutput(c) PROVE ProcInv'
  BY <1>8, StepDrops DEF ClosesInput, ClosesOutput
<1>9. ASSUME NEW p \in Pipe, NEW q \in Pipe, PipedForkFails(p, q) PROVE ProcInv'
  BY <1>9, StepPipedForkFails
<1>10. CASE Attach
  BY <1>10, StepAttach
<1>11. CASE WaitReturns
  BY <1>11, StepWaits
<1>12. CASE UNCHANGED vars
  BY <1>12 DEF vars, ProcInv, TypeOK, CallsAreSound, Accounts, InCall
<1>13. CASE Over
  BY <1>12, <1>13 DEF Over
<1> QED
  BY <1>1, <1>2, <1>3, <1>4, <1>5, <1>6, <1>7, <1>8, <1>9, <1>10, <1>11, <1>12, <1>13
  DEF Next

\* The invariant of processes and pipes.
THEOREM ProcessInvariant == Spec => []ProcInv
<1>1. Init => ProcInv  BY ProcInvInit
<1>2. ProcInv /\ [Next]_vars => ProcInv'  BY ProcInvStep
<1> QED  BY <1>1, <1>2, PTL DEF Spec

\* Processes, pipes and calls keep their types.
THEOREM ProcessTypes == Spec => []TypeOK
<1>1. ProcInv => TypeOK  BY DEF ProcInv
<1> QED  BY <1>1, ProcessInvariant, PTL

\* For all children and pipes, outside a call every end that is open in the
\* parent is the client's, or was lost with a fork that failed.
THEOREM NoEndKept == Spec => []EndsAccounted
<1>1. ProcInv => EndsAccounted
  BY DEF ProcInv, Accounts, InCall, EndsAccounted
<1> QED  BY <1>1, ProcessInvariant, PTL

-----------------------------------------------------------------------------
(* Whose status a wait gives, when the client has one child at a time to   *)
(* wait for in pal_spawnproc_sync.                                         *)

\* A child that is gone was waited for by its own call; while a call waits for
\* one, that one is not gone, and while it waits for any, the others are.
Waits ==
    /\ OwnStatus
    /\ \A c \in Child : state[c] = "reaped" => report[c] # NoStatus
    /\ call.op = "one" => state[call.of] # "reaped"
    /\ call.op = "any" => \A d \in Child \ {call.of} : state[d] \in {"none", "reaped"}

\* What does not touch the calls, and moves no child to the dead nor, of those
\* that never ran or are dead, to the living, keeps Waits.
LEMMA WaitsFrame ==
    ASSUME ProcInv, Waits, UNCHANGED <<call, report>>,
           \A c \in Child : state'[c] = "reaped" => state[c] = "reaped",
           \A c \in Child : state[c] \in {"none", "reaped"} => state'[c] = state[c]
    PROVE  Waits'
<1>1. call.op # "none" => call.of \in Child  BY DEF ProcInv, CallsAreSound
<1> QED  BY <1>1 DEF Waits, OwnStatus

LEMMA WaitsSpawn ==
    ASSUME ProcInv, Waits, NEW c \in Child, call = NoCall, state[c] = "none",
           state' = [state EXCEPT ![c] = "forked"], report' = report,
           \/ call' = NoCall
           \/ call' = [op |-> "attach", of |-> c]
           \/ Alone /\ call' = [op |-> "any", of |-> c]
    PROVE  Waits'
<1>1. /\ \A d \in Child \ {c} : state'[d] = state[d]
      /\ state'[c] = "forked"
  BY DEF ProcInv, TypeOK
<1>2. OwnStatus' /\ \A d \in Child : state'[d] = "reaped" => report'[d] # NoStatus
  BY <1>1 DEF Waits, OwnStatus
<1>3. call'.op # "one"  BY DEF NoCall
<1>4. call'.op = "any" => \A d \in Child \ {call'.of} : state'[d] \in {"none", "reaped"}
  BY <1>1 DEF Alone, NoCall
<1> QED  BY <1>2, <1>3, <1>4 DEF Waits

\* A wait that ends gives the status of the child it was for.
LEMMA WaitsEnd ==
    ASSUME ProcInv, Waits, NEW c \in Child,
           state' = [state EXCEPT ![c] = "reaped"], report' = [report EXCEPT ![c] = c],
           call' = NoCall
    PROVE  Waits'
<1>1. /\ \A d \in Child \ {c} : state'[d] = state[d] /\ report'[d] = report[d]
      /\ report'[c] = c
  BY DEF ProcInv, TypeOK
<1>2. c # NoStatus  BY PalProcessAssumption DEF NoStatus
<1> QED  BY <1>1, <1>2 DEF Waits, OwnStatus, NoCall

LEMMA WaitsStep ==
    ASSUME SyncAlone
    PROVE  ProcInv /\ Waits /\ [Next]_vars => Waits'
<1> SUFFICES ASSUME ProcInv, Waits, [Next]_vars PROVE Waits'
  OBVIOUS
<1>1. ASSUME NEW c \in Child, SpawnSync(c) PROVE Waits'
  BY <1>1, SyncAlone, WaitsSpawn DEF SpawnSync, MaySpawn, Fork
<1>2. ASSUME NEW c \in Child, SpawnAsync(c) PROVE Waits'
  BY <1>2, WaitsSpawn DEF SpawnAsync, MaySpawn, Fork
<1>3. ASSUME NEW c \in Child, NEW j \in Job \ {Plain}, SpawnPiped(c, j) PROVE Waits'
  BY <1>3, WaitsSpawn DEF SpawnPiped, MaySpawn, Fork
<1>4. ASSUME NEW d \in Child, SyncReturns(d) PROVE Waits'
  <2>1. call.of \in Child  BY <1>4 DEF SyncReturns, ProcInv, CallsAreSound
  <2>2. d = call.of  BY <1>4 DEF SyncReturns, Waits
  <2> QED  BY <1>4, <2>1, <2>2, WaitsEnd DEF SyncReturns
<1>5. ASSUME NEW c \in Child, Sync(c) PROVE Waits'
  BY <1>5 DEF Sync, kernel, Waits, OwnStatus
<1>6. ASSUME NEW c \in Child, NEW n \in 0..MaxOut, ChildExecs(c, n) PROVE Waits'
  <2>1. \A d \in Child : d # c => state'[d] = state[d]
    BY <1>6 DEF ChildExecs, ProcInv, TypeOK
  <2>2. state[c] = "forked" /\ state'[c] = "running"
    BY <1>6 DEF ChildExecs, ProcInv, TypeOK
  <2> QED  BY <1>6, <2>1, <2>2, WaitsFrame DEF ChildExecs
<1>7. ASSUME NEW c \in Child, ExecFails(c) \/ ChildExits(c) PROVE Waits'
  <2>1. \A d \in Child : d # c => state'[d] = state[d]
    BY <1>7 DEF ExecFails, ChildExits, Ended, ProcInv, TypeOK
  <2>2. state[c] \in {"forked", "running"} /\ state'[c] = "zombie"
    BY <1>7 DEF ExecFails, ChildExits, Ended, ProcInv, TypeOK
  <2>3. UNCHANGED <<call, report>>
    BY <1>7 DEF ExecFails, ChildExits, Ended
  <2> QED  BY <2>1, <2>2, <2>3, WaitsFrame
<1>8. ASSUME NEW c \in Child,
             \/ ChildReads(c) \/ ChildWrites(c) \/ ClientWrites(c) \/ ClientReads(c)
             \/ ClosesInput(c) \/ ClosesOutput(c)
      PROVE  Waits'
  <2>1. UNCHANGED <<state, call, report>>
    BY <1>8 DEF ChildReads, ChildWrites, ClientWrites, ClientReads, ClosesInput,
                ClosesOutput, Drops
  <2> QED  BY <2>1, WaitsFrame
<1>9. ASSUME NEW p \in Pipe, NEW q \in Pipe, PipedForkFails(p, q) PROVE Waits'
  BY <1>9, WaitsFrame DEF PipedForkFails
<1>10. CASE Attach
  BY <1>10 DEF Attach, Waits, OwnStatus, NoCall
<1>11. CASE WaitReturns
  <2>1. call.of \in Child  BY <1>11 DEF WaitReturns, ProcInv, CallsAreSound
  <2>2. state[call.of] = "zombie"  BY <1>11 DEF WaitReturns, Waits
  <2> QED  BY <1>11, <2>1, <2>2, WaitsEnd DEF WaitReturns
<1>12. CASE UNCHANGED vars
  BY <1>12, WaitsFrame DEF vars
<1>13. CASE Over
  BY <1>12, <1>13 DEF Over
<1> QED
  BY <1>1, <1>2, <1>3, <1>4, <1>5, <1>6, <1>7, <1>8, <1>9, <1>10, <1>11, <1>12, <1>13
  DEF Next

\* A client that calls pal_spawnproc_sync only when it has waited for all its
\* other children gets, from it and from pal_syncproc, the status of the child
\* it called them for, however many children there are.
THEOREM StatusIsOwn == SyncAlone /\ Spec => []OwnStatus
<1> SUFFICES ASSUME SyncAlone PROVE Spec => []OwnStatus
  OBVIOUS
<1>1. Init => Waits
  BY DEF Init, Waits, OwnStatus, NoCall
<1>2. ProcInv /\ Waits /\ [Next]_vars => Waits'
  BY WaitsStep
<1>3. Waits => OwnStatus  BY DEF Waits
<1> QED  BY <1>1, <1>2, <1>3, ProcessInvariant, PTL DEF Spec

-----------------------------------------------------------------------------
(* Who can write to a child's input, when the client spawns with no pipe   *)
(* to write to in its hands.                                               *)

\* Before a child has closed its pipes' ends it can write to these, to lost
\* ones, and to no other.
Feeds ==
    /\ OnlyTheClientFeeds
    /\ \A c \in Child :
          state[c] = "forked" =>
             \A e \in held[c] : e[2] = "w" => e \in Ends(job[c]) \cup lost

LEMMA FeedsFrame ==
    ASSUME Feeds, lost \subseteq lost',
           \A c \in Child : state'[c] \in {"forked", "running"} =>
              state'[c] = state[c] /\ held'[c] = held[c] /\ job'[c] = job[c]
    PROVE  Feeds'
BY DEF Feeds, OnlyTheClientFeeds, Output

LEMMA FeedsFork ==
    ASSUME ProcInv, Feeds, NEW c \in Child, NEW j \in Job, NEW ends,
           Fork(c, j, ends), lost' = lost,
           \A e \in ends : e[2] = "w" => e \in Ends(j) \cup lost
    PROVE  Feeds'
<1>1. /\ state'[c] = "forked" /\ job'[c] = j /\ held'[c] = ends
      /\ \A d \in Child \ {c} :
            state'[d] = state[d] /\ job'[d] = job[d] /\ held'[d] = held[d]
  BY PalProcessAssumption DEF ProcInv, TypeOK, Fork
<1>2. OnlyTheClientFeeds'
  BY <1>1 DEF Feeds, OnlyTheClientFeeds, Output
<1> QED  BY <1>1, <1>2 DEF Feeds

LEMMA FeedsExec ==
    ASSUME ProcInv, Feeds, NEW c \in Child, NEW n \in 0..MaxOut, ChildExecs(c, n)
    PROVE  Feeds'
<1>1. /\ state[c] = "forked" /\ state'[c] = "running" /\ held'[c] = ChildHolds(c)
      /\ job' = job /\ lost' = lost
      /\ \A d \in Child \ {c} : state'[d] = state[d] /\ held'[d] = held[d]
  BY PalProcessAssumption DEF ChildExecs, ProcInv, TypeOK
<1>2. job[c] \in Job /\ held[c] \subseteq End  BY DEF ProcInv, TypeOK
<1>3. \A e \in held[c] : e[2] = "w" => e \in Ends(job[c]) \cup lost
  BY <1>1 DEF Feeds
<1>4. \A e \in ChildHolds(c) : e[2] = "w" => e \in Output(c) \cup lost
  <2>1. CASE job[c] = Plain
    <3>1. Ends(Plain) \cap End = {}
      BY PalProcessAssumption DEF Ends, Plain, End
    <3> QED  BY <1>2, <1>3, <2>1, <3>1 DEF ChildHolds
  <2>2. CASE job[c] # Plain
    <3>1. Read(job[c].input)[2] # "w"  BY DEF Read
    <3> QED  BY <1>3, <2>2, <3>1 DEF ChildHolds, Output, If
  <2> QED  BY <2>1, <2>2
<1>5. OnlyTheClientFeeds'
  BY <1>1, <1>4 DEF Feeds, OnlyTheClientFeeds, Output
<1> QED  BY <1>1, <1>5 DEF Feeds

LEMMA FeedsStep ==
    ASSUME SpawnsBare
    PROVE  ProcInv /\ Feeds /\ [Next]_vars => Feeds'
<1> SUFFICES ASSUME ProcInv, Feeds, [Next]_vars PROVE Feeds'
  OBVIOUS
<1>1. ASSUME NEW c \in Child, MaySpawn(c)
      PROVE  \A e \in held[Parent] : e[2] = "w" => e \in lost
  <2>1. held[Parent] = client \cup lost
    BY <1>1 DEF MaySpawn, ProcInv, Accounts, InCall, NoCall
  <2> QED  BY <1>1, <2>1, SpawnsBare DEF MaySpawn
<1>2. Plain \in Job  BY DEF Job
<1>3. ASSUME NEW c \in Child, SpawnSync(c) PROVE Feeds'
  BY <1>1, <1>2, <1>3, FeedsFork DEF SpawnSync
<1>4. ASSUME NEW c \in Child, SpawnAsync(c) PROVE Feeds'
  BY <1>1, <1>2, <1>4, FeedsFork DEF SpawnAsync
<1>5. ASSUME NEW c \in Child, NEW j \in Job \ {Plain}, SpawnPiped(c, j) PROVE Feeds'
  <2>1. \A e \in held[Parent] \cup Ends(j) : e[2] = "w" => e \in Ends(j) \cup lost
    BY <1>1, <1>5 DEF SpawnPiped
  <2> QED  BY <1>5, <2>1, FeedsFork DEF SpawnPiped
<1>6. ASSUME NEW c \in Child, NEW n \in 0..MaxOut, ChildExecs(c, n) PROVE Feeds'
  BY <1>6, FeedsExec
<1>7. ASSUME NEW c \in Child, ExecFails(c) \/ ChildExits(c) PROVE Feeds'
  <2>1. /\ state'[c] = "zombie" /\ job' = job /\ lost' = lost
        /\ \A d \in Child \ {c} : state'[d] = state[d] /\ held'[d] = held[d]
    BY <1>7 DEF ExecFails, ChildExits, Ended, ProcInv, TypeOK
  <2> QED  BY <2>1, FeedsFrame
<1>8. ASSUME NEW c \in Child,
             ChildReads(c) \/ ChildWrites(c) \/ ClientWrites(c) \/ ClientReads(c)
      PROVE  Feeds'
  <2>1. UNCHANGED <<state, job, held, lost>>
    BY <1>8 DEF ChildReads, ChildWrites, ClientWrites, ClientReads
  <2> QED  BY <2>1, FeedsFrame
<1>9. ASSUME NEW c \in Child, ClosesInput(c) \/ ClosesOutput(c) PROVE Feeds'
  <2>1. UNCHANGED <<state, job, lost>> /\ \A d \in Child : held'[d] = held[d]
    BY <1>9, PalProcessAssumption DEF ClosesInput, ClosesOutput, Drops, ProcInv, TypeOK
  <2> QED  BY <2>1, FeedsFrame
<1>10. ASSUME NEW d \in Child, SyncReturns(d) \/ Sync(d) PROVE Feeds'
  <2>1. /\ UNCHANGED <<job, held, lost>>
        /\ \A c \in Child : state'[c] = state[c] \/ state'[c] = "reaped"
    BY <1>10 DEF SyncReturns, Sync, kernel, ProcInv, TypeOK
  <2> QED  BY <2>1, FeedsFrame
<1>11. CASE WaitReturns
  <2>1. /\ UNCHANGED <<job, held, lost>>
        /\ \A c \in Child : state'[c] = state[c] \/ state'[c] = "reaped"
    BY <1>11 DEF WaitReturns, ProcInv, TypeOK
  <2> QED  BY <2>1, FeedsFrame
<1>12. ASSUME NEW p \in Pipe, NEW q \in Pipe, PipedForkFails(p, q) PROVE Feeds'
  <2>1. /\ UNCHANGED <<state, job>> /\ lost \subseteq lost'
        /\ \A d \in Child : held'[d] = held[d]
    BY <1>12, PalProcessAssumption DEF PipedForkFails, ProcInv, TypeOK
  <2> QED  BY <2>1, FeedsFrame
<1>13. CASE Attach
  <2>1. UNCHANGED <<state, job, lost>> /\ \A d \in Child : held'[d] = held[d]
    BY <1>13, PalProcessAssumption DEF Attach, ProcInv, TypeOK
  <2> QED  BY <2>1, FeedsFrame
<1>14. CASE UNCHANGED vars
  BY <1>14, FeedsFrame DEF vars
<1>15. CASE Over
  BY <1>14, <1>15 DEF Over
<1> QED
  BY <1>3, <1>4, <1>5, <1>6, <1>7, <1>8, <1>9, <1>10, <1>11, <1>12, <1>13, <1>14, <1>15
  DEF Next

\* A client that spawns with no pipe to write to in its hands is the only one
\* that can keep a command's input open: no command, of any number of them,
\* holds another's write end or its own.
THEOREM InputsAreTheClients == SpawnsBare /\ Spec => []OnlyTheClientFeeds
<1> SUFFICES ASSUME SpawnsBare PROVE Spec => []OnlyTheClientFeeds
  OBVIOUS
<1>1. Init => Feeds
  BY DEF Init, Feeds, OnlyTheClientFeeds
<1>2. ProcInv /\ Feeds /\ [Next]_vars => Feeds'
  BY FeedsStep
<1>3. Feeds => OnlyTheClientFeeds  BY DEF Feeds
<1> QED  BY <1>1, <1>2, <1>3, ProcessInvariant, PTL DEF Spec
=============================================================================
