----------------------------- MODULE ReduceTree -----------------------------
(***************************************************************************)
(* The reduce stages of test/node_q1.cpp (lines 68-101 and 142-322) and     *)
(* test/node_q2.cpp (lines 70-103 and 188-430), which are the same: each    *)
(* party runs a few processes on each of its machines, and their results go *)
(* to the process with id 0 of one machine, from process to process through *)
(* shared memory (module ShmPipe) and from machine to machine through TCP.  *)
(* A process meets its peer, the process of the other party with its id, in *)
(* io->sync() at the begin of each of its stages and after it has received. *)
(*                                                                          *)
(* A result is the bag of the processes whose own results it is made of:    *)
(* lists are merged in query 2 (module NodeReduce), and counters added in   *)
(* query 1, where the own result of a process is the count of its last tile *)
(* (node_q1.cpp:130; the sum of line 132 is not read).                      *)
(***************************************************************************)
EXTENDS Integers, Bags, FiniteSetsExt

\* [program, machines, n_processes, LAYERS, Local, reducer_ip_2, reducer_ip_3]:
\* each machine's addresses are given as functions of the machine.
CONSTANT Setups

ASSUME SetupAssumption ==
    \A s \in Setups :
        /\ s.program \in {"q1", "q2"}
        /\ s.n_processes \in {2, 4, 8} /\ s.LAYERS \in 1..4 /\ s.Local \in BOOLEAN
        /\ {s.reducer_ip_2, s.reducer_ip_3} \subseteq [s.machines -> s.machines]

VARIABLES
    setup,    \* how the programs were compiled and configured
    pc,       \* pc[q]: [stage, at]: where process q is
    result,   \* result[q]: its list or counter
    got,      \* got[q]: what it has received in this stage
    shm,      \* shm[<<p, m, name>>]: what was sent there and not received yet
    stream,   \* stream[q][stage]: [connected, data]: the connection q has made
    acceptor  \* acceptor[q]: [listens, from]: from holds who was accepted

vars == <<setup, pc, result, got, shm, stream, acceptor>>

Party   == {"A", "B"}
Origin  == setup.machines \X (0..setup.n_processes - 1)
Process == Party \X Origin                       \* q = <<party, <<machine, id>>>>

machine(q) == q[2][1]                            \* its address is reducer_ip_1
id(q)      == q[2][2]
Peers(o)   == {<<p, o>> : p \in Party}

\* node_q1 hands reducer_ip_2 to parse() twice: the first gets the value of the
\* third address, which itself stays empty.
ip_2(m) == IF setup.program = "q1" THEN setup.reducer_ip_3[m] ELSE setup.reducer_ip_2[m]
ip_3(m) == IF setup.program = "q1" THEN "" ELSE setup.reducer_ip_3[m]

OwnPort(k, stage) ==         \* mutant: a process with an odd id keeps its own port
    CASE stage = 1 -> k
      [] stage = 2 -> (IF k \in {2, 6} THEN k - 2 ELSE k) + 50
      [] stage = 3 -> (IF k = 4 THEN 0 ELSE k) + 60

\* What is added to the reducer port of process 0 in the names of the semaphore
\* and the memory that process k opens in a stage.
Name(k, stage) ==
    LET reducer_port == k - (k % 2) IN
    CASE stage = 1 -> reducer_port
      [] stage = 2 -> (IF k \in {2, 6} THEN reducer_port - 2 ELSE reducer_port) + 50
      [] stage = 3 -> (IF k = 4 THEN reducer_port - 4 ELSE reducer_port) + 60

Names   == {Name(k, stage) : k \in 0..7, stage \in 1..3}
Pipe(q) == <<q[1], machine(q), Name(id(q), pc[q].stage)>>

Receivers(stage) == CASE stage = 1 -> {0, 2, 4, 6} [] stage = 2 -> {0, 4} [] OTHER -> {0}
Senders(stage)   == CASE stage = 1 -> {1, 3, 5, 7} [] stage = 2 -> {2, 6} [] OTHER -> {4}

\* The machine that process 0 of machine m connects to, if it is not its own.
Target(m, stage) == IF stage = 3 THEN ip_2(m) ELSE ip_3(m)

Role(q, stage) ==
    LET m == machine(q) IN
    IF stage > setup.LAYERS THEN "none"
    ELSE IF stage <= 2 \/ (stage = 3 /\ setup.Local)
    THEN IF id(q) \in Receivers(stage) THEN "receiver"
         ELSE IF id(q) \in Senders(stage) THEN "sender" ELSE "none"
    ELSE IF setup.Local \/ id(q) # 0 THEN "none"
    ELSE IF m = Target(m, stage) THEN "acceptor" ELSE "connector"

StagesAfter(q, stage) == {s \in (stage + 1)..4 : Role(q, s) # "none"}

\* pc of q when it leaves a stage: stages without a role are passed through.
Left(q, stage) ==
    IF StagesAfter(q, stage) = {} THEN [stage |-> 5, at |-> "end"]
    ELSE [stage |-> Min(StagesAfter(q, stage)), at |-> "begin"]

At(q, x) == pc[q].at = x
Leave(q) == pc' = [pc EXCEPT ![q] = Left(q, pc[q].stage)]
Goto(q, x) == pc' = [pc EXCEPT ![q].at = x]
ForPeers(f, o, Value(_)) ==
    [f EXCEPT ![<<"A", o>>] = Value(<<"A", o>>), ![<<"B", o>>] = Value(<<"B", o>>)]
NotListening == [listens |-> FALSE, from |-> {}]

-----------------------------------------------------------------------------
Init ==
    /\ setup \in Setups
    /\ pc       = [q \in Process |-> Left(q, 0)]
    /\ result   = [q \in Process |-> SetToBag({q[2]})]
    /\ got      = [q \in Process |-> EmptyBag]
    /\ shm      = [x \in Party \X setup.machines \X Names |-> EmptyBag]
    /\ stream   = [q \in Process |-> [stage \in 3..4 |-> [connected |-> FALSE, data |-> EmptyBag]]]
    /\ acceptor = [q \in Process |-> NotListening]

\* io->sync() of the peers o, at the begin of a stage.
SyncBegin(o) ==
    /\ \A q \in Peers(o) : At(q, "begin")
    /\ pc' = ForPeers(pc, o, LAMBDA q : [pc[q] EXCEPT !.at = Role(q, pc[q].stage)])
    /\ UNCHANGED <<setup, result, got, shm, stream, acceptor>>

SendsItsOwn(q) ==            \* mutant: what it has received before is not in it
    /\ At(q, "sender")
    /\ shm' = [shm EXCEPT ![Pipe(q)] = SetToBag({q[2]})]
    /\ Leave(q)
    /\ UNCHANGED <<setup, result, got, stream, acceptor>>

\* sender() of shared_memory.hpp, which waits for nobody.
Send(q) ==
    /\ At(q, "sender")
    /\ shm' = [shm EXCEPT ![Pipe(q)] = result[q]]
    /\ Leave(q)
    /\ UNCHANGED <<setup, result, got, stream, acceptor>>

\* receiver() of shared_memory.hpp waits for what is sent under its names, and
\* removes them.
Receive(q) ==
    /\ At(q, "receiver") /\ shm[Pipe(q)] # EmptyBag
    /\ got' = [got EXCEPT ![q] = shm[Pipe(q)]]
    /\ shm' = [shm EXCEPT ![Pipe(q)] = EmptyBag]
    /\ Goto(q, "merge")
    /\ UNCHANGED <<setup, result, stream, acceptor>>

Listen(q) ==
    /\ At(q, "acceptor") /\ ~acceptor[q].listens
    /\ acceptor' = [acceptor EXCEPT ![q].listens = TRUE]
    /\ UNCHANGED <<setup, pc, result, got, shm, stream>>

\* Whether somebody listens where q connects to: its port says the stage.
Listens(q) ==
    LET stage == pc[q].stage
        r == <<q[1], <<Target(machine(q), stage), 0>>>>
    IN  r \in Process /\ acceptor[r].listens /\ pc[r].stage = stage

ConnectOnce(q) ==            \* mutant: no second try if nobody listens yet
    /\ At(q, "connector")
    /\ stream' = [stream EXCEPT ![q][pc[q].stage].connected = Listens(q)]
    /\ Goto(q, "connected")
    /\ UNCHANGED <<setup, result, got, shm, acceptor>>

\* connect(), again and again until somebody listens.
Connect(q) ==
    /\ At(q, "connector") /\ Listens(q)
    /\ stream' = [stream EXCEPT ![q][pc[q].stage].connected = TRUE]
    /\ Goto(q, "connected")
    /\ UNCHANGED <<setup, result, got, shm, acceptor>>

\* accept(): one of the connections; others stay in the backlog.
Accept(q) ==
    /\ acceptor[q].listens /\ acceptor[q].from = {}
    /\ \E m \in setup.machines :
          LET r == <<q[1], <<m, 0>>>> IN
          /\ Target(m, pc[q].stage) = machine(q) /\ stream[r][pc[q].stage].connected
          /\ acceptor' = [acceptor EXCEPT ![q].from = {r}]
    /\ UNCHANGED <<setup, pc, result, got, shm, stream>>

\* send_list_reverse(): the socket is closed behind it, and what has been
\* written stays readable.  An error is printed, and the process goes on.
SendBlocks(q) ==
    /\ At(q, "connected")
    /\ stream' = [stream EXCEPT ![q][pc[q].stage].data =
                    IF stream[q][pc[q].stage].connected THEN result[q] ELSE EmptyBag]
    /\ Leave(q)
    /\ UNCHANGED <<setup, result, got, shm, acceptor>>

\* receive_list(): all blocks of the accepted connection.
ReceiveBlocks(q) ==
    /\ At(q, "acceptor")
    /\ \E r \in acceptor[q].from :
          /\ stream[r][pc[q].stage].data # EmptyBag
          /\ got' = [got EXCEPT ![q] = stream[r][pc[q].stage].data]
    /\ Goto(q, "merge")
    /\ UNCHANGED <<setup, result, shm, stream, acceptor>>

\* io->sync() of the peers after a receive, and the merge.  The block of an
\* acceptor ends there, and its sockets with it.
Merge(o) ==
    /\ \A q \in Peers(o) : At(q, "merge")
    /\ result'   = ForPeers(result, o, LAMBDA q : result[q] (+) got[q])
    /\ acceptor' = ForPeers(acceptor, o, LAMBDA q : NotListening)
    /\ pc'       = ForPeers(pc, o, LAMBDA q : Left(q, pc[q].stage))
    /\ UNCHANGED <<setup, got, shm, stream>>

Step(q) == Send(q) \/ Receive(q) \/ Listen(q) \/ Connect(q) \/ Accept(q)
           \/ SendBlocks(q) \/ ReceiveBlocks(q)

Next == (\E q \in Process : Step(q)) \/ (\E o \in Origin : SyncBegin(o) \/ Merge(o))

Spec == Init /\ [][Next]_vars /\ WF_vars(Next)

-----------------------------------------------------------------------------
(* Properties.                                                               *)

Ended == \A q \in Process : At(q, "end")

\* The setups that are one tree: on one machine the stages that its processes
\* need, or two machines with four processes each, which both name the same one
\* of them for the third stage.
Complete(s) == \/ s.n_processes = 2 /\ s.LAYERS = 1
               \/ s.n_processes = 4 /\ s.LAYERS = 2
               \/ s.n_processes = 8 /\ s.LAYERS >= 3 /\ s.Local
Next3(s) == IF s.program = "q1" THEN s.reducer_ip_3 ELSE s.reducer_ip_2
OneTree(s) ==
    \/ (\E m \in s.machines : s.machines = {m}) /\ Complete(s)
    \/ /\ s.LAYERS = 3 /\ ~s.Local /\ s.n_processes = 4
       /\ \E m, c \in s.machines :
             m # c /\ s.machines = {m, c} /\ Next3(s) = [l \in {m, c} |-> m]

\* No process's result is counted twice anywhere on its way, and when all
\* processes have ended, process 0 of the machine that all others send to holds
\* each of them once, at both parties: what node_query_run.sh takes for the
\* result of the query.  Stages that pair the wrong processes, or read a result
\* before its owner has merged into it, break it.
MergedOnce ==
    /\ \A q \in Process : \A o \in DOMAIN result[q] : result[q][o] = 1
    /\ Ended => \A p \in Party : \E m \in setup.machines :
                    result[<<p, <<m, 0>>>>] = SetToBag(Origin)

\* Every process gets through its stages: no name that only one side opens, no
\* pair of peers of which one waits in a sync for the other, no connection that
\* is not made because the other machine is later.
TreeEnds == <>Ended
=============================================================================
