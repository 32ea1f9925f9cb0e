--------------------------- MODULE ReduceTreeProofs ---------------------------
(* What TLAPS proves of ReduceTree, for every number of machines with any    *)
(* addresses.                                                                *)
EXTENDS ReduceTree, TLAPS

\* The stages that go through shared memory, from process to process.
InMachine(s) == s <= setup.LAYERS /\ (s <= 2 \/ (s = 3 /\ setup.Local))

\* The ids of a machine whose results are sent under a name.
Sent(name) ==
    CASE name \in {0, 2, 4, 6} -> {name + 1}
      [] name = 50 -> {2, 3}
      [] name = 54 -> {6, 7}
      [] name = 60 -> {4, 5, 6, 7}
      [] OTHER -> {}

\* The ids whose results process k of a machine has when it comes to a stage.
Held(k, stage) ==
    {k} \cup UNION {Sent(Name(k, s)) : s \in {r \in 1..(stage - 1) : InMachine(r) /\ k \in Receivers(r)}}

Accepts(q) == Role(q, 3) = "acceptor"

\* The machines that connect to the machine of q.
Others(q) == {m \in setup.machines \ {machine(q)} : Target(m, 3) = machine(q)}

Places == {"begin", "sender", "receiver", "acceptor", "connector", "connected", "merge", "end"}

TypeInv ==
    /\ setup \in Setups
    /\ pc \in [Process -> [stage : 1..5, at : Places]]
    /\ DOMAIN result = Process /\ DOMAIN got = Process
    /\ DOMAIN shm = Party \X setup.machines \X Names
    /\ DOMAIN stream = Process
    /\ \A q \in Process : /\ DOMAIN stream[q] = 3..4
                         /\ \A s \in 3..4 : DOMAIN stream[q][s] = {"connected", "data"}
    /\ acceptor \in [Process -> [listens : BOOLEAN, from : SUBSET Process]]

\* A process is in a stage as what it is there.
Placed(q, place) ==
    LET role == Role(q, place.stage) IN
    /\ place.at = "end" <=> place.stage = 5
    /\ place.at = "begin" => role # "none"
    /\ place.at \in {"sender", "receiver", "acceptor", "connector"} => role = place.at
    /\ place.at = "connected" => role = "connector"
    /\ place.at = "merge" => role \in {"receiver", "acceptor"}

PlaceInv == \A q \in Process : Placed(q, pc[q])

\* Whose results a process has is said by the stage that it is in.
ResultInv ==
    \A q \in Process :
        IF Accepts(q) /\ pc[q].stage = 5
        THEN \E m \in Others(q) : result[q] = SetToBag({m, machine(q)} \X Held(0, 5))
        ELSE result[q] = SetToBag({machine(q)} \X Held(id(q), pc[q].stage))

ShmInv ==
    \A p \in Party, m \in setup.machines, name \in Names :
        shm[<<p, m, name>>] \in {EmptyBag, SetToBag({m} \X Sent(name))}

GotRight(q, bag, stage) ==
    IF Role(q, stage) = "receiver"
    THEN bag = SetToBag({machine(q)} \X Sent(Name(id(q), stage)))
    ELSE \E m \in Others(q) : bag = SetToBag({m} \X Held(0, 5))

GotInv == \A q \in Process : At(q, "merge") => GotRight(q, got[q], pc[q].stage)

\* Only who connects at stage 3 sends through TCP, and it sends what it has.
StreamRight(q, s, connection) ==
    /\ connection.connected \/ connection.data # EmptyBag => s = 3 /\ Role(q, 3) = "connector"
    /\ connection.data \in {EmptyBag, SetToBag({machine(q)} \X Held(0, 5))}

StreamInv == \A q \in Process, s \in 3..4 : StreamRight(q, s, stream[q][s])

AtAccept(q, place) == Accepts(q) /\ place.stage = 3 /\ place.at \in {"acceptor", "merge"}

AcceptInv ==
    \A q \in Process :
        /\ acceptor[q].listens => AtAccept(q, pc[q])
        /\ acceptor[q].from \subseteq {<<q[1], <<m, 0>>>> : m \in Others(q)}

IInv == TypeInv /\ PlaceInv /\ ResultInv /\ ShmInv /\ GotInv /\ StreamInv /\ AcceptInv

\* No stage from machine to machine but the third: with a fourth one, machines
\* can merge what they have merged before (README.md).
OneTcpStage == \A s \in Setups : s.LAYERS <= 3 \/ s.Local

-----------------------------------------------------------------------------
(* Bags.                                                                     *)

LEMMA BagOfSet ==
  ASSUME NEW S
  PROVE  /\ \A o \in DOMAIN SetToBag(S) : SetToBag(S)[o] = 1
         /\ SetToBag(S) = EmptyBag => S = {}
         /\ SetToBag({}) = EmptyBag
  <1>1. DOMAIN SetToBag(S) = S
    BY DEF SetToBag
  <1>2. DOMAIN EmptyBag = {}
    BY DEF EmptyBag, SetToBag
  <1>3. QED
    BY <1>1, <1>2 DEF SetToBag, EmptyBag

LEMMA BagOfUnion ==
  ASSUME NEW S, NEW T, S \cap T = {}
  PROVE  SetToBag(S) (+) SetToBag(T) = SetToBag(S \cup T)
  <1>1. DOMAIN SetToBag(S) = S /\ DOMAIN SetToBag(T) = T
    BY DEF SetToBag
  <1>2. \A e \in S \cup T :
            (IF e \in S THEN SetToBag(S)[e] ELSE 0) + (IF e \in T THEN SetToBag(T)[e] ELSE 0) = 1
    <2> SUFFICES ASSUME NEW e \in S \cup T
                 PROVE  (IF e \in S THEN SetToBag(S)[e] ELSE 0)
                            + (IF e \in T THEN SetToBag(T)[e] ELSE 0) = 1
      OBVIOUS
    <2>1. CASE e \in S /\ e \notin T
      BY <2>1 DEF SetToBag
    <2>2. CASE e \in T /\ e \notin S
      BY <2>2 DEF SetToBag
    <2>3. QED
      BY <2>1, <2>2
  <1>3. QED
    BY <1>1, <1>2 DEF SetToBag, (+)

-----------------------------------------------------------------------------
(* The stages.                                                               *)

LEMMA SetupFacts ==
  ASSUME setup \in Setups
  PROVE  /\ setup.n_processes \in {2, 4, 8} /\ setup.LAYERS \in 1..4 /\ setup.Local \in BOOLEAN
         /\ \A q \in Process : id(q) \in 0..7 /\ machine(q) \in setup.machines
                               /\ q = <<q[1], <<machine(q), id(q)>>>> /\ q[1] \in Party
         /\ \A o \in Origin, p \in Party : <<p, o>> \in Process
         /\ \A m \in setup.machines, p \in Party : <<p, <<m, 0>>>> \in Process
  BY SetupAssumption DEF Process, Origin, id, machine

\* The roles of a stage.
LEMMA Roles ==
  ASSUME setup \in Setups, NEW q \in Process, NEW s \in 1..5
  PROVE  /\ Role(q, s) = "receiver" <=> InMachine(s) /\ id(q) \in Receivers(s)
         /\ Role(q, s) = "sender" => InMachine(s) /\ id(q) \in Senders(s)
         /\ Role(q, s) \in {"acceptor", "connector"} =>
               /\ s \in 3..4 /\ ~setup.Local /\ id(q) = 0 /\ s <= setup.LAYERS
               /\ Role(q, s) = "acceptor" <=> machine(q) = Target(machine(q), s)
         /\ s = 5 => Role(q, s) = "none"
         /\ Role(q, s) \in {"none", "receiver", "sender", "acceptor", "connector"}
  BY SetupFacts DEF Role, InMachine

LEMMA NextStage ==
  ASSUME setup \in Setups, NEW q \in Process, NEW s \in 0..4
  PROVE  LET after == Left(q, s) IN
         /\ after \in [stage : 1..5, at : {"begin", "end"}]
         /\ after.stage > s
         /\ after.at = "end" <=> after.stage = 5
         /\ after.stage < 5 => Role(q, after.stage) # "none"
         /\ \A r \in (s + 1)..(after.stage - 1) : Role(q, r) = "none"
  <1>1. CASE StagesAfter(q, s) = {}
    BY <1>1 DEF Left, StagesAfter
  <1>2. CASE StagesAfter(q, s) # {}
    <2> DEFINE S == StagesAfter(q, s)
    <2>1. S \subseteq (s + 1)..4
      BY DEF StagesAfter
    <2>2. \E x \in S : \A y \in S : x <= y
      BY <1>2, <2>1
    <2>3. Min(S) \in S /\ \A y \in S : Min(S) <= y
      BY <2>2 DEF Min
    <2>4. Left(q, s) = [stage |-> Min(S), at |-> "begin"]
      BY <1>2 DEF Left
    <2>5. \A r \in (s + 1)..(Min(S) - 1) : Role(q, r) = "none"
      BY <2>1, <2>3 DEF StagesAfter
    <2>6. Role(q, Min(S)) # "none"
      BY <2>3 DEF StagesAfter
    <2> HIDE DEF S
    <2>7. Min(S) \in (s + 1)..4
      BY <2>1, <2>3
    <2>8. QED
      BY <2>4, <2>5, <2>6, <2>7
  <1>3. QED
    BY <1>1, <1>2

\* What a process has changes in the stages that it receives in only.
LEMMA HeldKept ==
  ASSUME setup \in Setups, NEW q \in Process, NEW k \in 1..5, NEW l \in 1..5, k <= l,
         \A r \in k..(l - 1) : Role(q, r) # "receiver"
  PROVE  Held(id(q), l) = Held(id(q), k)
  <1>1. \A r \in k..(l - 1) : ~(InMachine(r) /\ id(q) \in Receivers(r))
    BY Roles
  <1>2. {r \in 1..(l - 1) : InMachine(r) /\ id(q) \in Receivers(r)}
            = {r \in 1..(k - 1) : InMachine(r) /\ id(q) \in Receivers(r)}
    BY <1>1
  <1>3. QED
    BY <1>2 DEF Held

LEMMA HeldAdded ==
  ASSUME setup \in Setups, NEW k \in 0..7, NEW s \in 1..4, InMachine(s), k \in Receivers(s)
  PROVE  Held(k, s + 1) = Held(k, s) \cup Sent(Name(k, s))
  <1>1. {r \in 1..(s + 1 - 1) : InMachine(r) /\ k \in Receivers(r)}
            = {r \in 1..(s - 1) : InMachine(r) /\ k \in Receivers(r)} \cup {s}
    OBVIOUS
  <1>2. QED
    BY <1>1 DEF Held

\* What is held at the stages, computed.
LEMMA HeldByStage ==
  ASSUME setup \in Setups, NEW k \in 0..7
  PROVE  /\ Held(k, 1) = {k}
         /\ Held(k, 2) = {k} \cup (IF k \in {0, 2, 4, 6} THEN {k + 1} ELSE {})
         /\ Held(k, 3) = Held(k, 2) \cup (IF setup.LAYERS >= 2 /\ k \in {0, 4} THEN {k + 2, k + 3} ELSE {})
         /\ Held(k, 4) = Held(k, 3) \cup
                (IF setup.LAYERS >= 3 /\ setup.Local /\ k = 0 THEN {4, 5, 6, 7} ELSE {})
         /\ Held(k, 5) = Held(k, 4)
  <1>1. setup.LAYERS \in 1..4 /\ setup.Local \in BOOLEAN
    BY SetupFacts
  <1> DEFINE In(s) == {r \in 1..(s - 1) : InMachine(r) /\ k \in Receivers(r)}
  <1>2. In(1) = {}
    OBVIOUS
  <1>3. In(2) = (IF k \in {0, 2, 4, 6} THEN {1} ELSE {})
    BY <1>1 DEF InMachine, Receivers
  <1>4. In(3) = In(2) \cup (IF setup.LAYERS >= 2 /\ k \in {0, 4} THEN {2} ELSE {})
    BY <1>1 DEF InMachine, Receivers
  <1>5. In(4) = In(3) \cup (IF setup.LAYERS >= 3 /\ setup.Local /\ k = 0 THEN {3} ELSE {})
    BY <1>1 DEF InMachine, Receivers
  <1>6. In(5) = In(4)
    BY <1>1 DEF InMachine
  <1>7. \A s : Held(k, s) = {k} \cup UNION {Sent(Name(k, r)) : r \in In(s)}
    BY DEF Held
  <1>8. k \in {0, 2, 4, 6} => Sent(Name(k, 1)) = {k + 1}
    <2>1. k \in {0, 2, 4, 6} => Name(k, 1) = k
      BY DEF Name
    <2>2. QED
      BY <2>1 DEF Sent
  <1>9. k \in {0, 4} => Sent(Name(k, 2)) = {k + 2, k + 3}
    <2>1. Name(0, 2) = 50 /\ Name(4, 2) = 54
      BY DEF Name
    <2>2. QED
      BY <2>1 DEF Sent
  <1>10. k = 0 => Sent(Name(k, 3)) = {4, 5, 6, 7}
    <2>1. Name(0, 3) = 60
      BY DEF Name
    <2>2. QED
      BY <2>1 DEF Sent
  <1> HIDE DEF In
  <1>11. Held(k, 1) = {k}
    BY <1>2, <1>7
  <1>12. Held(k, 2) = {k} \cup (IF k \in {0, 2, 4, 6} THEN {k + 1} ELSE {})
    BY <1>3, <1>7, <1>8
  <1>13. Held(k, 3) = Held(k, 2) \cup (IF setup.LAYERS >= 2 /\ k \in {0, 4} THEN {k + 2, k + 3} ELSE {})
    BY <1>4, <1>7, <1>9
  <1>14. Held(k, 4) = Held(k, 3) \cup
                (IF setup.LAYERS >= 3 /\ setup.Local /\ k = 0 THEN {4, 5, 6, 7} ELSE {})
    BY <1>5, <1>7, <1>10
  <1>15. Held(k, 5) = Held(k, 4)
    BY <1>6, <1>7
  <1>16. QED
    BY <1>11, <1>12, <1>13, <1>14, <1>15

LEMMA Received ==
  ASSUME setup \in Setups, NEW k \in 0..7, NEW s \in 1..4, InMachine(s), k \in Receivers(s)
  PROVE  /\ Held(k, s + 1) = Held(k, s) \cup Sent(Name(k, s))
         /\ Held(k, s) \cap Sent(Name(k, s)) = {}
  <1>1. setup.LAYERS \in 1..4 /\ setup.Local \in BOOLEAN
    BY SetupFacts
  <1>2. s \in {1, 2, 3}
    BY <1>1 DEF InMachine
  <1>3. CASE s = 1
    <2>1. k \in {0, 2, 4, 6}
      BY <1>3 DEF Receivers
    <2>2. Name(k, s) = k
      BY <1>3, <2>1 DEF Name
    <2>3. Sent(k) = {k + 1}
      BY <2>1 DEF Sent
    <2>4. QED
      BY <1>3, <2>1, <2>2, <2>3, HeldByStage
  <1>4. CASE s = 2
    <2>1. k \in {0, 4} /\ setup.LAYERS >= 2
      BY <1>4, <1>1 DEF Receivers, InMachine
    <2>2. Name(0, 2) = 50 /\ Name(4, 2) = 54
      BY DEF Name
    <2>3. Sent(50) = {2, 3} /\ Sent(54) = {6, 7}
      BY DEF Sent
    <2>4. QED
      BY <1>4, <2>1, <2>2, <2>3, HeldByStage
  <1>5. CASE s = 3
    <2>1. k = 0 /\ setup.LAYERS >= 3 /\ setup.Local
      BY <1>5, <1>1 DEF Receivers, InMachine
    <2>2. Name(0, 3) = 60
      BY DEF Name
    <2>3. Sent(60) = {4, 5, 6, 7}
      BY DEF Sent
    <2>4. QED
      BY <1>5, <2>1, <2>2, <2>3, HeldByStage
  <1>6. QED
    BY <1>2, <1>3, <1>4, <1>5

LEMMA Given ==
  ASSUME setup \in Setups, NEW k \in 0..7, NEW s \in 1..4, InMachine(s), k \in Senders(s)
  PROVE  Held(k, s) = Sent(Name(k, s))
  <1>1. setup.LAYERS \in 1..4 /\ setup.Local \in BOOLEAN
    BY SetupFacts
  <1>2. s \in {1, 2, 3}
    BY <1>1 DEF InMachine
  <1>3. CASE s = 1
    <2>1. k \in {1, 3, 5, 7}
      BY <1>3 DEF Senders
    <2>2. Name(k, s) = k - 1
      BY <1>3, <2>1 DEF Name
    <2>3. Sent(k - 1) = {k}
      BY <2>1 DEF Sent
    <2>4. QED
      BY <1>3, <2>1, <2>2, <2>3, HeldByStage
  <1>4. CASE s = 2
    <2>1. k \in {2, 6}
      BY <1>4 DEF Senders
    <2>2. Name(2, 2) = 50 /\ Name(6, 2) = 54
      BY DEF Name
    <2>3. Sent(50) = {2, 3} /\ Sent(54) = {6, 7}
      BY DEF Sent
    <2>4. QED
      BY <1>4, <2>1, <2>2, <2>3, HeldByStage
  <1>5. CASE s = 3
    <2>1. k = 4 /\ setup.LAYERS >= 3
      BY <1>5, <1>1 DEF Senders, InMachine
    <2>2. Name(4, 3) = 60
      BY DEF Name
    <2>3. Sent(60) = {4, 5, 6, 7}
      BY DEF Sent
    <2>4. Held(4, 2) = {4, 5} /\ Held(4, 3) = Held(4, 2) \cup {6, 7}
      BY <1>1, <2>1, HeldByStage
    <2>5. QED
      BY <1>5, <2>1, <2>2, <2>3, <2>4
  <1>6. QED
    BY <1>2, <1>3, <1>4, <1>5

-----------------------------------------------------------------------------
(* Steps.                                                                    *)

LEMMA SameSetup ==
  ASSUME setup' = setup
  PROVE  /\ Process' = Process /\ Origin' = Origin
         /\ \A q, s : Role(q, s)' = Role(q, s) /\ Left(q, s)' = Left(q, s)
         /\ \A k, s : Held(k, s)' = Held(k, s)
         /\ \A q : Others(q)' = Others(q) /\ Accepts(q)' = Accepts(q)
         /\ \A q, place : Placed(q, place)' = Placed(q, place)
         /\ \A q, bag, s : GotRight(q, bag, s)' = GotRight(q, bag, s)
         /\ \A q, s, connection : StreamRight(q, s, connection)' = StreamRight(q, s, connection)
  <1>1. Process' = Process /\ Origin' = Origin
    BY DEF Process, Origin
  <1>2. \A m, s : Target(m, s)' = Target(m, s)
    BY DEF Target, ip_2, ip_3
  <1>3. \A q, s : Role(q, s)' = Role(q, s)
    BY <1>2 DEF Role
  <1>4. \A q, s : StagesAfter(q, s)' = StagesAfter(q, s)
    BY <1>3 DEF StagesAfter
  <1>5. \A q, s : Left(q, s)' = Left(q, s)
    BY <1>4 DEF Left
  <1>6. \A k, s : Held(k, s)' = Held(k, s)
    BY DEF Held, InMachine
  <1>7. \A q : Others(q)' = Others(q)
    BY <1>2 DEF Others
  <1>8. \A q : Accepts(q)' = Accepts(q)
    BY <1>3 DEF Accepts
  <1>9. \A q, place : Placed(q, place)' = Placed(q, place)
    BY <1>3 DEF Placed
  <1>10. \A q, bag, s : GotRight(q, bag, s)' = GotRight(q, bag, s)
    BY <1>3, <1>6, <1>7 DEF GotRight, machine, id
  <1>11. \A q, s, connection : StreamRight(q, s, connection)' = StreamRight(q, s, connection)
    BY <1>3, <1>6 DEF StreamRight, machine
  <1>12. QED
    BY <1>1, <1>3, <1>5, <1>6, <1>7, <1>8, <1>9, <1>10, <1>11

\* Leaving a stage.
LEMMA LeftPlace ==
  ASSUME setup \in Setups, NEW q \in Process, NEW s \in 0..4
  PROVE  Placed(q, Left(q, s)) /\ Left(q, s) \in [stage : 1..5, at : Places]
  <1> DEFINE after == Left(q, s)
  <1>1. /\ after \in [stage : 1..5, at : {"begin", "end"}]
        /\ after.at = "end" <=> after.stage = 5
        /\ after.stage < 5 => Role(q, after.stage) # "none"
    BY NextStage
  <1> HIDE DEF after
  <1>2. Placed(q, after) /\ after \in [stage : 1..5, at : Places]
    BY <1>1 DEF Placed, Places
  <1>3. QED
    BY <1>2 DEF after

\* The results are those of the new stages when who sends leaves a stage.
LEMMA ResultStays ==
  ASSUME OneTcpStage, TypeInv, PlaceInv, ResultInv, setup' = setup, result' = result,
         \A r \in Process :
            \/ pc'[r].stage = pc[r].stage
            \/ /\ pc'[r] = Left(r, pc[r].stage) /\ pc[r].stage \in 1..4
               /\ Role(r, pc[r].stage) \in {"sender", "connector"}
  PROVE  ResultInv'
  <1> SUFFICES ASSUME NEW r \in Process
               PROVE  IF Accepts(r) /\ pc'[r].stage = 5
                      THEN \E m \in Others(r) : result[r] = SetToBag({m, machine(r)} \X Held(0, 5))
                      ELSE result[r] = SetToBag({machine(r)} \X Held(id(r), pc'[r].stage))
    BY SameSetup DEF ResultInv, machine, id
  <1>1. CASE pc'[r].stage = pc[r].stage
    BY <1>1 DEF ResultInv
  <1>2. CASE /\ pc'[r] = Left(r, pc[r].stage) /\ pc[r].stage \in 1..4
             /\ Role(r, pc[r].stage) \in {"sender", "connector"}
    <2>1. ~Accepts(r)
      <3>1. setup \in Setups /\ setup.LAYERS \in 1..4
        BY SetupFacts DEF TypeInv
      <3>2. setup.LAYERS <= 3 \/ setup.Local
        BY <3>1 DEF OneTcpStage
      <3>3. CASE Role(r, pc[r].stage) = "sender"
        <4>1. id(r) # 0
          BY <1>2, <3>1, <3>3, Roles DEF Senders, InMachine
        <4>2. QED
          BY <3>1, <4>1, Roles DEF Accepts
      <3>4. CASE Role(r, pc[r].stage) = "connector"
        <4>1. pc[r].stage = 3
          BY <1>2, <3>1, <3>2, <3>4, Roles
        <4>2. QED
          BY <3>4, <4>1 DEF Accepts
      <3>5. QED
        BY <1>2, <3>3, <3>4
    <2>2. result[r] = SetToBag({machine(r)} \X Held(id(r), pc[r].stage))
      BY <2>1 DEF ResultInv
    <2> DEFINE s == pc[r].stage
               l == pc'[r].stage
    <2>3. s \in 1..4 /\ l \in 1..5 /\ s <= l /\ \A k \in s..(l - 1) : Role(r, k) # "receiver"
      BY <1>2, NextStage DEF TypeInv
    <2>4. Held(id(r), l) = Held(id(r), s)
      <3> HIDE DEF s, l
      <3>1. QED
        BY <2>3, HeldKept DEF TypeInv
    <2>5. QED
      BY <2>1, <2>2, <2>4
  <1>3. QED
    BY <1>1, <1>2

\* What a step of one process leaves alone.
LEMMA OneMoves ==
  ASSUME TypeInv, PlaceInv, NEW q \in Process, NEW place \in [stage : 1..5, at : Places],
         setup' = setup, pc' = [pc EXCEPT ![q] = place], Placed(q, place)
  PROVE  /\ setup' \in Setups /\ pc' \in [Process -> [stage : 1..5, at : Places]]
         /\ PlaceInv'
         /\ pc'[q] = place /\ \A r \in Process \ {q} : pc'[r] = pc[r]
  <1>1. /\ setup' \in Setups /\ pc' \in [Process -> [stage : 1..5, at : Places]]
        /\ pc'[q] = place /\ \A r \in Process \ {q} : pc'[r] = pc[r]
    BY DEF TypeInv
  <1>2. \A r \in Process : Placed(r, pc'[r])
    BY <1>1 DEF PlaceInv
  <1>3. QED
    BY <1>1, <1>2, SameSetup DEF PlaceInv

LEMMA SamePlace ==
  ASSUME TypeInv, NEW q \in Process, NEW x
  PROVE  [pc EXCEPT ![q].at = x] = [pc EXCEPT ![q] = [stage |-> pc[q].stage, at |-> x]]
  <1>1. pc[q] \in [stage : 1..5, at : Places]
    BY DEF TypeInv
  <1>2. [pc[q] EXCEPT !.at = x] = [stage |-> pc[q].stage, at |-> x]
    BY <1>1
  <1>3. [pc EXCEPT ![q].at = x] = [pc EXCEPT ![q] = [pc[q] EXCEPT !.at = x]]
    OBVIOUS
  <1>4. QED
    BY <1>2, <1>3

LEMMA OthersStay ==
  ASSUME setup' = setup, got' = got, GotInv,
         \A r \in Process : pc'[r].at = "merge" => pc'[r] = pc[r]
  PROVE  GotInv'
  BY SameSetup DEF GotInv, At

LEMMA AcceptStays ==
  ASSUME setup' = setup, acceptor' = acceptor, AcceptInv,
         \A r \in Process : acceptor[r].listens => AtAccept(r, pc'[r])
  PROVE  AcceptInv'
  BY SameSetup DEF AcceptInv, AtAccept

LEMMA StoresStay ==
  ASSUME setup' = setup
  PROVE  /\ ShmInv /\ shm' = shm => ShmInv'
         /\ StreamInv /\ stream' = stream => StreamInv'
  BY SameSetup DEF ShmInv, StreamInv

LEMMA StreamsRight ==
  ASSUME setup' = setup, \A r \in Process, s \in 3..4 : StreamRight(r, s, stream'[r][s])
  PROVE  StreamInv'
  BY SameSetup DEF StreamInv

\* The one stage with connections is the third.
LEMMA TcpStage ==
  ASSUME OneTcpStage, TypeInv, NEW q \in Process, NEW s \in 1..5,
         Role(q, s) \in {"acceptor", "connector"}
  PROVE  /\ s = 3 /\ id(q) = 0 /\ q = <<q[1], <<machine(q), 0>>>>
         /\ Held(0, 3) = Held(0, 5)
         /\ Role(q, 4) = "none"
  <1>1. setup \in Setups /\ setup.LAYERS \in 1..4 /\ (setup.LAYERS <= 3 \/ setup.Local)
    BY SetupFacts DEF TypeInv, OneTcpStage
  <1>2. s = 3 /\ id(q) = 0 /\ setup.LAYERS <= 3 /\ ~setup.Local
    BY <1>1, Roles
  <1>3. q = <<q[1], <<machine(q), 0>>>>
    BY <1>1, <1>2, SetupFacts
  <1>4. Held(0, 3) = Held(0, 5)
    BY <1>1, <1>2, HeldByStage
  <1>5. Role(q, 4) = "none"
    BY <1>1, <1>2 DEF Role
  <1>6. QED
    BY <1>2, <1>3, <1>4, <1>5

LEMMA PipeFacts ==
  ASSUME TypeInv, NEW q \in Process, InMachine(pc[q].stage)
  PROVE  /\ pc[q].stage \in 1..3
         /\ Pipe(q) \in Party \X setup.machines \X Names
         /\ Name(id(q), pc[q].stage) \in Names
         /\ Pipe(q) = <<q[1], machine(q), Name(id(q), pc[q].stage)>>
  <1>1. setup \in Setups /\ id(q) \in 0..7 /\ machine(q) \in setup.machines /\ q[1] \in Party
    BY SetupFacts DEF TypeInv
  <1>2. pc[q].stage \in 1..3
    BY DEF TypeInv, InMachine
  <1>3. Name(id(q), pc[q].stage) \in Names
    BY <1>1, <1>2 DEF Names
  <1>4. QED
    BY <1>1, <1>2, <1>3 DEF Pipe

LEMMA SendStep ==
  ASSUME OneTcpStage, IInv, NEW q \in Process, Send(q)
  PROVE  IInv'
  <1> DEFINE s == pc[q].stage
             after == Left(q, s)
  <1>1. /\ At(q, "sender") /\ shm' = [shm EXCEPT ![Pipe(q)] = result[q]]
        /\ pc' = [pc EXCEPT ![q] = after]
        /\ setup' = setup /\ result' = result /\ got' = got /\ stream' = stream
        /\ acceptor' = acceptor
    BY DEF Send, Leave
  <1>2. setup \in Setups /\ TypeInv /\ PlaceInv /\ s \in 1..5
    BY DEF IInv, TypeInv
  <1>3. Role(q, s) = "sender"
    BY <1>1 DEF IInv, PlaceInv, Placed, At
  <1>4. InMachine(s) /\ id(q) \in Senders(s) /\ s \in 1..4 /\ id(q) \in 0..7
    BY <1>2, <1>3, Roles, SetupFacts
  <1>5. result[q] = SetToBag({machine(q)} \X Sent(Name(id(q), s)))
    <2>1. result[q] = SetToBag({machine(q)} \X Held(id(q), s))
      BY <1>4 DEF IInv, ResultInv
    <2>2. Held(id(q), s) = Sent(Name(id(q), s))
      BY <1>2, <1>4, Given
    <2>3. QED
      BY <2>1, <2>2
  <1>6. Placed(q, after) /\ after \in [stage : 1..5, at : Places] /\ after.at \in {"begin", "end"}
    BY <1>2, <1>4, LeftPlace, NextStage
  <1>7. /\ setup' \in Setups /\ pc' \in [Process -> [stage : 1..5, at : Places]]
        /\ PlaceInv'
        /\ pc'[q] = after /\ \A r \in Process \ {q} : pc'[r] = pc[r]
    BY <1>1, <1>2, <1>6, OneMoves
  <1>8. /\ Pipe(q) \in Party \X setup.machines \X Names
        /\ Pipe(q) = <<q[1], machine(q), Name(id(q), s)>>
    BY <1>2, <1>4, PipeFacts
  <1>9. TypeInv'
    BY <1>1, <1>7, SameSetup DEF IInv, TypeInv
  <1>10. ResultInv'
    <2>1. \A r \in Process :
            \/ pc'[r].stage = pc[r].stage
            \/ /\ pc'[r] = Left(r, pc[r].stage) /\ pc[r].stage \in 1..4
               /\ Role(r, pc[r].stage) \in {"sender", "connector"}
      BY <1>3, <1>4, <1>7
    <2>2. QED
      BY <1>1, <1>2, <2>1, ResultStays DEF IInv
  <1>11. ShmInv'
    <2> SUFFICES ASSUME NEW p \in Party, NEW m \in setup.machines, NEW name \in Names
                 PROVE  shm'[<<p, m, name>>] \in {EmptyBag, SetToBag({m} \X Sent(name))}
      BY <1>1 DEF ShmInv
    <2>1. CASE <<p, m, name>> = Pipe(q)
      <3>1. m = machine(q) /\ name = Name(id(q), s)
        BY <2>1, <1>8
      <3>2. shm'[<<p, m, name>>] = result[q]
        BY <2>1, <1>1, <1>2, <1>8 DEF TypeInv
      <3>3. QED
        BY <3>1, <3>2, <1>5
    <2>2. CASE <<p, m, name>> # Pipe(q)
      <3>1. shm'[<<p, m, name>>] = shm[<<p, m, name>>]
        BY <2>2, <1>1, <1>2 DEF TypeInv
      <3>2. QED
        BY <3>1 DEF IInv, ShmInv
    <2>3. QED
      BY <2>1, <2>2
  <1>12. GotInv'
    <2>1. \A r \in Process : pc'[r].at = "merge" => pc'[r] = pc[r]
      BY <1>6, <1>7
    <2>2. QED
      BY <1>1, <2>1, OthersStay DEF IInv
  <1>13. AcceptInv'
    <2>1. \A r \in Process : acceptor[r].listens => AtAccept(r, pc'[r])
      BY <1>1, <1>7 DEF IInv, AcceptInv, AtAccept, At
    <2>2. QED
      BY <1>1, <2>1, AcceptStays DEF IInv
  <1>14. QED
    BY <1>1, <1>7, <1>9, <1>10, <1>11, <1>12, <1>13, StoresStay DEF IInv

LEMMA ReceiveStep ==
  ASSUME OneTcpStage, IInv, NEW q \in Process, Receive(q)
  PROVE  IInv'
  <1> DEFINE s == pc[q].stage
             place == [stage |-> s, at |-> "merge"]
  <1>1. /\ At(q, "receiver") /\ shm[Pipe(q)] # EmptyBag
        /\ got' = [got EXCEPT ![q] = shm[Pipe(q)]]
        /\ shm' = [shm EXCEPT ![Pipe(q)] = EmptyBag]
        /\ pc' = [pc EXCEPT ![q].at = "merge"]
        /\ setup' = setup /\ result' = result /\ stream' = stream /\ acceptor' = acceptor
    BY DEF Receive, Goto
  <1>2. setup \in Setups /\ TypeInv /\ PlaceInv /\ s \in 1..5
    BY DEF IInv, TypeInv
  <1>3. Role(q, s) = "receiver" /\ s # 5
    BY <1>1, <1>2, Roles DEF IInv, PlaceInv, Placed, At
  <1>4. InMachine(s) /\ s \in 1..4
    BY <1>2, <1>3, Roles
  <1>5. /\ Pipe(q) \in Party \X setup.machines \X Names
        /\ q[1] \in Party /\ machine(q) \in setup.machines /\ Name(id(q), s) \in Names
        /\ Pipe(q) = <<q[1], machine(q), Name(id(q), s)>>
    BY <1>2, <1>4, PipeFacts, SetupFacts
  <1>6. pc' = [pc EXCEPT ![q] = place]
    BY <1>1, <1>2, SamePlace
  <1>7. Placed(q, place) /\ place \in [stage : 1..5, at : Places]
    BY <1>2, <1>3 DEF Placed, Places
  <1>8. /\ setup' \in Setups /\ pc' \in [Process -> [stage : 1..5, at : Places]]
        /\ PlaceInv'
        /\ pc'[q] = place /\ \A r \in Process \ {q} : pc'[r] = pc[r]
    <2> HIDE DEF place
    <2>1. QED
      BY <1>1, <1>2, <1>6, <1>7, OneMoves
  <1>9. TypeInv'
    BY <1>1, <1>8, SameSetup DEF IInv, TypeInv
  <1>10. ResultInv'
    <2>1. \A r \in Process : pc'[r].stage = pc[r].stage
      BY <1>8
    <2>2. QED
      BY <1>1, <1>2, <2>1, ResultStays DEF IInv
  <1>11. ShmInv'
    <2> SUFFICES ASSUME NEW p \in Party, NEW m \in setup.machines, NEW name \in Names
                 PROVE  shm'[<<p, m, name>>] \in {EmptyBag, SetToBag({m} \X Sent(name))}
      BY <1>1 DEF ShmInv
    <2>1. shm'[<<p, m, name>>] \in {EmptyBag, shm[<<p, m, name>>]}
      BY <1>1, <1>2 DEF TypeInv
    <2>2. QED
      BY <2>1 DEF IInv, ShmInv
  <1>12. GotInv'
    <2>1. got'[q] = SetToBag({machine(q)} \X Sent(Name(id(q), s)))
      BY <1>1, <1>2, <1>5 DEF IInv, ShmInv, TypeInv
    <2> SUFFICES ASSUME NEW r \in Process, pc'[r].at = "merge"
                 PROVE  GotRight(r, got'[r], pc'[r].stage)
      BY <1>1, SameSetup DEF GotInv, At
    <2>2. CASE r = q
      BY <2>1, <2>2, <1>3, <1>8 DEF GotRight
    <2>3. CASE r # q
      <3>1. pc'[r] = pc[r] /\ got'[r] = got[r]
        BY <2>3, <1>1, <1>2, <1>8 DEF TypeInv
      <3>2. QED
        BY <3>1 DEF IInv, GotInv, At
    <2>4. QED
      BY <2>2, <2>3
  <1>13. AcceptInv'
    <2>1. \A r \in Process : acceptor[r].listens => AtAccept(r, pc'[r])
      BY <1>1, <1>8 DEF IInv, AcceptInv, AtAccept, At
    <2>2. QED
      BY <1>1, <2>1, AcceptStays DEF IInv
  <1>14. QED
    BY <1>1, <1>8, <1>9, <1>10, <1>11, <1>12, <1>13, StoresStay DEF IInv

LEMMA ListenStep ==
  ASSUME OneTcpStage, IInv, NEW q \in Process, Listen(q)
  PROVE  IInv'
  <1>1. /\ At(q, "acceptor")
        /\ acceptor' = [acceptor EXCEPT ![q].listens = TRUE]
        /\ setup' = setup /\ pc' = pc /\ result' = result /\ got' = got /\ shm' = shm
        /\ stream' = stream
    BY DEF Listen
  <1>2. TypeInv /\ pc[q].stage \in 1..5
    BY DEF IInv, TypeInv
  <1>3. Role(q, pc[q].stage) = "acceptor"
    BY <1>1 DEF IInv, PlaceInv, Placed, At
  <1>4. AtAccept(q, pc[q])
    BY <1>1, <1>2, <1>3, TcpStage DEF AtAccept, Accepts, At
  <1>5. acceptor' \in [Process -> [listens : BOOLEAN, from : SUBSET Process]]
    <2>1. acceptor \in [Process -> [listens : BOOLEAN, from : SUBSET Process]]
      BY <1>2 DEF TypeInv
    <2> DEFINE x == [acceptor[q] EXCEPT !.listens = TRUE]
    <2>2. x \in [listens : BOOLEAN, from : SUBSET Process]
      BY <2>1
    <2>3. acceptor' = [acceptor EXCEPT ![q] = x]
      BY <1>1
    <2> HIDE DEF x
    <2>4. QED
      BY <2>1, <2>2, <2>3
  <1>6. TypeInv'
    BY <1>1, <1>2, <1>5, SameSetup DEF TypeInv
  <1>7. \A r \in Process : /\ acceptor'[r].listens => r = q \/ acceptor[r].listens
                           /\ acceptor'[r].from = acceptor[r].from
    BY <1>1, <1>2 DEF TypeInv
  <1>8. AcceptInv'
    BY <1>1, <1>4, <1>7, SameSetup DEF IInv, AcceptInv, AtAccept
  <1>9. PlaceInv' /\ GotInv'
    BY <1>1, SameSetup DEF IInv, PlaceInv, GotInv, At
  <1>10. ResultInv'
    BY <1>1, <1>2, ResultStays DEF IInv
  <1>11. QED
    BY <1>1, <1>6, <1>8, <1>9, <1>10, StoresStay DEF IInv

LEMMA ConnectStep ==
  ASSUME OneTcpStage, IInv, NEW q \in Process, Connect(q)
  PROVE  IInv'
  <1> DEFINE place == [stage |-> pc[q].stage, at |-> "connected"]
  <1>1. /\ At(q, "connector")
        /\ stream' = [stream EXCEPT ![q][pc[q].stage].connected = TRUE]
        /\ pc' = [pc EXCEPT ![q].at = "connected"]
        /\ setup' = setup /\ result' = result /\ got' = got /\ shm' = shm
        /\ acceptor' = acceptor
    BY DEF Connect, Goto
  <1>2. TypeInv /\ PlaceInv /\ setup \in Setups /\ pc[q].stage \in 1..5
    BY DEF IInv, TypeInv
  <1>3. Role(q, pc[q].stage) = "connector"
    BY <1>1 DEF IInv, PlaceInv, Placed, At
  <1>4. pc[q].stage = 3
    BY <1>2, <1>3, TcpStage
  <1>5. pc' = [pc EXCEPT ![q] = place]
    BY <1>1, <1>2, SamePlace
  <1>6. Placed(q, place) /\ place \in [stage : 1..5, at : Places]
    BY <1>2, <1>3, <1>4 DEF Placed, Places
  <1>7. /\ setup' \in Setups /\ pc' \in [Process -> [stage : 1..5, at : Places]]
        /\ PlaceInv'
        /\ pc'[q] = place /\ \A r \in Process \ {q} : pc'[r] = pc[r]
    <2> HIDE DEF place
    <2>1. QED
      BY <1>1, <1>2, <1>5, <1>6, OneMoves
  <1>8. /\ DOMAIN stream' = Process
        /\ \A r \in Process :
              /\ DOMAIN stream'[r] = 3..4
              /\ \A s \in 3..4 :
                    /\ DOMAIN stream'[r][s] = {"connected", "data"}
                    /\ stream'[r][s].data = stream[r][s].data
                    /\ stream'[r][s].connected => (r = q /\ s = 3) \/ stream[r][s].connected
    BY <1>1, <1>2, <1>4 DEF TypeInv
  <1>9. TypeInv'
    BY <1>1, <1>7, <1>8, SameSetup DEF IInv, TypeInv
  <1>10. StreamInv'
    <2>1. \A r \in Process, s \in 3..4 : StreamRight(r, s, stream'[r][s])
      BY <1>3, <1>4, <1>8 DEF IInv, StreamInv, StreamRight
    <2>2. QED
      BY <1>1, <2>1, StreamsRight
  <1>11. ResultInv'
    <2>1. \A r \in Process : pc'[r].stage = pc[r].stage
      BY <1>7
    <2>2. QED
      BY <1>1, <1>2, <2>1, ResultStays DEF IInv
  <1>12. GotInv'
    <2>1. \A r \in Process : pc'[r].at = "merge" => pc'[r] = pc[r]
      BY <1>7
    <2>2. QED
      BY <1>1, <2>1, OthersStay DEF IInv
  <1>13. AcceptInv'
    <2>1. \A r \in Process : acceptor[r].listens => AtAccept(r, pc'[r])
      BY <1>1, <1>7 DEF IInv, AcceptInv, AtAccept, At
    <2>2. QED
      BY <1>1, <2>1, AcceptStays DEF IInv
  <1>14. QED
    BY <1>1, <1>7, <1>9, <1>10, <1>11, <1>12, <1>13, StoresStay DEF IInv

LEMMA AcceptStep ==
  ASSUME OneTcpStage, IInv, NEW q \in Process, Accept(q)
  PROVE  IInv'
  <1>1. /\ acceptor[q].listens
        /\ setup' = setup /\ pc' = pc /\ result' = result /\ got' = got /\ shm' = shm
        /\ stream' = stream
    BY DEF Accept
  <1>2. PICK m \in setup.machines :
            /\ Target(m, pc[q].stage) = machine(q)
            /\ stream[<<q[1], <<m, 0>>>>][pc[q].stage].connected
            /\ acceptor' = [acceptor EXCEPT ![q].from = {<<q[1], <<m, 0>>>>}]
    BY DEF Accept
  <1> DEFINE r == <<q[1], <<m, 0>>>>
  <1>3. TypeInv /\ setup \in Setups
    BY DEF IInv, TypeInv
  <1>4. pc[q].stage = 3
    BY <1>1 DEF IInv, AcceptInv, AtAccept
  <1>5. r \in Process /\ machine(r) = m
    BY <1>3, SetupFacts DEF machine
  <1>6. Role(r, 3) = "connector"
    <2>1. stream[r][3].connected
      BY <1>2, <1>4
    <2> HIDE DEF r
    <2>2. QED
      <3>1. StreamRight(r, 3, stream[r][3])
        BY <1>5 DEF IInv, StreamInv
      <3>2. QED
        BY <2>1, <3>1 DEF StreamRight
  <1>7. m # machine(q)
    BY <1>2, <1>3, <1>4, <1>5, <1>6, Roles
  <1>8. m \in Others(q)
    BY <1>2, <1>4, <1>7 DEF Others
  <1>9. acceptor' \in [Process -> [listens : BOOLEAN, from : SUBSET Process]]
    <2>1. acceptor' = [acceptor EXCEPT ![q].from = {r}]
      BY <1>2
    <2> HIDE DEF r
    <2>2. QED
      BY <2>1, <1>3, <1>5 DEF TypeInv
  <1>10. TypeInv'
    BY <1>1, <1>3, <1>9, SameSetup DEF TypeInv
  <1>11. \A p \in Process : /\ acceptor'[p].listens => acceptor[p].listens
                            /\ acceptor'[p].from = acceptor[p].from \/ (p = q /\ acceptor'[p].from = {r})
    BY <1>2, <1>3 DEF TypeInv
  <1>12. AcceptInv'
    <2>1. \A p \in Process :
            /\ acceptor'[p].listens => AtAccept(p, pc[p])
            /\ acceptor'[p].from \subseteq {<<p[1], <<l, 0>>>> : l \in Others(p)}
      BY <1>8, <1>11 DEF IInv, AcceptInv
    <2>2. QED
      BY <1>1, <2>1, SameSetup DEF AcceptInv, AtAccept
  <1>13. PlaceInv' /\ GotInv'
    BY <1>1, SameSetup DEF IInv, PlaceInv, GotInv, At
  <1>14. ResultInv'
    BY <1>1, <1>3, ResultStays DEF IInv
  <1>15. QED
    BY <1>1, <1>10, <1>12, <1>13, <1>14, StoresStay DEF IInv

LEMMA SendBlocksStep ==
  ASSUME OneTcpStage, IInv, NEW q \in Process, SendBlocks(q)
  PROVE  IInv'
  <1> DEFINE after == Left(q, 3)
  <1>1. TypeInv /\ PlaceInv /\ setup \in Setups /\ pc[q].stage \in 1..5
    BY DEF IInv, TypeInv
  <1>2. At(q, "connected") /\ Role(q, pc[q].stage) = "connector"
    BY DEF SendBlocks, IInv, PlaceInv, Placed, At
  <1>3. pc[q].stage = 3 /\ id(q) = 0 /\ Held(0, 3) = Held(0, 5)
    BY <1>1, <1>2, TcpStage
  <1>4. /\ stream' = [stream EXCEPT ![q][3].data =
                        IF stream[q][3].connected THEN result[q] ELSE EmptyBag]
        /\ pc' = [pc EXCEPT ![q] = after]
        /\ setup' = setup /\ result' = result /\ got' = got /\ shm' = shm
        /\ acceptor' = acceptor
    BY <1>3 DEF SendBlocks, Leave
  <1>5. Placed(q, after) /\ after \in [stage : 1..5, at : Places] /\ after.at \in {"begin", "end"}
    BY <1>1, LeftPlace, NextStage
  <1>6. /\ setup' \in Setups /\ pc' \in [Process -> [stage : 1..5, at : Places]]
        /\ PlaceInv'
        /\ pc'[q] = after /\ \A r \in Process \ {q} : pc'[r] = pc[r]
    <2> HIDE DEF after
    <2>1. QED
      BY <1>1, <1>4, <1>5, OneMoves
  <1>7. result[q] = SetToBag({machine(q)} \X Held(0, 5))
    BY <1>3 DEF IInv, ResultInv
  <1>8. /\ DOMAIN stream' = Process
        /\ \A r \in Process :
              /\ DOMAIN stream'[r] = 3..4
              /\ \A s \in 3..4 :
                    /\ DOMAIN stream'[r][s] = {"connected", "data"}
                    /\ stream'[r][s].connected = stream[r][s].connected
                    /\ \/ stream'[r][s].data = stream[r][s].data
                       \/ r = q /\ s = 3 /\ stream'[r][s].data \in {EmptyBag, result[q]}
    BY <1>1, <1>4 DEF TypeInv
  <1>9. TypeInv'
    BY <1>4, <1>6, <1>8, SameSetup DEF IInv, TypeInv
  <1>10. StreamInv'
    <2>1. \A r \in Process, s \in 3..4 : StreamRight(r, s, stream'[r][s])
      <3> SUFFICES ASSUME NEW r \in Process, NEW s \in 3..4
                   PROVE  StreamRight(r, s, stream'[r][s])
        OBVIOUS
      <3>1. CASE r = q /\ s = 3
        <4>1. Role(q, 3) = "connector"
          BY <1>2, <1>3
        <4>2. stream'[r][s].data \in {EmptyBag, SetToBag({machine(q)} \X Held(0, 5))}
          <5>1. StreamRight(q, 3, stream[q][3])
            BY DEF IInv, StreamInv
          <5>2. QED
            BY <3>1, <1>7, <1>8, <5>1 DEF StreamRight
        <4>3. QED
          BY <3>1, <4>1, <4>2 DEF StreamRight
      <3>2. CASE ~(r = q /\ s = 3)
        <4>1. stream'[r][s].connected = stream[r][s].connected /\ stream'[r][s].data = stream[r][s].data
          BY <3>2, <1>8
        <4>2. QED
          BY <4>1 DEF IInv, StreamInv, StreamRight
      <3>3. QED
        BY <3>1, <3>2
    <2>2. QED
      BY <1>4, <2>1, StreamsRight
  <1>11. ResultInv'
    <2>1. \A r \in Process :
            \/ pc'[r].stage = pc[r].stage
            \/ /\ pc'[r] = Left(r, pc[r].stage) /\ pc[r].stage \in 1..4
               /\ Role(r, pc[r].stage) \in {"sender", "connector"}
      BY <1>2, <1>3, <1>6
    <2>2. QED
      BY <1>1, <1>4, <2>1, ResultStays DEF IInv
  <1>12. GotInv'
    <2>1. \A r \in Process : pc'[r].at = "merge" => pc'[r] = pc[r]
      BY <1>5, <1>6
    <2>2. QED
      BY <1>4, <2>1, OthersStay DEF IInv
  <1>13. AcceptInv'
    <2>1. \A r \in Process : acceptor[r].listens => AtAccept(r, pc'[r])
      BY <1>2, <1>6 DEF IInv, AcceptInv, AtAccept, At
    <2>2. QED
      BY <1>4, <2>1, AcceptStays DEF IInv
  <1>14. QED
    BY <1>4, <1>6, <1>9, <1>10, <1>11, <1>12, <1>13, StoresStay DEF IInv

LEMMA ReceiveBlocksStep ==
  ASSUME OneTcpStage, IInv, NEW q \in Process, ReceiveBlocks(q)
  PROVE  IInv'
  <1> DEFINE place == [stage |-> pc[q].stage, at |-> "merge"]
  <1>1. /\ At(q, "acceptor")
        /\ pc' = [pc EXCEPT ![q].at = "merge"]
        /\ setup' = setup /\ result' = result /\ shm' = shm /\ stream' = stream
        /\ acceptor' = acceptor
    BY DEF ReceiveBlocks, Goto
  <1>2. TypeInv /\ PlaceInv /\ setup \in Setups /\ pc[q].stage \in 1..5
    BY DEF IInv, TypeInv
  <1>3. Role(q, pc[q].stage) = "acceptor"
    BY <1>1 DEF IInv, PlaceInv, Placed, At
  <1>4. pc[q].stage = 3
    BY <1>2, <1>3, TcpStage
  <1>5. PICK r \in acceptor[q].from :
            /\ stream[r][3].data # EmptyBag
            /\ got' = [got EXCEPT ![q] = stream[r][3].data]
    BY <1>4 DEF ReceiveBlocks
  <1>6. PICK m \in Others(q) : r = <<q[1], <<m, 0>>>>
    BY <1>5 DEF IInv, AcceptInv
  <1>7. r \in Process /\ machine(r) = m
    BY <1>2, <1>6, SetupFacts DEF machine, Others
  <1>8. stream[r][3].data = SetToBag({m} \X Held(0, 5))
    BY <1>5, <1>7 DEF IInv, StreamInv, StreamRight
  <1>9. pc' = [pc EXCEPT ![q] = place]
    BY <1>1, <1>2, SamePlace
  <1>10. Placed(q, place) /\ place \in [stage : 1..5, at : Places]
    BY <1>2, <1>3, <1>4 DEF Placed, Places
  <1>11. /\ setup' \in Setups /\ pc' \in [Process -> [stage : 1..5, at : Places]]
         /\ PlaceInv'
         /\ pc'[q] = place /\ \A p \in Process \ {q} : pc'[p] = pc[p]
    <2> HIDE DEF place
    <2>1. QED
      BY <1>1, <1>2, <1>9, <1>10, OneMoves
  <1>12. TypeInv'
    BY <1>1, <1>5, <1>11, SameSetup DEF IInv, TypeInv
  <1>13. ResultInv'
    <2>1. \A p \in Process : pc'[p].stage = pc[p].stage
      BY <1>11
    <2>2. QED
      BY <1>1, <1>2, <2>1, ResultStays DEF IInv
  <1>14. GotInv'
    <2>1. got'[q] = SetToBag({m} \X Held(0, 5))
      BY <1>2, <1>5, <1>8 DEF TypeInv
    <2> SUFFICES ASSUME NEW p \in Process, pc'[p].at = "merge"
                 PROVE  GotRight(p, got'[p], pc'[p].stage)
      BY <1>1, SameSetup DEF GotInv, At
    <2>2. CASE p = q
      <3>1. pc'[q].stage = pc[q].stage
        BY <1>11
      <3>2. Role(q, pc[q].stage) # "receiver"
        BY <1>3
      <3>3. QED
        BY <2>1, <2>2, <3>1, <3>2 DEF GotRight
    <2>3. CASE p # q
      <3>1. pc'[p] = pc[p] /\ got'[p] = got[p]
        BY <2>3, <1>2, <1>5, <1>11 DEF TypeInv
      <3>2. QED
        BY <3>1 DEF IInv, GotInv, At
    <2>4. QED
      BY <2>2, <2>3
  <1>15. AcceptInv'
    <2>1. \A p \in Process : acceptor[p].listens => AtAccept(p, pc'[p])
      BY <1>11 DEF IInv, AcceptInv, AtAccept
    <2>2. QED
      BY <1>1, <2>1, AcceptStays DEF IInv
  <1>16. QED
    BY <1>1, <1>11, <1>12, <1>13, <1>14, <1>15, StoresStay DEF IInv

-----------------------------------------------------------------------------
(* Steps of two peers.                                                       *)

LEMMA PeersMove ==
  ASSUME TypeInv, PlaceInv, NEW o \in Origin, NEW place \in [Peers(o) -> [stage : 1..5, at : Places]],
         setup' = setup,
         pc' = [pc EXCEPT ![<<"A", o>>] = place[<<"A", o>>], ![<<"B", o>>] = place[<<"B", o>>]],
         \A q \in Peers(o) : Placed(q, place[q])
  PROVE  /\ Peers(o) \subseteq Process
         /\ setup' \in Setups /\ pc' \in [Process -> [stage : 1..5, at : Places]]
         /\ PlaceInv'
         /\ \A q \in Peers(o) : pc'[q] = place[q]
         /\ \A r \in Process \ Peers(o) : pc'[r] = pc[r]
  <1>1. Peers(o) = {<<"A", o>>, <<"B", o>>} /\ Peers(o) \subseteq Process
    BY DEF Peers, Party, Process
  <1>2. /\ setup' \in Setups /\ pc' \in [Process -> [stage : 1..5, at : Places]]
        /\ \A q \in Peers(o) : pc'[q] = place[q]
        /\ \A r \in Process \ Peers(o) : pc'[r] = pc[r]
    BY <1>1 DEF TypeInv
  <1>3. \A r \in Process : Placed(r, pc'[r])
    BY <1>2 DEF PlaceInv
  <1>4. QED
    BY <1>1, <1>2, <1>3, SameSetup DEF PlaceInv

LEMMA SyncBeginStep ==
  ASSUME OneTcpStage, IInv, NEW o \in Origin, SyncBegin(o)
  PROVE  IInv'
  <1> DEFINE place == [q \in Peers(o) |-> [stage |-> pc[q].stage, at |-> Role(q, pc[q].stage)]]
  <1>1. TypeInv /\ PlaceInv /\ setup \in Setups
    BY DEF IInv, TypeInv
  <1>2. Peers(o) = {<<"A", o>>, <<"B", o>>} /\ Peers(o) \subseteq Process
    BY DEF Peers, Party, Process
  <1>3. /\ \A q \in Peers(o) : At(q, "begin")
        /\ setup' = setup /\ result' = result /\ got' = got /\ shm' = shm
        /\ stream' = stream /\ acceptor' = acceptor
    BY DEF SyncBegin
  <1>4. \A q \in Peers(o) : [pc[q] EXCEPT !.at = Role(q, pc[q].stage)] = place[q]
    <2> SUFFICES ASSUME NEW q \in Peers(o)
                 PROVE  [pc[q] EXCEPT !.at = Role(q, pc[q].stage)] = place[q]
      OBVIOUS
    <2>1. pc[q] \in [stage : 1..5, at : Places]
      BY <1>1, <1>2 DEF TypeInv
    <2>2. QED
      BY <2>1
  <1>5. pc' = [pc EXCEPT ![<<"A", o>>] = place[<<"A", o>>], ![<<"B", o>>] = place[<<"B", o>>]]
    BY <1>2, <1>4 DEF SyncBegin, ForPeers
  <1>6. \A q \in Peers(o) : /\ Placed(q, place[q]) /\ place[q] \in [stage : 1..5, at : Places]
                            /\ place[q].at \notin {"merge"} /\ place[q].stage = pc[q].stage
    <2> SUFFICES ASSUME NEW q \in Peers(o)
                 PROVE  LET s == pc[q].stage
                            here == [stage |-> s, at |-> Role(q, s)]
                        IN  /\ Placed(q, here) /\ here \in [stage : 1..5, at : Places]
                            /\ here.at \notin {"merge"} /\ here.stage = s
      OBVIOUS
    <2> DEFINE s == pc[q].stage
    <2>1. s \in 1..5 /\ q \in Process
      BY <1>1, <1>2 DEF TypeInv
    <2>2. Role(q, s) # "none"
      BY <2>1, <1>3 DEF IInv, PlaceInv, Placed, At
    <2>3. Role(q, s) \in {"receiver", "sender", "acceptor", "connector"} /\ s # 5
      BY <2>1, <2>2, <1>1, Roles
    <2> HIDE DEF s
    <2>4. QED
      BY <2>1, <2>3 DEF Placed, Places, s
  <1>7. /\ setup' \in Setups /\ pc' \in [Process -> [stage : 1..5, at : Places]]
        /\ PlaceInv'
        /\ \A q \in Peers(o) : pc'[q] = place[q]
        /\ \A r \in Process \ Peers(o) : pc'[r] = pc[r]
    <2>1. place \in [Peers(o) -> [stage : 1..5, at : Places]]
      BY <1>6
    <2> HIDE DEF place
    <2>2. QED
      BY <2>1, <1>1, <1>3, <1>5, <1>6, PeersMove
  <1>8. TypeInv'
    BY <1>3, <1>7, SameSetup DEF IInv, TypeInv
  <1>9. \A r \in Process : /\ pc'[r].stage = pc[r].stage
                           /\ pc'[r].at = "merge" => pc'[r] = pc[r]
    BY <1>6, <1>7
  <1>10. ResultInv' /\ GotInv'
    BY <1>1, <1>3, <1>9, ResultStays, OthersStay DEF IInv
  <1>11. AcceptInv'
    <2>1. \A r \in Process : acceptor[r].listens => AtAccept(r, pc'[r])
      BY <1>3, <1>7 DEF IInv, AcceptInv, AtAccept, At
    <2>2. QED
      BY <1>3, <2>1, AcceptStays DEF IInv
  <1>12. QED
    BY <1>3, <1>7, <1>8, <1>10, <1>11, StoresStay DEF IInv

\* What a process has after it has merged.
LEMMA Merged ==
  ASSUME OneTcpStage, IInv, NEW q \in Process, At(q, "merge")
  PROVE  LET s == pc[q].stage
             after == Left(q, s)
             both == result[q] (+) got[q]
         IN  /\ s \in 1..4
             /\ IF Accepts(q) /\ after.stage = 5
                THEN \E m \in Others(q) : both = SetToBag({m, machine(q)} \X Held(0, 5))
                ELSE both = SetToBag({machine(q)} \X Held(id(q), after.stage))
  <1> DEFINE s == pc[q].stage
             l == Left(q, s).stage
  <1>1. TypeInv /\ setup \in Setups /\ s \in 1..5
    BY DEF IInv, TypeInv
  <1>2. Role(q, s) \in {"receiver", "acceptor"}
    BY DEF IInv, PlaceInv, Placed, At
  <1>3. s \in 1..4
    BY <1>1, <1>2, Roles
  <1>4. /\ l \in 1..5 /\ l > s
        /\ l < 5 => Role(q, l) # "none"
        /\ \A r \in (s + 1)..(l - 1) : Role(q, r) = "none"
    BY <1>1, <1>3, NextStage
  <1>5. result[q] = SetToBag({machine(q)} \X Held(id(q), s))
    BY <1>3 DEF IInv, ResultInv
  <1>6. CASE Role(q, s) = "receiver"
    <2>1. got[q] = SetToBag({machine(q)} \X Sent(Name(id(q), s)))
      BY <1>6 DEF IInv, GotInv, GotRight
    <2>2. InMachine(s) /\ id(q) \in Receivers(s) /\ id(q) \in 0..7
      BY <1>1, <1>6, Roles, SetupFacts
    <2>3. /\ Held(id(q), s + 1) = Held(id(q), s) \cup Sent(Name(id(q), s))
          /\ Held(id(q), s) \cap Sent(Name(id(q), s)) = {}
      BY <1>1, <1>3, <2>2, Received
    <2>4. Held(id(q), l) = Held(id(q), s + 1)
      <3>1. s + 1 \in 1..5 /\ l \in 1..5 /\ s + 1 <= l /\ \A r \in (s + 1)..(l - 1) : Role(q, r) # "receiver"
        BY <1>3, <1>4
      <3> HIDE DEF s, l
      <3>2. QED
        BY <1>1, <3>1, HeldKept
    <2>5. result[q] (+) got[q] = SetToBag({machine(q)} \X Held(id(q), l))
      <3> DEFINE S == {machine(q)} \X Held(id(q), s)
                 T == {machine(q)} \X Sent(Name(id(q), s))
      <3>1. S \cap T = {}
        BY <2>3
      <3>2. S \cup T = {machine(q)} \X Held(id(q), l)
        BY <2>3, <2>4
      <3>3. SetToBag(S) (+) SetToBag(T) = SetToBag(S \cup T)
        <4> HIDE DEF S, T
        <4>1. QED
          BY <3>1, BagOfUnion
      <3> HIDE DEF s, l
      <3>4. QED
        BY <1>5, <2>1, <3>2, <3>3
    <2>6. ~(Accepts(q) /\ l = 5)
      <3> SUFFICES ASSUME Accepts(q), l = 5 PROVE FALSE
        OBVIOUS
      <3>1. s <= 2
        <4>1. ~setup.Local
          BY <1>1, Roles DEF Accepts
        <4>2. QED
          BY <1>1, <2>2, <4>1 DEF InMachine
      <3>2. Role(q, 3) = "none"
        BY <1>3, <1>4, <3>1
      <3>3. QED
        BY <3>2 DEF Accepts
    <2>7. QED
      BY <1>3, <2>5, <2>6
  <1>7. CASE Role(q, s) = "acceptor"
    <2>1. s = 3 /\ id(q) = 0 /\ Held(0, 3) = Held(0, 5) /\ Role(q, 4) = "none"
      BY <1>1, <1>7, TcpStage
    <2>2. PICK m \in Others(q) : got[q] = SetToBag({m} \X Held(0, 5))
      BY <1>7 DEF IInv, GotInv, GotRight
    <2>3. l = 5 /\ Accepts(q)
      BY <1>4, <1>7, <2>1 DEF Accepts
    <2>4. m # machine(q)
      BY DEF Others
    <2>5. result[q] (+) got[q] = SetToBag({m, machine(q)} \X Held(0, 5))
      <3> DEFINE S == {machine(q)} \X Held(0, 5)
                 T == {m} \X Held(0, 5)
      <3>1. S \cap T = {} /\ S \cup T = {m, machine(q)} \X Held(0, 5)
        BY <2>4
      <3>2. SetToBag(S) (+) SetToBag(T) = SetToBag(S \cup T)
        <4> HIDE DEF S, T
        <4>1. QED
          BY <3>1, BagOfUnion
      <3>3. QED
        BY <1>5, <2>1, <2>2, <3>1, <3>2
    <2>6. QED
      BY <1>3, <2>3, <2>5
  <1>8. QED
    BY <1>2, <1>6, <1>7

LEMMA MergeStep ==
  ASSUME OneTcpStage, IInv, NEW o \in Origin, Merge(o)
  PROVE  IInv'
  <1> DEFINE place == [q \in Peers(o) |-> Left(q, pc[q].stage)]
  <1>1. TypeInv /\ PlaceInv /\ setup \in Setups
    BY DEF IInv, TypeInv
  <1>2. Peers(o) = {<<"A", o>>, <<"B", o>>} /\ Peers(o) \subseteq Process
    BY DEF Peers, Party, Process
  <1>3. /\ \A q \in Peers(o) : At(q, "merge")
        /\ setup' = setup /\ got' = got /\ shm' = shm /\ stream' = stream
    BY DEF Merge
  <1>4. /\ DOMAIN result' = Process
        /\ \A q \in Peers(o) : result'[q] = result[q] (+) got[q]
        /\ \A q \in Process \ Peers(o) : result'[q] = result[q]
    BY <1>1, <1>2 DEF Merge, ForPeers, TypeInv
  <1>5. /\ acceptor' \in [Process -> [listens : BOOLEAN, from : SUBSET Process]]
        /\ \A q \in Peers(o) : acceptor'[q] = NotListening
        /\ \A q \in Process \ Peers(o) : acceptor'[q] = acceptor[q]
    <2>1. NotListening \in [listens : BOOLEAN, from : SUBSET Process]
      BY DEF NotListening
    <2>2. acceptor' = [acceptor EXCEPT ![<<"A", o>>] = NotListening, ![<<"B", o>>] = NotListening]
      BY DEF Merge, ForPeers
    <2>3. QED
      BY <1>1, <1>2, <2>1, <2>2 DEF TypeInv
  <1>6. pc' = [pc EXCEPT ![<<"A", o>>] = place[<<"A", o>>], ![<<"B", o>>] = place[<<"B", o>>]]
    BY <1>2 DEF Merge, ForPeers
  <1>7. \A q \in Peers(o) : /\ Placed(q, place[q]) /\ place[q] \in [stage : 1..5, at : Places]
                            /\ place[q].at # "merge"
    <2> SUFFICES ASSUME NEW q \in Peers(o)
                 PROVE  /\ Placed(q, Left(q, pc[q].stage))
                        /\ Left(q, pc[q].stage) \in [stage : 1..5, at : Places]
                        /\ Left(q, pc[q].stage).at # "merge"
      OBVIOUS
    <2>1. pc[q].stage \in 1..4 /\ q \in Process
      BY <1>2, <1>3, Merged
    <2>2. QED
      BY <2>1, <1>1, LeftPlace, NextStage
  <1>8. /\ setup' \in Setups /\ pc' \in [Process -> [stage : 1..5, at : Places]]
        /\ PlaceInv'
        /\ \A q \in Peers(o) : pc'[q] = Left(q, pc[q].stage) /\ pc'[q].at # "merge"
        /\ \A r \in Process \ Peers(o) : pc'[r] = pc[r]
    <2>1. place \in [Peers(o) -> [stage : 1..5, at : Places]]
      BY <1>7
    <2>2. \A q \in Peers(o) : place[q] = Left(q, pc[q].stage)
      OBVIOUS
    <2> HIDE DEF place
    <2>3. /\ setup' \in Setups /\ pc' \in [Process -> [stage : 1..5, at : Places]]
          /\ PlaceInv'
          /\ \A q \in Peers(o) : pc'[q] = place[q]
          /\ \A r \in Process \ Peers(o) : pc'[r] = pc[r]
      BY <2>1, <1>1, <1>3, <1>6, <1>7, PeersMove
    <2>4. QED
      BY <2>2, <2>3, <1>7
  <1>9. TypeInv'
    BY <1>3, <1>4, <1>5, <1>8, SameSetup DEF IInv, TypeInv
  <1>10. ResultInv'
    <2> SUFFICES ASSUME NEW q \in Process
                 PROVE  IF Accepts(q) /\ pc'[q].stage = 5
                        THEN \E m \in Others(q) : result'[q] = SetToBag({m, machine(q)} \X Held(0, 5))
                        ELSE result'[q] = SetToBag({machine(q)} \X Held(id(q), pc'[q].stage))
      BY <1>3, SameSetup DEF ResultInv, machine, id
    <2>1. CASE q \in Peers(o)
      <3>1. pc'[q].stage = Left(q, pc[q].stage).stage /\ result'[q] = result[q] (+) got[q]
        BY <2>1, <1>4, <1>8
      <3>2. At(q, "merge")
        BY <2>1, <1>3
      <3>3. QED
        BY <3>1, <3>2, Merged
    <2>2. CASE q \notin Peers(o)
      <3>1. pc'[q] = pc[q] /\ result'[q] = result[q]
        BY <2>2, <1>4, <1>8
      <3>2. QED
        BY <3>1 DEF IInv, ResultInv
    <2>3. QED
      BY <2>1, <2>2
  <1>11. GotInv'
    <2>1. \A r \in Process : pc'[r].at = "merge" => pc'[r] = pc[r]
      BY <1>8
    <2>2. QED
      BY <1>3, <2>1, OthersStay DEF IInv
  <1>12. AcceptInv'
    <2>1. \A q \in Process :
            /\ acceptor'[q].listens => AtAccept(q, pc'[q])
            /\ acceptor'[q].from \subseteq {<<q[1], <<m, 0>>>> : m \in Others(q)}
      <3> SUFFICES ASSUME NEW q \in Process
                   PROVE  /\ acceptor'[q].listens => AtAccept(q, pc'[q])
                          /\ acceptor'[q].from \subseteq {<<q[1], <<m, 0>>>> : m \in Others(q)}
        OBVIOUS
      <3>1. CASE q \in Peers(o)
        BY <3>1, <1>5 DEF NotListening
      <3>2. CASE q \notin Peers(o)
        BY <3>2, <1>5, <1>8 DEF IInv, AcceptInv
      <3>3. QED
        BY <3>1, <3>2
    <2>2. QED
      BY <1>3, <2>1, SameSetup DEF AcceptInv, AtAccept
  <1>13. QED
    BY <1>3, <1>8, <1>9, <1>10, <1>11, <1>12, StoresStay DEF IInv

-----------------------------------------------------------------------------
(* Theorems.                                                                 *)

LEMMA InitInv ==
  ASSUME OneTcpStage, Init
  PROVE  IInv
  <1>1. setup \in Setups
    BY DEF Init
  <1>2. \A q \in Process : /\ pc[q] = Left(q, 0)
                           /\ Placed(q, pc[q]) /\ pc[q] \in [stage : 1..5, at : Places]
                           /\ pc[q].at \in {"begin", "end"}
    BY <1>1, LeftPlace, NextStage DEF Init
  <1>3. \A q \in Process : /\ result[q] = SetToBag({machine(q)} \X Held(id(q), pc[q].stage))
                           /\ ~(Accepts(q) /\ pc[q].stage = 5)
    <2> SUFFICES ASSUME NEW q \in Process
                 PROVE  /\ result[q] = SetToBag({machine(q)} \X Held(id(q), pc[q].stage))
                        /\ ~(Accepts(q) /\ pc[q].stage = 5)
      OBVIOUS
    <2> DEFINE l == pc[q].stage
    <2>1. l \in 1..5 /\ \A r \in 1..(l - 1) : Role(q, r) = "none"
      BY <1>1, <1>2, NextStage
    <2> HIDE DEF l
    <2>2. Held(id(q), l) = Held(id(q), 1)
      BY <1>1, <2>1, HeldKept
    <2>3. Held(id(q), 1) = {id(q)} /\ q[2] = <<machine(q), id(q)>>
      BY <1>1, SetupFacts, HeldByStage DEF Process, Origin, machine, id
    <2>4. {q[2]} = {machine(q)} \X {id(q)}
      BY <2>3
    <2>5. result[q] = SetToBag({q[2]})
      BY DEF Init
    <2>6. ~(Accepts(q) /\ l = 5)
      BY <2>1 DEF Accepts
    <2>7. QED
      BY <2>2, <2>3, <2>4, <2>5, <2>6 DEF l
  <1>4. TypeInv
    <2>1. acceptor \in [Process -> [listens : BOOLEAN, from : SUBSET Process]]
      BY DEF Init, NotListening
    <2>2. pc \in [Process -> [stage : 1..5, at : Places]]
      BY <1>2 DEF Init
    <2>3. \A q \in Process : /\ DOMAIN stream[q] = 3..4
                             /\ \A s \in 3..4 : DOMAIN stream[q][s] = {"connected", "data"}
      BY DEF Init
    <2>4. QED
      BY <1>1, <2>1, <2>2, <2>3 DEF TypeInv, Init
  <1>5. PlaceInv /\ ResultInv /\ GotInv
    BY <1>2, <1>3 DEF PlaceInv, ResultInv, GotInv, At
  <1>6. ShmInv
    BY DEF ShmInv, Init
  <1>7. StreamInv
    BY DEF StreamInv, StreamRight, Init
  <1>8. AcceptInv
    BY DEF AcceptInv, NotListening, Init
  <1>9. QED
    BY <1>4, <1>5, <1>6, <1>7, <1>8 DEF IInv

LEMMA NextInv ==
  ASSUME OneTcpStage, IInv, [Next]_vars
  PROVE  IInv'
  <1>1. CASE UNCHANGED vars
    <2>1. /\ setup' = setup /\ pc' = pc /\ result' = result /\ got' = got /\ shm' = shm
          /\ stream' = stream /\ acceptor' = acceptor
      BY <1>1 DEF vars
    <2>2. TypeInv'
      BY <2>1, SameSetup DEF IInv, TypeInv
    <2>3. PlaceInv' /\ GotInv'
      BY <2>1, SameSetup DEF IInv, PlaceInv, GotInv, At
    <2>4. ResultInv'
      BY <2>1, ResultStays DEF IInv
    <2>5. AcceptInv'
      BY <2>1, SameSetup DEF IInv, AcceptInv, AtAccept
    <2>6. QED
      BY <2>1, <2>2, <2>3, <2>4, <2>5, StoresStay DEF IInv
  <1>2. ASSUME NEW q \in Process, Step(q) PROVE IInv'
    BY <1>2, SendStep, ReceiveStep, ListenStep, ConnectStep, AcceptStep, SendBlocksStep,
       ReceiveBlocksStep DEF Step
  <1>3. ASSUME NEW o \in Origin, SyncBegin(o) \/ Merge(o) PROVE IInv'
    BY <1>3, SyncBeginStep, MergeStep
  <1>4. QED
    BY <1>1, <1>2, <1>3 DEF Next

LEMMA Inductive ==
  ASSUME OneTcpStage
  PROVE  Spec => []IInv
  <1>1. Init => IInv
    BY InitInv
  <1>2. IInv /\ [Next]_vars => IInv'
    BY NextInv
  <1>3. QED
    BY <1>1, <1>2, PTL DEF Spec

\* No process has counted a result twice.
CountedOnce == \A q \in Process : \A o \in DOMAIN result[q] : result[q][o] = 1

\* No result is counted twice at any process, whatever the machines, their
\* addresses and the numbers of processes and stages are.
THEOREM CountedOnceAlways ==
  ASSUME OneTcpStage
  PROVE  Spec => []CountedOnce
  <1>1. IInv => CountedOnce
    <2> SUFFICES ASSUME IInv, NEW q \in Process
                 PROVE  \A o \in DOMAIN result[q] : result[q][o] = 1
      BY DEF CountedOnce
    <2>1. PICK S : result[q] = SetToBag(S)
      BY DEF IInv, ResultInv
    <2>2. QED
      BY <2>1, BagOfSet
  <1>2. QED
    BY <1>1, Inductive, PTL

\* A setup whose stages are those its processes and machines need is a tree.
LEMMA TreeHasOneTcpStage ==
  ASSUME \A s \in Setups : OneTree(s)
  PROVE  OneTcpStage
  BY SetupAssumption DEF OneTree, Complete, OneTcpStage

\* MergedOnce, for every setup that is one tree: when all processes have ended,
\* process 0 of the last machine has the result of each process once, at both
\* parties, and no process has one twice before.
THEOREM MergedOnceAlways ==
  ASSUME \A s \in Setups : OneTree(s)
  PROVE  Spec => []MergedOnce
  <1>1. OneTcpStage
    BY TreeHasOneTcpStage
  <1>2. IInv /\ CountedOnce => MergedOnce
    <2> SUFFICES ASSUME IInv, CountedOnce, Ended, NEW p \in Party
                 PROVE  \E m \in setup.machines : result[<<p, <<m, 0>>>>] = SetToBag(Origin)
      BY DEF MergedOnce, CountedOnce
    <2>1. setup \in Setups /\ OneTree(setup)
      BY DEF IInv, TypeInv
    <2>2. \A m \in setup.machines :
             LET q == <<p, <<m, 0>>>> IN
             q \in Process /\ machine(q) = m /\ id(q) = 0 /\ pc[q].stage = 5
      BY <2>1, SetupFacts DEF machine, id, Ended, IInv, PlaceInv, Placed, At
    <2>3. CASE (\E m \in setup.machines : setup.machines = {m}) /\ Complete(setup)
      <3>1. PICK m \in setup.machines : setup.machines = {m}
        BY <2>3
      <3> DEFINE q == <<p, <<m, 0>>>>
      <3>2. q \in Process /\ machine(q) = m /\ id(q) = 0 /\ pc[q].stage = 5
        BY <2>2, <3>1
      <3>3. ~Accepts(q)
        BY <2>1, <2>3, <3>2, Roles DEF Accepts, Complete
      <3> HIDE DEF q
      <3>4. result[q] = SetToBag({m} \X Held(0, 5))
        BY <3>2, <3>3 DEF IInv, ResultInv
      <3>5. Held(0, 5) = 0..(setup.n_processes - 1)
        <4>1. CASE setup.n_processes = 2 /\ setup.LAYERS = 1
          <5>1. Held(0, 5) = {0, 1}
            BY <2>1, <4>1, HeldByStage
          <5>2. QED
            BY <4>1, <5>1
        <4>2. CASE setup.n_processes = 4 /\ setup.LAYERS = 2
          <5>1. Held(0, 5) = {0, 1, 2, 3}
            BY <2>1, <4>2, HeldByStage
          <5>2. QED
            BY <4>2, <5>1
        <4>3. CASE setup.n_processes = 8 /\ setup.LAYERS >= 3 /\ setup.Local
          <5>1. Held(0, 5) = {0, 1, 2, 3, 4, 5, 6, 7}
            <6>1. setup.LAYERS >= 2
              BY <2>1, <4>3, SetupFacts
            <6>2. QED
              BY <2>1, <4>3, <6>1, HeldByStage
          <5>2. QED
            BY <4>3, <5>1
        <4>4. QED
          BY <2>3, <4>1, <4>2, <4>3 DEF Complete
      <3>6. Origin = {m} \X Held(0, 5)
        BY <3>1, <3>5 DEF Origin
      <3>7. QED
        BY <3>1, <3>4, <3>6 DEF q
    <2>4. CASE ~((\E m \in setup.machines : setup.machines = {m}) /\ Complete(setup))
      <3>1. /\ setup.LAYERS = 3 /\ ~setup.Local /\ setup.n_processes = 4
            /\ \E m, c \in setup.machines :
                  m # c /\ setup.machines = {m, c} /\ Next3(setup) = [l \in {m, c} |-> m]
        BY <2>1, <2>4 DEF OneTree
      <3>2. PICK m, c \in setup.machines :
               m # c /\ setup.machines = {m, c} /\ Next3(setup) = [l \in {m, c} |-> m]
        BY <3>1
      <3> DEFINE q == <<p, <<m, 0>>>>
      <3>3. q \in Process /\ machine(q) = m /\ id(q) = 0 /\ pc[q].stage = 5
        BY <2>2, <3>2
      <3>4. Target(m, 3) = m
        BY <3>2 DEF Target, ip_2, Next3
      <3> HIDE DEF q
      <3>5. Accepts(q)
        BY <3>1, <3>3, <3>4 DEF Accepts, Role
      <3>6. PICK l \in Others(q) : result[q] = SetToBag({l, machine(q)} \X Held(0, 5))
        BY <3>3, <3>5 DEF IInv, ResultInv
      <3>7. l = c
        BY <3>2, <3>3 DEF Others
      <3>8. Held(0, 5) = {0, 1, 2, 3}
        BY <2>1, <3>1, HeldByStage
      <3>9. Origin = {c, m} \X Held(0, 5)
        <4>1. 0..(setup.n_processes - 1) = {0, 1, 2, 3}
          BY <3>1
        <4>2. QED
          BY <3>2, <3>8, <4>1 DEF Origin
      <3>10. QED
        BY <3>2, <3>3, <3>6, <3>7, <3>9 DEF q
    <2>5. QED
      BY <2>3, <2>4
  <1>3. QED
    BY <1>1, <1>2, Inductive, CountedOnceAlways, PTL
=============================================================================
