----------------------------- MODULE ReducerEq ------------------------------
(***************************************************************************)
(* src/reducer_eq.cpp: the last reducer, executed twice.  On each machine   *)
(* main() forks; the parents run reduce() with machine "A" (ALICE) as the   *)
(* generator, the children run it with the roles switched.  A child leaves  *)
(* its labels and bits in shared memory; the parent waits for it and checks *)
(* the two executions for equality with the parent of the other machine.    *)
(*                                                                          *)
(* Any process may be killed at any time.  wait() then returns as well, and *)
(* the parent goes on with whatever the shared memory holds.                *)
(***************************************************************************)
EXTENDS Naturals, FiniteSets

CONSTANTS Wires,    \* tile_size * hashbits: the wires that are compared
          Fresh,    \* the bits that memory holds before any are stored
          MaxKills  \* bound: how many processes are killed

ASSUME EqAssumption ==
    /\ Wires \in Nat \ {0} /\ MaxKills \in Nat
    /\ Fresh \in [1..Wires -> {0, 1}]

Machine == {"A", "B"}
Process == Machine \X {"parent", "child"}
Round   == {1, 2}
Wire    == 1..Wires
Bits    == [Wire -> {0, 1}]

Parent(m) == <<m, "parent">>
Child(m)  == <<m, "child">>
RoundOf(p) == IF p[2] = "parent" THEN 1 ELSE 2
OtherMachine(m) == IF m = "A" THEN "B" ELSE "A"
Peer(p) == <<OtherMachine(p[1]), p[2]>>

\* A child switches the party that the file gives to its machine.
Generator(r) == IF r = 1 THEN Parent("A") ELSE Child("B")
IsGenerator(p) == p = Generator(RoundOf(p))

\* 64 bits of the label of a wire in a round when the wire carries bit b, and
\* a word of memory before it is stored, taken to be the same everywhere, so
\* that memory nobody stored agrees with itself as easily as it can.
Label(r, i, b) == <<r, i, b>>
Zero == <<0, 0, 0>>
Word == (Round \X Wire \X {0, 1}) \cup {Zero}

VARIABLES
    v,       \* v[r]: the bits of the list that round r computes
    pc,      \* pc[p]: where process p is
    k,       \* k[p]: the next wire its loop stores
    sent,    \* the rounds in which the generator's half of the reveal is sent
    labels,  \* labels[m][r][i]: the two words that machine m keeps for wire i
    bools,   \* bools[m][r][i]: the bit that machine m keeps for wire i
    digest,  \* digest[m]: what the parent of m hashes, as two lists of words
    result,  \* result[m]: what equality_check() returned there
    killed   \* the processes that were killed

vars == <<v, pc, k, sent, labels, bools, digest, result, killed>>

NoDigest == << >>
-----------------------------------------------------------------------------
Init ==
    /\ v \in [Round -> Bits]
    /\ pc = [p \in Process |-> "setup"]
    /\ k  = [p \in Process |-> 1]
    /\ sent = {}
    /\ labels = [m \in Machine |-> [r \in Round |-> [i \in Wire |-> [lo |-> Zero, hi |-> Zero]]]]
    /\ bools  = [m \in Machine |-> [r \in Round |-> Fresh]]
    /\ digest = [m \in Machine |-> NoDigest]
    /\ result = [m \in Machine |-> "none"]
    /\ killed = {}

\* setup_semi_honest() with the other process of the round: it waits for it
\* for ever, and the computation needs them both.
Setup(r) ==
    LET p == Generator(r) IN
    /\ pc[p] = "setup" /\ pc[Peer(p)] = "setup"
    /\ pc' = [pc EXCEPT ![p] = "reduce", ![Peer(p)] = "reduce"]
    /\ UNCHANGED <<v, k, sent, labels, bools, digest, result, killed>>

\* The generator has its labels and sends its half of the reveal.
RevealOut(p) ==
    /\ pc[p] = "reduce" /\ IsGenerator(p)
    /\ sent' = sent \cup {RoundOf(p)}
    /\ pc' = [pc EXCEPT ![p] = "store"]
    /\ UNCHANGED <<v, k, labels, bools, digest, result, killed>>

\* The evaluator gets the bits.
RevealIn(p) ==
    /\ pc[p] = "reduce" /\ ~IsGenerator(p) /\ RoundOf(p) \in sent
    /\ pc' = [pc EXCEPT ![p] = "store"]
    /\ UNCHANGED <<v, k, sent, labels, bools, digest, result, killed>>

\* The connection of a process whose peer is gone breaks, and it exits.
PeerLost(p) ==
    /\ pc[p] = "reduce" /\ pc[Peer(p)] \in {"killed", "failed"}
    /\ IsGenerator(p) \/ RoundOf(p) \notin sent
    /\ pc' = [pc EXCEPT ![p] = "failed"]
    /\ UNCHANGED <<v, k, sent, labels, bools, digest, result, killed>>

\* What follows the last store of a process: the child returns from main().
Stored(p) == IF p[2] = "parent" THEN "wait" ELSE "exited"

\* The two words for wire i: the generator keeps the labels of both bits, the
\* evaluator the one it holds (the second word is never read).
WordsSwapped(r, i, generator) ==   \* mutant: 1 before 0
    IF generator THEN [lo |-> Label(r, i, 1), hi |-> Label(r, i, 0)]
                 ELSE [lo |-> Label(r, i, v[r][i]), hi |-> Zero]
Words(r, i, generator) ==
    IF generator THEN [lo |-> Label(r, i, 0), hi |-> Label(r, i, 1)]
                 ELSE [lo |-> Label(r, i, v[r][i]), hi |-> Zero]

StoreLabelEndsEarly(p) ==    \* mutant: the loop leaves the last wire out
    LET m == p[1]  r == RoundOf(p)  i == k[p] IN
    /\ pc[p] = "store"
    /\ labels' = [labels EXCEPT ![m][r][i] = Words(r, i, IsGenerator(p))]
    /\ IF i < Wires - 1
       THEN k' = [k EXCEPT ![p] = i + 1] /\ UNCHANGED pc
       ELSE /\ k' = [k EXCEPT ![p] = 1]
            /\ pc' = [pc EXCEPT ![p] = IF IsGenerator(p) THEN Stored(p) ELSE "store_bools"]
    /\ UNCHANGED <<v, sent, bools, digest, result, killed>>

StoreLabel(p) ==
    LET m == p[1]  r == RoundOf(p)  i == k[p] IN
    /\ pc[p] = "store"
    /\ labels' = [labels EXCEPT ![m][r][i] = Words(r, i, IsGenerator(p))]
    /\ IF i < Wires
       THEN k' = [k EXCEPT ![p] = i + 1] /\ UNCHANGED pc
       ELSE /\ k' = [k EXCEPT ![p] = 1]
            /\ pc' = [pc EXCEPT ![p] = IF IsGenerator(p) THEN Stored(p) ELSE "store_bools"]
    /\ UNCHANGED <<v, sent, bools, digest, result, killed>>

\* Only the evaluator keeps bits.
StoreBool(p) ==
    LET m == p[1]  r == RoundOf(p)  i == k[p] IN
    /\ pc[p] = "store_bools"
    /\ bools' = [bools EXCEPT ![m][r][i] = v[r][i]]
    /\ IF i < Wires
       THEN k' = [k EXCEPT ![p] = i + 1] /\ UNCHANGED pc
       ELSE pc' = [pc EXCEPT ![p] = Stored(p)] /\ UNCHANGED k
    /\ UNCHANGED <<v, sent, labels, digest, result, killed>>

Ended == {"exited", "failed", "killed"}

WaitDropped(m) ==            \* mutant: the parent does not wait
    /\ pc[Parent(m)] = "wait"
    /\ pc' = [pc EXCEPT ![Parent(m)] = "apply"]
    /\ UNCHANGED <<v, k, sent, labels, bools, digest, result, killed>>

WaitForExit(m) ==            \* mutant: only a normal exit ends the wait
    /\ pc[Parent(m)] = "wait" /\ pc[Child(m)] = "exited"
    /\ pc' = [pc EXCEPT ![Parent(m)] = "apply"]
    /\ UNCHANGED <<v, k, sent, labels, bools, digest, result, killed>>

\* wait(&status): the parent prints how the child ended, and goes on.
Wait(m) ==
    /\ pc[Parent(m)] = "wait" /\ pc[Child(m)] \in Ended
    /\ pc' = [pc EXCEPT ![Parent(m)] = "apply"]
    /\ UNCHANGED <<v, k, sent, labels, bools, digest, result, killed>>

\* apply_labels(), and the labels an evaluator holds: every second word.
apply_labels(w, b) == [i \in Wire |-> IF b[i] = 1 THEN w[i].hi ELSE w[i].lo]
Held(w) == [i \in Wire |-> w[i].lo]

\* h1 = (w_2 || W_1(v_2)) at the parent generator, h2 = (W_2(v_1) || w_1) at
\* the parent evaluator.
Hashed(m) ==
    IF m = "A" THEN <<Held(labels[m][2]), apply_labels(labels[m][1], bools[m][2])>>
               ELSE <<apply_labels(labels[m][2], bools[m][1]), Held(labels[m][1])>>

Apply(m) ==
    /\ pc[Parent(m)] = "apply"
    /\ digest' = [digest EXCEPT ![m] = Hashed(m)]
    /\ pc' = [pc EXCEPT ![Parent(m)] = "check"]
    /\ UNCHANGED <<v, k, sent, labels, bools, result, killed>>

\* equality_check(): a circuit that is secure against malicious parties, run
\* by the two parents, tells both whether the hashes are equal.
EqualityCheck ==
    /\ \A m \in Machine : pc[Parent(m)] = "check"
    /\ result' = [m \in Machine |-> IF digest["A"] = digest["B"] THEN "equal" ELSE "different"]
    /\ pc' = [p \in Process |-> IF p[2] = "parent" THEN "exited" ELSE pc[p]]
    /\ UNCHANGED <<v, k, sent, labels, bools, digest, killed>>

\* A process is killed.
Kill(p) ==
    /\ pc[p] \notin Ended /\ Cardinality(killed) < MaxKills
    /\ pc' = [pc EXCEPT ![p] = "killed"]
    /\ killed' = killed \cup {p}
    /\ UNCHANGED <<v, k, sent, labels, bools, digest, result>>

Step ==
    \/ \E r \in Round : Setup(r)
    \/ \E p \in Process : RevealOut(p) \/ RevealIn(p) \/ PeerLost(p) \/ StoreLabel(p) \/ StoreBool(p)
    \/ \E m \in Machine : Wait(m) \/ Apply(m)
    \/ EqualityCheck
Next == Step \/ \E p \in Process : Kill(p)

\* No process is stopped but by a kill; every loop of the program ends.
SafetySpec == Init /\ [][Next]_vars
Spec       == SafetySpec /\ WF_vars(Step)
-----------------------------------------------------------------------------
(* The inductive invariant.                                                  *)

Running == {"setup", "reduce", "store", "store_bools", "wait", "apply", "check"}

TypeOK ==
    /\ v \in [Round -> Bits]
    /\ pc \in [Process -> Running \cup Ended]
    /\ k \in [Process -> Wire]
    /\ sent \subseteq Round
    /\ labels \in [Machine -> [Round -> [Wire -> [lo : Word, hi : Word]]]]
    /\ bools \in [Machine -> [Round -> Bits]]
    /\ digest \in [Machine -> {NoDigest} \cup ([Wire -> Word] \X [Wire -> Word])]
    /\ result \in [Machine -> {"none", "equal", "different"}]
    /\ killed \subseteq Process

\* How many wires a process has stored, and of how many it has stored the bit.
Labelled(p) ==
    IF pc[p] = "store" THEN k[p] - 1 ELSE IF pc[p] \in {"setup", "reduce"} THEN 0 ELSE Wires
Kept(p) ==
    IF pc[p] = "store_bools" THEN k[p] - 1
    ELSE IF pc[p] \in {"setup", "reduce", "store"} THEN 0 ELSE Wires

\* A process that lives, or has returned, has stored the wires it has passed.
StoredBy(p) ==
    LET m == p[1]  r == RoundOf(p) IN
    pc[p] \notin {"killed", "failed"} =>
        /\ pc[p] \in {"setup", "reduce"} => k[p] = 1
        /\ pc[p] = "store_bools" => ~IsGenerator(p)
        /\ \A i \in 1..Labelled(p) : labels[m][r][i] = Words(r, i, IsGenerator(p))
        /\ ~IsGenerator(p) => \A i \in 1..Kept(p) : bools[m][r][i] = v[r][i]
StoredUpTo == \A p \in Process : StoredBy(p)

\* What is in memory is there because its process stored it, in that order.
MemoryOf(p) ==
    LET m == p[1]  r == RoundOf(p) IN
    /\ \A i \in Wire : labels[m][r][i] \in {[lo |-> Zero, hi |-> Zero], Words(r, i, IsGenerator(p))}
    /\ \A i \in Wire : bools[m][r][i] \in {Fresh[i], IF IsGenerator(p) THEN Fresh[i] ELSE v[r][i]}
    /\ (\E i \in Wire : bools[m][r][i] # Fresh[i]) =>
           \A i \in Wire : labels[m][r][i] = Words(r, i, FALSE)
OnlyStored == \A p \in Process : MemoryOf(p)

\* A parent that goes on does so after its child, and what it has hashed is
\* still what is in memory.
ChildFirst ==
    \A m \in Machine :
        /\ pc[Parent(m)] \in {"apply", "check", "exited"} => pc[Child(m)] \in Ended
        /\ pc[Parent(m)] \in {"check", "exited"} => digest[m] = Hashed(m)
        /\ result[m] # "none" =>
              /\ \A c \in Machine : pc[Parent(c)] = "exited"
              /\ result[m] = IF digest["A"] = digest["B"] THEN "equal" ELSE "different"

\* Without a kill no process is lost.
Lost == \A p \in Process : pc[p] \in {"killed", "failed"} => killed # {}
-----------------------------------------------------------------------------
(* Properties.                                                               *)

\* Safety: the check says "equal" only of executions that have computed the
\* same list, although the parents go on after a child was lost
\* (reducer_eq.cpp:311-319).  The exception, when both children were lost,
\* is the list that shared memory nobody stored reads like.
EqualMeansEqual ==
    \A m \in Machine : result[m] = "equal" =>
        \/ v[1] = v[2]
        \/ v[1] = Fresh /\ \A c \in Machine : pc[Child(c)] \in {"killed", "failed"}

\* Safety: executions that agree are found equal when no process is lost: the
\* words and bits that four processes keep, two of them in shared memory, fit
\* together (reducer_eq.cpp:117-150 and 346-369).
AgreementIsSeen ==
    killed = {} /\ v[1] = v[2] => \A m \in Machine : result[m] # "different"

\* Liveness: once the executions are set up, a lost child does not keep the
\* parents from their check.
CheckCompletes ==
    ((\A p \in Process : pc[p] # "setup") /\ killed \subseteq {Child(m) : m \in Machine})
        ~> ((\A m \in Machine : result[m] # "none") \/ \E m \in Machine : Parent(m) \in killed)

\* Invariant: memory holds what its process has stored, or nothing, and the
\* parents check nothing that may still change (reducer_eq.cpp:131-157, 311-370).
IInv == TypeOK /\ StoredUpTo /\ OnlyStored /\ ChildFirst /\ Lost
=============================================================================
