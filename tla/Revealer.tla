------------------------------ MODULE Revealer ------------------------------
(***************************************************************************)
(* The DualEx reveal protocol: class dualex::Revealer and fork_and_setup    *)
(* (include/dualex_reveal.hpp, lines 187-914).                              *)
(*                                                                          *)
(* Two machines run the same program twice: in execution e the garbler is   *)
(* on machine e and the non-garbler on the other one.  So each machine has  *)
(* a garbler process, a non-garbler process and, per Revealer, an           *)
(* equality-checker process that talks to the checker of the other machine. *)
(* Processes of one machine exchange data only by SwappableRam::swap();     *)
(* module SwappableRam shows that this is an atomic exchange, so it is one  *)
(* joint action here.  The two processes of an execution, and the two       *)
(* checkers of a Revealer, meet in io->sync() and in the circuits they      *)
(* evaluate together, which are joint actions too.                          *)
(***************************************************************************)
EXTENDS Naturals, Sequences

CONSTANTS Revealers,   \* the Revealer objects a program makes before the fork
          EqGarbler,   \* EqGarbler[r]: the machine whose checker for r garbles
          Values,      \* what a reveal can reveal
          Programs,    \* the programs: for each place, the calls of Revealer's methods
                       \* it may make there
          MaxCalls,    \* bound: the longest program
          None         \* nothing there: no bits, no labels, no output

Machine == {"LEFT", "RIGHT"}
Role    == {"garbler", "non_garbler"}
Process == Machine \X Role

\* Every call there is.  The two executions of a reveal may compute different
\* values, val[e] in execution e: that is what the equality check is for.
AllCalls ==
    [op : {"reveal"}, r : Revealers, side : Machine \cup {"BOTH"}, val : [Machine -> Values]]
    \cup [op : {"results", "stop"}, r : Revealers]

ASSUME RevealerAssumption ==
    /\ EqGarbler \in [Revealers -> Machine]
    /\ Programs \subseteq Seq(SUBSET AllCalls)
    /\ MaxCalls \in Nat /\ \A prog \in Programs : Len(prog) <= MaxCalls

VARIABLES
    script,       \* the calls the program has made so far, the same in all four processes
    pc,           \* pc[p]: where process p is inside its current call
    ret,          \* ret[p]: what the finished calls of p returned, and output
    ready,        \* ready[r][p]: ready_to_request_eq_check
    in_progress,  \* in_progress[r][p]: eq_check_in_progress
    nonce,        \* nonce[r][p]: how often nonce[3] was incremented
    wants,        \* wants[r][p]: the two patches of (non_)garbler_wants_eq_check
    labels,       \* labels[r][p]: the two patches of (non_)garbler_labels
    bools,        \* bools[r][m]: the two patches of non_garbler_bools
    result,       \* result[r][p]: the two patches of (non_)garbler_eq_check_result
    value,        \* value[r][m]: the two patches of revealed_value
    eqpc          \* eqpc[r][m]: where the checker of machine m is

vars == <<script, pc, ret, ready, in_progress, nonce, wants, labels, bools, result, value, eqpc>>
procVars == <<ready, in_progress, nonce>>
ramVars  == <<wants, labels, bools, result, value>>

Other(m)    == IF m = "LEFT" THEN "RIGHT" ELSE "LEFT"
garbler(m)  == <<m, "garbler">>
nonGarbler(m) == <<m, "non_garbler">>

\* The execution a process takes part in, named by the garbler's machine.
Exec(p) == IF p[2] = "garbler" THEN p[1] ELSE Other(p[1])

\* The call process p is in, or has last begun.
Call(p) == script[Len(ret[p]) + 1]

-----------------------------------------------------------------------------
(* A SwappableRam as its two patches: mine is the patch of the DualEx        *)
(* process (of the non-garbler for revealed_value), theirs the other side's. *)

Patches(x) == [mine |-> x, theirs |-> x]
Swapped(ram) == [mine |-> ram.theirs, theirs |-> ram.mine]

-----------------------------------------------------------------------------
(* What the circuits compute.                                                *)

\* The bits Bob sees: the value, encrypted under the secret and the nonce of
\* the machine it is revealed to unless it is revealed to both.
Plain(v)          == [key |-> None, iv |-> 0, val |-> v]
Encrypted(m, i, v) == [key |-> m, iv |-> i, val |-> v]

\* get_labels() of the garbler: both labels of each wire; of the non-garbler:
\* the label it holds, which stands for one bit string.
GarblerLabels(e, k)  == [exec |-> e, call |-> k]
HeldLabels(e, k, b)  == [exec |-> e, call |-> k, bits |-> b]

\* apply_labels(): of each wire's label, the half the bools select.
Applied(l, b) ==
    IF "bits" \in DOMAIN l
    THEN [exec |-> l.exec, call |-> l.call, bits |-> l.bits, half |-> b]
    ELSE [exec |-> l.exec, call |-> l.call, bits |-> b, half |-> b]

HashMeSameOrder(r, m) ==     \* mutant: both checkers put their garbler first
    LET b == bools[r][m].theirs
    IN  <<Applied(labels[r][garbler(m)].theirs, b), Applied(labels[r][nonGarbler(m)].theirs, b)>>

\* hashMe on machine m, as the two halves that apply_labels() fills: the
\* garbling checker puts the labels of its own garbler first, the other one
\* the labels of its own non-garbler.
hashMe(r, m) ==
    LET b     == bools[r][m].theirs
        big   == Applied(labels[r][garbler(m)].theirs, b)
        small == Applied(labels[r][nonGarbler(m)].theirs, b)
    IN  IF m = EqGarbler[r] THEN <<big, small>> ELSE <<small, big>>

-----------------------------------------------------------------------------
NoRequest == [want_reveal |-> FALSE, reveal_side |-> None]

\* After fork_and_setup: every process has chosen its sides, shared memory is zero.
Init ==
    /\ script = <<>>
    /\ pc  = [p \in Process |-> "idle"]
    /\ ret = [p \in Process |-> <<>>]
    /\ ready       = [r \in Revealers |-> [p \in Process |-> TRUE]]
    /\ in_progress = [r \in Revealers |-> [p \in Process |-> FALSE]]
    /\ nonce       = [r \in Revealers |-> [p \in Process |-> 0]]
    /\ wants  = [r \in Revealers |-> [p \in Process |-> Patches(NoRequest)]]
    /\ labels = [r \in Revealers |-> [p \in Process |-> Patches(None)]]
    /\ bools  = [r \in Revealers |-> [m \in Machine |-> Patches(None)]]
    /\ result = [r \in Revealers |-> [p \in Process |-> Patches(FALSE)]]
    /\ value  = [r \in Revealers |-> [m \in Machine |-> Patches(None)]]
    /\ eqpc   = [r \in Revealers |-> [m \in Machine |-> "setup"]]

-----------------------------------------------------------------------------
(* The program.  All four processes run the same code, so they make the same *)
(* sequence of calls; the first process to get there decides what the next   *)
(* call is.                                                                  *)

Goto(p, l) == pc' = [pc EXCEPT ![p] = l]

\* A call of p returns ok, with out written to the caller's memory.
Return(p, ok, out) ==
    /\ ret' = [ret EXCEPT ![p] = Append(@, [ok |-> ok, out |-> out])]
    /\ Goto(p, "idle")

Decide(prog) ==
    /\ Len(script) < Len(prog)
    /\ \A k \in 1..Len(script) : script[k] \in prog[k]
    /\ \E p \in Process : pc[p] = "idle" /\ Len(ret[p]) = Len(script)
    /\ \E c \in prog[Len(script) + 1] : script' = Append(script, c)
    /\ UNCHANGED <<pc, ret, procVars, ramVars, eqpc>>

RevealSyncsOnOneSide(p) ==   \* mutant: only the side that knows the nonce syncs
    LET r == Call(p).r IN
    /\ Call(p).op = "reveal"
    /\ IF Call(p).side # p[1]
       THEN Goto(p, "bools") /\ UNCHANGED nonce
       ELSE Goto(p, "encrypt") /\ nonce' = [nonce EXCEPT ![r][p] = @ + 1]
    /\ UNCHANGED <<ret, ready, in_progress, ramVars>>

\* reveal(), to its first sync: a value for one machine only is encrypted in
\* circuit first, with a fresh nonce.
reveal(p) ==
    LET r == Call(p).r IN
    /\ Call(p).op = "reveal"
    /\ IF Call(p).side = "BOTH"
       THEN Goto(p, "bools") /\ UNCHANGED nonce
       ELSE Goto(p, "encrypt") /\ nonce' = [nonce EXCEPT ![r][p] = @ + 1]
    /\ UNCHANGED <<ret, ready, in_progress, ramVars>>

\* get_eq_check_results(), to its swap.
get_eq_check_results(p) ==
    /\ Call(p).op = "results"
    /\ IF in_progress[Call(p).r][p]
       THEN Goto(p, "result") /\ UNCHANGED ret
       ELSE Return(p, FALSE, None)
    /\ UNCHANGED <<procVars, ramVars>>

StopWritesABool(p) ==        \* mutant: the whole request is overwritten
    LET r == Call(p).r IN
    /\ Call(p).op = "stop"
    /\ IF ready[r][p]
       THEN /\ ready'       = [ready EXCEPT ![r][p] = FALSE]
            /\ in_progress' = [in_progress EXCEPT ![r][p] = FALSE]
            /\ wants' = [wants EXCEPT ![r][p].mine = [want_reveal |-> FALSE]]
            /\ Goto(p, "want")
            /\ UNCHANGED ret
       ELSE /\ Return(p, FALSE, None)
            /\ UNCHANGED <<ready, in_progress, wants>>
    /\ UNCHANGED <<nonce, labels, bools, result, value>>

StopOnGarblerOnly(p) ==      \* mutant: the non-garbler stops without its swap
    LET r == Call(p).r IN
    /\ Call(p).op = "stop"
    /\ IF ready[r][p]
       THEN /\ ready'       = [ready EXCEPT ![r][p] = FALSE]
            /\ in_progress' = [in_progress EXCEPT ![r][p] = FALSE]
            /\ wants' = [wants EXCEPT ![r][p].mine.want_reveal = FALSE]
            /\ IF p[2] = "garbler" THEN Goto(p, "want") /\ UNCHANGED ret
               ELSE Return(p, TRUE, None)
       ELSE /\ Return(p, FALSE, None)
            /\ UNCHANGED <<ready, in_progress, wants>>
    /\ UNCHANGED <<nonce, labels, bools, result, value>>

\* stop_eq_checker(), to its swap: only want_reveal of the request is written.
stop_eq_checker(p) ==
    LET r == Call(p).r IN
    /\ Call(p).op = "stop"
    /\ IF ready[r][p]
       THEN /\ ready'       = [ready EXCEPT ![r][p] = FALSE]
            /\ in_progress' = [in_progress EXCEPT ![r][p] = FALSE]
            /\ wants' = [wants EXCEPT ![r][p].mine.want_reveal = FALSE]
            /\ Goto(p, "want")
            /\ UNCHANGED ret
       ELSE /\ Return(p, FALSE, None)
            /\ UNCHANGED <<ready, in_progress, wants>>
    /\ UNCHANGED <<nonce, labels, bools, result, value>>

Begin(p) ==
    /\ pc[p] = "idle" /\ Len(ret[p]) < Len(script)
    /\ reveal(p) \/ get_eq_check_results(p) \/ stop_eq_checker(p)
    /\ UNCHANGED <<script, eqpc>>

-----------------------------------------------------------------------------
(* reveal(), from its first sync to request_eq_check().                      *)

\* p outputs the value: it is revealed to both machines or to this one.
Outputs(p) == Call(p).side \in {"BOTH", p[1]}

\* What the non-garbler p finds in its bools: encrypted with the nonce of the
\* machine the value is for, which in each execution has one of the two processes.
RevealedBits(p, partner) ==
    LET v == Call(p).val[Exec(p)]
        owner == IF Call(p).side = p[1] THEN p ELSE partner
    IN  IF Call(p).side = "BOTH" THEN Plain(v)
        ELSE Encrypted(Call(p).side, nonce[Call(p).r][owner], v)

AtSync(p) == pc[p] \in {"encrypt", "bools", "end"}

AfterSync(p) ==
    CASE pc[p] = "encrypt" -> "bools"
      [] pc[p] = "bools"   -> IF Outputs(p) THEN "value" ELSE "end"
      [] pc[p] = "end"     -> "request"

\* io->sync() of execution e.  It pairs whatever syncs the two processes have
\* reached.  Before the one after revealBools() the non-garbler has the bits
\* (and puts the decrypted value in revealed_value when it outputs it).
Sync(e) ==
    LET g == garbler(e)
        n == nonGarbler(Other(e))
        r == Call(n).r
        m == n[1]
    IN
    /\ AtSync(g) /\ AtSync(n)
    /\ pc' = [pc EXCEPT ![g] = AfterSync(g), ![n] = AfterSync(n)]
    /\ IF pc[n] = "bools"
       THEN /\ bools' = [bools EXCEPT ![r][m].mine = RevealedBits(n, g)]
            /\ value' = IF Outputs(n)
                        THEN [value EXCEPT ![r][m].mine = Call(n).val[e]]
                        ELSE value
       ELSE UNCHANGED <<bools, value>>
    /\ UNCHANGED <<script, ret, procVars, wants, labels, result, eqpc>>

SwapValueForgotten(m) ==     \* mutant: revealed_value is read but never swapped
    LET g == garbler(m)
        n == nonGarbler(m)
    IN
    /\ pc[g] = "value" /\ pc[n] = "value"
    /\ pc' = [pc EXCEPT ![g] = "end", ![n] = "end"]
    /\ UNCHANGED <<script, ret, procVars, ramVars, eqpc>>

\* revealed_value->swap(): the garbler gets the value from the non-garbler of
\* its own machine.  (The garbler copies it out after the swap, the
\* non-garbler before: Output.)
SwapValue(m) ==
    LET g == garbler(m)
        n == nonGarbler(m)
        r == Call(n).r
    IN
    /\ pc[g] = "value" /\ pc[n] = "value"
    /\ value' = [value EXCEPT ![r][m] = Swapped(@)]
    /\ pc' = [pc EXCEPT ![g] = "end", ![n] = "end"]
    /\ UNCHANGED <<script, ret, procVars, wants, labels, bools, result, eqpc>>

\* What the current reveal of p has written to the caller's memory: after the
\* swap the value is in the patch the garbler has now.
Output(p) == IF Outputs(p) THEN value[Call(p).r][p[1]].theirs ELSE None

RequestUnchecked(p) ==       \* mutant: ready_to_request_eq_check is not looked at
    LET r == Call(p).r
        k == Len(ret[p]) + 1
        own == IF p[2] = "garbler" THEN GarblerLabels(Exec(p), k)
               ELSE HeldLabels(Exec(p), k, bools[r][p[1]].mine)
    IN
    /\ pc[p] = "request"
    /\ labels' = [labels EXCEPT ![r][p].mine = own]
    /\ ready' = [ready EXCEPT ![r][p] = FALSE]
    /\ wants' = [wants EXCEPT ![r][p].mine = [want_reveal |-> TRUE, reveal_side |-> Call(p).side]]
    /\ Goto(p, "want")
    /\ UNCHANGED <<script, ret, in_progress, nonce, bools, result, value, eqpc>>

RefusalSaysTrue(p) ==        \* mutant: the early return answers true
    LET r == Call(p).r
        k == Len(ret[p]) + 1
        own == IF p[2] = "garbler" THEN GarblerLabels(Exec(p), k)
               ELSE HeldLabels(Exec(p), k, bools[r][p[1]].mine)
    IN
    /\ pc[p] = "request"
    /\ labels' = [labels EXCEPT ![r][p].mine = own]
    /\ IF ready[r][p]
       THEN /\ ready' = [ready EXCEPT ![r][p] = FALSE]
            /\ wants' = [wants EXCEPT ![r][p].mine =
                            [want_reveal |-> TRUE, reveal_side |-> Call(p).side]]
            /\ Goto(p, "want")
            /\ UNCHANGED ret
       ELSE /\ Return(p, TRUE, Output(p))
            /\ UNCHANGED <<ready, wants>>
    /\ UNCHANGED <<script, in_progress, nonce, bools, result, value, eqpc>>

\* get_labels(), then request_eq_check() to its first swap.
request_eq_check(p) ==
    LET r == Call(p).r
        k == Len(ret[p]) + 1
        own == IF p[2] = "garbler" THEN GarblerLabels(Exec(p), k)
               ELSE HeldLabels(Exec(p), k, bools[r][p[1]].mine)
    IN
    /\ pc[p] = "request"
    /\ labels' = [labels EXCEPT ![r][p].mine = own]
    /\ IF ready[r][p]
       THEN /\ ready' = [ready EXCEPT ![r][p] = FALSE]
            /\ wants' = [wants EXCEPT ![r][p].mine =
                            [want_reveal |-> TRUE, reveal_side |-> Call(p).side]]
            /\ Goto(p, "want")
            /\ UNCHANGED ret
       ELSE /\ Return(p, FALSE, Output(p))
            /\ UNCHANGED <<ready, wants>>
    /\ UNCHANGED <<script, in_progress, nonce, bools, result, value, eqpc>>

-----------------------------------------------------------------------------
(* The swaps between a process and the checker of its machine, and the       *)
(* checker's loop begin_eq_check_process().                                  *)

CheckerAt(p, g, n) == eqpc[Call(p).r][p[1]] = IF p[2] = "garbler" THEN g ELSE n
CheckerTo(p, l) == eqpc' = [eqpc EXCEPT ![Call(p).r][p[1]] = l]

\* The checkers set up the equality circuit (three syncs), before any request.
Setup(r) ==
    /\ \A m \in Machine : eqpc[r][m] = "setup"
    /\ eqpc' = [eqpc EXCEPT ![r] = [m \in Machine |-> "g_want"]]
    /\ UNCHANGED <<script, pc, ret, procVars, ramVars>>

\* (non_)garbler_wants_eq_check->swap(); the loop ends when either process of
\* the machine does not want another reveal.
SwapWant(p) ==
    LET r == Call(p).r IN
    /\ pc[p] = "want" /\ CheckerAt(p, "g_want", "n_want")
    /\ wants' = [wants EXCEPT ![r][p] = Swapped(@)]
    /\ IF p[2] = "garbler" THEN CheckerTo(p, "n_want")
       ELSE IF \A q \in {garbler(p[1]), p} : wants'[r][q].theirs.want_reveal
            THEN CheckerTo(p, "g_labels")
            ELSE CheckerTo(p, "done")
    /\ IF Call(p).op = "stop" THEN Return(p, TRUE, None)
       ELSE Goto(p, "labels") /\ UNCHANGED ret
    /\ UNCHANGED <<script, procVars, labels, bools, result, value>>

\* request_eq_check() returns true, and so does the reveal that called it.
Requested(p) ==
    /\ in_progress' = [in_progress EXCEPT ![Call(p).r][p] = TRUE]
    /\ Return(p, TRUE, Output(p))

\* (non_)garbler_labels->swap(): the garbler's last swap of the request.
SwapLabels(p) ==
    /\ pc[p] = "labels" /\ CheckerAt(p, "g_labels", "n_labels")
    /\ labels' = [labels EXCEPT ![Call(p).r][p] = Swapped(@)]
    /\ IF p[2] = "garbler"
       THEN Requested(p) /\ CheckerTo(p, "n_labels")
       ELSE /\ Goto(p, "bools_out") /\ CheckerTo(p, "n_bools")
            /\ UNCHANGED <<ret, in_progress>>
    /\ UNCHANGED <<script, ready, nonce, wants, bools, result, value>>

\* non_garbler_bools->swap(): the non-garbler's last swap of the request.
SwapBools(p) ==
    /\ pc[p] = "bools_out" /\ eqpc[Call(p).r][p[1]] = "n_bools"
    /\ bools' = [bools EXCEPT ![Call(p).r][p[1]] = Swapped(@)]
    /\ Requested(p) /\ CheckerTo(p, "hash")
    /\ UNCHANGED <<script, ready, nonce, wants, labels, result, value>>

\* Both checkers hash what they hold and compare the hashes in the maliciously
\* secure circuit; each writes the verdict for both processes of its machine.
EqualityCheck(r) ==
    LET is_equal == hashMe(r, "LEFT") = hashMe(r, "RIGHT") IN
    /\ \A m \in Machine : eqpc[r][m] = "hash"
    /\ result' = [result EXCEPT ![r] = [p \in Process |-> [@[p] EXCEPT !.theirs = is_equal]]]
    /\ eqpc' = [eqpc EXCEPT ![r] = [m \in Machine |-> "g_result"]]
    /\ UNCHANGED <<script, pc, ret, procVars, wants, labels, bools, value>>

SwapResultStaysBusy(p) ==    \* mutant: only the garbler becomes ready again
    LET r == Call(p).r IN
    /\ pc[p] = "result" /\ CheckerAt(p, "g_result", "n_result")
    /\ result'      = [result EXCEPT ![r][p] = Swapped(@)]
    /\ in_progress' = [in_progress EXCEPT ![r][p] = FALSE]
    /\ ready'       = [ready EXCEPT ![r][p] = p[2] = "garbler"]
    /\ Return(p, result'[r][p].mine, None)
    /\ CheckerTo(p, IF p[2] = "garbler" THEN "n_result" ELSE "g_want")
    /\ UNCHANGED <<script, nonce, wants, labels, bools, value>>

\* (non_)garbler_eq_check_result->swap() and the end of get_eq_check_results().
SwapResult(p) ==
    LET r == Call(p).r IN
    /\ pc[p] = "result" /\ CheckerAt(p, "g_result", "n_result")
    /\ result'      = [result EXCEPT ![r][p] = Swapped(@)]
    /\ in_progress' = [in_progress EXCEPT ![r][p] = FALSE]
    /\ ready'       = [ready EXCEPT ![r][p] = TRUE]
    /\ Return(p, result'[r][p].mine, None)
    /\ CheckerTo(p, IF p[2] = "garbler" THEN "n_result" ELSE "g_want")
    /\ UNCHANGED <<script, nonce, wants, labels, bools, value>>

-----------------------------------------------------------------------------
ProcessStep(p) ==
    Begin(p) \/ request_eq_check(p) \/ SwapWant(p) \/ SwapLabels(p) \/ SwapBools(p) \/ SwapResult(p)

Step ==
    \/ \E p \in Process : ProcessStep(p)
    \/ \E m \in Machine : Sync(m) \/ SwapValue(m)
    \/ \E r \in Revealers : Setup(r) \/ EqualityCheck(r)

Next == Step \/ \E prog \in Programs : Decide(prog)

\* Every process runs on; only what the program will call next, if anything,
\* is left open.  A call is finitely many steps and a step that is enabled stays
\* so until it is taken, so fairness of all steps together is fairness of each.
Fairness == WF_vars(Step)

Spec == Init /\ [][Next]_vars /\ Fairness
-----------------------------------------------------------------------------
(* Properties.                                                               *)

Bits  == {Plain(v) : v \in Values}
         \cup {Encrypted(m, i, v) : m \in Machine, i \in 1..MaxCalls, v \in Values}
Label == [exec : Machine, call : 1..MaxCalls] \cup [exec : Machine, call : 1..MaxCalls, bits : Bits]
PatchesOf(S) == [mine : S, theirs : S]
Request == [want_reveal : BOOLEAN, reveal_side : Machine \cup {"BOTH", None}]

\* Type invariant.
TypeOK ==
    /\ script \in Seq(AllCalls) /\ Len(script) <= MaxCalls
    /\ pc \in [Process -> {"idle", "encrypt", "bools", "value", "end", "request",
                           "want", "labels", "bools_out", "result"}]
    /\ ret \in [Process -> Seq([ok : BOOLEAN, out : Values \cup {None}])]
    /\ ready \in [Revealers -> [Process -> BOOLEAN]]
    /\ in_progress \in [Revealers -> [Process -> BOOLEAN]]
    /\ nonce  \in [Revealers -> [Process -> 0..MaxCalls]]
    /\ wants  \in [Revealers -> [Process -> PatchesOf(Request)]]
    /\ labels \in [Revealers -> [Process -> PatchesOf(Label \cup {None})]]
    /\ bools  \in [Revealers -> [Machine -> PatchesOf(Bits \cup {None})]]
    /\ result \in [Revealers -> [Process -> PatchesOf(BOOLEAN)]]
    /\ value  \in [Revealers -> [Machine -> PatchesOf(Values \cup {None})]]
    /\ eqpc   \in [Revealers -> [Machine -> {"setup", "g_want", "n_want", "g_labels", "n_labels",
                                            "n_bools", "hash", "g_result", "n_result", "done"}]]

\* Safety: io->sync() only ever pairs the same sync of the same reveal; sync()
\* carries no tag, so a pair that is off by one would exchange garbled tables
\* of different circuits (reveal(), dualex_reveal.hpp:740-779).
SyncAligned ==
    \A e \in Machine :
        LET g == garbler(e)
            n == nonGarbler(Other(e))
        IN  AtSync(g) /\ AtSync(n) => Len(ret[g]) = Len(ret[n]) /\ pc[g] = pc[n]

Finished(p) == 1..Len(ret[p])
IsCall(k, o, r) == script[k].op = o /\ script[k].r = r

\* The reveals of r whose equality check is under way when p makes call k.
Unchecked(p, k, r) ==
    {j \in 1..(k - 1) : /\ IsCall(j, "reveal", r) /\ ret[p][j].ok
                        /\ \A i \in (j + 1)..(k - 1) : ~IsCall(i, "results", r)}

\* Safety: get_eq_check_results() answers whether the two executions of the
\* reveal just before computed the same value: never the verdict of an earlier
\* reveal left in a patch, of another Revealer or of half-swapped labels.
VerdictMatches ==
    \A p \in Process : \A k \in Finished(p) :
        script[k].op = "results" =>
            ret[p][k].ok = \E j \in Unchecked(p, k, script[k].r) :
                               script[j].val["LEFT"] = script[j].val["RIGHT"]

\* Safety: both processes of a machine output the value that its non-garbler's
\* execution computed in this reveal, not one left over in revealed_value.
OutputsMatch ==
    \A p \in Process : \A k \in Finished(p) :
        script[k].op = "reveal" /\ script[k].side \in {"BOTH", p[1]} =>
            ret[p][k].out = script[k].val[Other(p[1])]

\* Safety: all four processes get the same answer from the same call, so a
\* program that branches on it keeps making the same calls in all of them.
SameReturns ==
    \A p, q \in Process : \A k \in Finished(p) \cap Finished(q) : ret[p][k].ok = ret[q][k].ok

\* Safety: "you must check whether the equality checker got an equal result
\* before performing the next reveal" (dualex_reveal.hpp:200): no reveal
\* succeeds while the check of an earlier one has not been asked for.
CheckedBetween ==
    \A p \in Process : \A k \in Finished(p) :
        script[k].op = "reveal" /\ ret[p][k].ok => Unchecked(p, k, script[k].r) = {}

\* Liveness: whatever calls the program makes, in whatever order, each returns
\* in all four processes: swaps and syncs never wait on each other in a circle.
EveryCallReturns ==
    (\E p \in Process : Len(ret[p]) < Len(script)) ~> (\A p \in Process : Len(ret[p]) = Len(script))

Stopped(p, r) == \E k \in Finished(p) : IsCall(k, "stop", r) /\ ret[p][k].ok

\* Liveness: the checkers end once both processes of each machine have called
\* stop_eq_checker() (dualex_reveal.hpp:244).
CheckersStop ==
    \A r \in Revealers :
        (\A p \in Process : Stopped(p, r)) ~> (\A m \in Machine : eqpc[r][m] = "done")

\* What the notes on request_eq_check() and stop_eq_checker() say: called while
\* a check is under way, they block until its result is asked for
\* (dualex_reveal.hpp:342 and 372).
BlocksUntilChecked ==
    \A p \in Process : \A k \in Finished(p) :
        script[k].op \in {"reveal", "stop"} => Unchecked(p, k, script[k].r) = {}
=============================================================================
