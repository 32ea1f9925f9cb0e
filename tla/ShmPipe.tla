------------------------------ MODULE ShmPipe -------------------------------
(***************************************************************************)
(* sender() and receiver() of include/shared_memory.hpp: one reducer hands  *)
(* a list to another through a named shared memory segment and a named      *)
(* semaphore.  The names outlive the processes, and every run of an         *)
(* experiment (run/node_query_run.sh) uses the same ones; a run ends when   *)
(* its processes have ended or are killed.                                  *)
(*                                                                          *)
(* A name refers to the object made last under it; removing a name leaves   *)
(* the object to those who have it open.  A run makes at most one segment   *)
(* and one semaphore of its own, so an object is named by its run, and 0    *)
(* stands for "no such name".                                               *)
(***************************************************************************)
EXTENDS Naturals, Sequences

CONSTANTS Values,    \* what a cell of a list can be (32 wires of one integer)
          Zero,      \* a cell that resize() has just made
          Lists,     \* the lists a sender may send
          Capacity,  \* how many cells the segment of 655360 bytes has room for
          MaxRuns    \* bound: the number of runs

ASSUME PipeAssumption ==
    /\ Zero \in Values
    /\ Lists \subseteq Seq(Values) \ {<<>>}
    /\ Capacity \in Nat /\ MaxRuns \in Nat \ {0}

Run == 1..MaxRuns

VARIABLES
    run,          \* the current run
    fresh,        \* 1: no unconsumed post was left when it started, 0 otherwise
    list,         \* what the sender of this run sends
    seg, sem,     \* what the two names refer to
    constructed,  \* the segments that hold a SharedData
    vec,          \* vec[k]: its vector
    count,        \* count[k]: the semaphore's count
    spc, sseg, ssem, k,   \* the sender: statement, open objects, next cell to write
    rpc, rsem, rseg, got  \* the receiver: statement, open objects, the cells it has copied

names == <<seg, sem>>
objs  == <<constructed, vec, count>>
snd   == <<spc, sseg, ssem, k>>
rcv   == <<rpc, rsem, rseg, got>>
thisRun == <<run, fresh, list>>
vars  == <<thisRun, names, objs, snd, rcv>>

Size == Len(list)        \* list_size, the same on both sides

-----------------------------------------------------------------------------
StartProcesses ==
    /\ spc' = "open_seg" /\ sseg' = 0 /\ ssem' = 0 /\ k' = 1
    /\ rpc' = "open_sem" /\ rsem' = 0 /\ rseg' = 0 /\ got' = <<>>

Init ==
    /\ run = 1 /\ fresh = 1 /\ list \in Lists
    /\ seg = 0 /\ sem = 0
    /\ constructed = {}
    /\ vec   = [r \in Run |-> <<>>]
    /\ count = [r \in Run |-> 0]
    /\ spc = "open_seg" /\ sseg = 0 /\ ssem = 0 /\ k = 1
    /\ rpc = "open_sem" /\ rsem = 0 /\ rseg = 0 /\ got = <<>>

\* The script starts both processes again, after they have ended or after
\* pkill has stopped them wherever they were.  The names stay.
NextRun ==
    /\ run < MaxRuns
    /\ run' = run + 1
    /\ fresh' = IF sem = 0 THEN 1 ELSE IF count[sem] = 0 THEN 1 ELSE 0
    /\ list' \in Lists
    /\ StartProcesses
    /\ UNCHANGED <<names, objs>>

-----------------------------------------------------------------------------
(* sender()                                                                  *)

\* managed_shared_memory segment(open_or_create, ...)
OpenOrCreateSegment ==
    /\ spc = "open_seg"
    /\ seg'  = IF seg = 0 THEN run ELSE seg
    /\ sseg' = seg'
    /\ spc'  = "construct"
    /\ UNCHANGED <<thisRun, sem, objs, ssem, k, rcv>>

\* segment.find_or_construct<SharedData>("SharedData")
FindOrConstruct ==
    /\ spc = "construct"
    /\ constructed' = constructed \cup {sseg}
    /\ spc' = "resize"
    /\ UNCHANGED <<thisRun, names, vec, count, sseg, ssem, k, rcv>>

\* data->vec.resize(): keeps the cells it finds.  A list that does not fit
\* throws, the exception is caught and sender() returns without a post.
Resize ==
    /\ spc = "resize"
    /\ IF Size <= Capacity
       THEN /\ vec' = [vec EXCEPT ![sseg] = [i \in 1..Size |-> IF i <= Len(@) THEN @[i] ELSE Zero]]
            /\ spc' = "write"
       ELSE spc' = "done" /\ UNCHANGED vec
    /\ UNCHANGED <<thisRun, names, constructed, count, sseg, ssem, k, rcv>>

WriteInOrder ==              \* mutant: the list is not reversed
    /\ spc = "write"
    /\ vec' = [vec EXCEPT ![sseg][k] = list[k]]
    /\ IF k < Size THEN k' = k + 1 /\ UNCHANGED spc ELSE spc' = "open_sem" /\ UNCHANGED k
    /\ UNCHANGED <<thisRun, names, constructed, count, sseg, ssem, rcv>>

\* One cell of the loop, "in reverse order".
WriteCell ==
    /\ spc = "write"
    /\ vec' = [vec EXCEPT ![sseg][k] = list[Size + 1 - k]]
    /\ IF k < Size THEN k' = k + 1 /\ UNCHANGED spc ELSE spc' = "open_sem" /\ UNCHANGED k
    /\ UNCHANGED <<thisRun, names, constructed, count, sseg, ssem, rcv>>

\* named_semaphore semaphore(open_or_create, ..., 0)
OpenOrCreateSemaphore ==
    /\ spc = "open_sem"
    /\ sem'  = IF sem = 0 THEN run ELSE sem
    /\ ssem' = sem'
    /\ spc'  = "post"
    /\ UNCHANGED <<thisRun, seg, objs, sseg, k, rcv>>

PostForgotten ==             \* mutant: the semaphore is made but not posted
    /\ spc = "post"
    /\ spc' = "done"
    /\ UNCHANGED <<thisRun, names, objs, sseg, ssem, k, rcv>>

\* semaphore.post(), and sender() returns
Post ==
    /\ spc = "post"
    /\ count' = [count EXCEPT ![ssem] = @ + 1]
    /\ spc' = "done"
    /\ UNCHANGED <<thisRun, names, constructed, vec, sseg, ssem, k, rcv>>

SenderStep ==
    \/ OpenOrCreateSegment \/ FindOrConstruct \/ Resize \/ WriteCell
    \/ OpenOrCreateSemaphore \/ Post

-----------------------------------------------------------------------------
(* receiver()                                                                *)

\* named_semaphore semaphore(open_only, ...): while there is no such name the
\* exception is caught and the loop tries again.
OpenSemaphore ==
    /\ rpc = "open_sem" /\ sem # 0
    /\ rsem' = sem
    /\ rpc'  = "wait"
    /\ UNCHANGED <<thisRun, names, objs, snd, rseg, got>>

WaitDoesNotWait ==           \* mutant: try_wait() instead of wait()
    /\ rpc = "wait"
    /\ count' = [count EXCEPT ![rsem] = IF @ > 0 THEN @ - 1 ELSE @]
    /\ rpc' = "open_seg"
    /\ UNCHANGED <<thisRun, names, constructed, vec, snd, rsem, rseg, got>>

\* semaphore.wait()
Wait ==
    /\ rpc = "wait" /\ count[rsem] > 0
    /\ count' = [count EXCEPT ![rsem] = @ - 1]
    /\ rpc' = "open_seg"
    /\ UNCHANGED <<thisRun, names, constructed, vec, snd, rsem, rseg, got>>

\* managed_shared_memory segment(open_only, ...): without the segment the
\* loop starts again with the semaphore, whose post is used up.
OpenSegment ==
    /\ rpc = "open_seg"
    /\ IF seg = 0 THEN rpc' = "open_sem" /\ UNCHANGED rseg
                  ELSE rpc' = "find" /\ rseg' = seg
    /\ UNCHANGED <<thisRun, names, objs, snd, rsem, got>>

\* segment.find<SharedData>("SharedData"): not found, receiver() returns and
\* removes nothing.
Find ==
    /\ rpc = "find"
    /\ rpc' = IF rseg \in constructed THEN "copy" ELSE "done"
    /\ UNCHANGED <<thisRun, names, objs, snd, rsem, rseg, got>>

\* One cell of the copy; a vector too short is read behind its end.
CopyCell ==
    LET i == Len(got) + 1 IN
    /\ rpc = "copy"
    /\ \E v \in Values :
          /\ i <= Len(vec[rseg]) => v = vec[rseg][i]
          /\ got' = Append(got, v)
    /\ rpc' = IF i = Size THEN "remove_seg" ELSE "copy"
    /\ UNCHANGED <<thisRun, names, objs, snd, rsem, rseg>>

\* shared_memory_object::remove(...)
RemoveSegment ==
    /\ rpc = "remove_seg"
    /\ seg' = 0
    /\ rpc' = "remove_sem"
    /\ UNCHANGED <<thisRun, sem, objs, snd, rsem, rseg, got>>

SemaphoreKept ==             \* mutant: only the segment is removed
    /\ rpc = "remove_sem"
    /\ rpc' = "done"
    /\ UNCHANGED <<thisRun, names, objs, snd, rsem, rseg, got>>

\* named_semaphore::remove(...), and receiver() returns
RemoveSemaphore ==
    /\ rpc = "remove_sem"
    /\ sem' = 0
    /\ rpc' = "done"
    /\ UNCHANGED <<thisRun, seg, objs, snd, rsem, rseg, got>>

ReceiverStep ==
    \/ OpenSemaphore \/ Wait \/ OpenSegment \/ Find \/ CopyCell
    \/ RemoveSegment \/ RemoveSemaphore

Next == SenderStep \/ ReceiverStep \/ NextRun

\* Both processes are scheduled; the receiver spins while it finds no name.
Fairness == WF_vars(SenderStep) /\ WF_vars(ReceiverStep)

SafetySpec == Init /\ [][Next]_vars
Spec       == SafetySpec /\ Fairness
-----------------------------------------------------------------------------
(* The inductive invariant.                                                  *)

TypeOK ==
    /\ run \in Run /\ fresh \in {0, 1} /\ list \in Lists
    /\ seg \in 0..run /\ sem \in 0..run
    /\ constructed \subseteq Run
    /\ vec \in [Run -> Seq(Values)] /\ count \in [Run -> Nat]
    /\ spc \in {"open_seg", "construct", "resize", "write", "open_sem", "post", "done"}
    /\ sseg \in 0..run /\ ssem \in 0..run /\ k \in 1..Size
    /\ rpc \in {"open_sem", "wait", "open_seg", "find", "copy", "remove_seg", "remove_sem", "done"}
    /\ rsem \in 0..run /\ rseg \in 0..run /\ got \in Seq(Values)

\* A process has open what it is about to use, and writes cells there are.
Opened ==
    /\ spc \in {"open_seg", "construct", "resize"} => k = 1
    /\ spc = "write" => Len(vec[sseg]) = Size
    /\ spc # "open_seg" => sseg # 0
    /\ spc = "post" => ssem # 0
    /\ rpc \in {"wait", "open_seg"} => rsem # 0
    /\ rpc \in {"find", "copy"} => rseg # 0

\* A semaphore that no run has made yet has no posts.
Unmade == \A r \in Run : r > run => count[r] = 0

\* The first n cells of the sender's segment hold the list from its end.
Written(n) == \A i \in 1..n : vec[sseg][i] = list[Size + 1 - i]
Full == sseg \in constructed /\ Len(vec[sseg]) = Size /\ Written(Size)

\* The receiver has taken no post yet, and waits for this run's semaphore if any.
Waiting ==
    /\ rpc \in {"open_sem", "wait"} /\ got = <<>>
    /\ rpc = "wait" => sem # 0 /\ rsem = sem

\* The sender has not posted (yet, or because the list did not fit).
NotPosted ==
    /\ spc # "done" \/ Size > Capacity
    /\ Waiting
    /\ IF sem # 0 THEN count[sem] = 0 ELSE count[run] = 0
    /\ spc \in {"construct", "resize", "write", "open_sem", "post"} => seg = sseg
    /\ spc \in {"resize", "write", "open_sem", "post"} => sseg \in constructed
    /\ spc \in {"write", "open_sem", "post"} => Size <= Capacity
    /\ spc = "write" => Written(k - 1)
    /\ spc \in {"open_sem", "post"} => Full
    /\ spc = "post" => ssem = sem

\* The sender is done: what the receiver finds, by where it is.
Posted ==
    /\ spc = "done" /\ Size <= Capacity
    /\ rpc \in {"open_sem", "wait"} => Waiting /\ sem # 0 /\ count[sem] = 1
    /\ rpc \in {"open_seg", "find", "copy", "remove_seg", "remove_sem"} => sem # 0 /\ count[sem] = 0
    /\ rpc \in {"open_sem", "wait", "open_seg", "find", "copy"} => seg # 0 /\ seg = sseg /\ Full
    /\ rpc \in {"open_seg", "find"} => got = <<>>
    /\ rpc \in {"find", "copy"} => rseg = seg
    /\ rpc = "copy" => Len(got) < Size
    /\ rpc \in {"remove_seg", "remove_sem", "done"} => Len(got) = Size
    /\ \A i \in 1..Len(got) : got[i] = list[Size + 1 - i]
    /\ rpc \in {"remove_sem", "done"} => seg = 0
    /\ rpc = "done" => sem = 0

\* Invariant: in a run that starts without an unconsumed post, the semaphore
\* tells the receiver the truth about the segment (shared_memory.hpp:27-110).
IInv == TypeOK /\ Opened /\ Unmade /\ (fresh = 1 => NotPosted \/ Posted)

-----------------------------------------------------------------------------
(* Properties.                                                               *)

\* Safety: what the receiver has copied is the list that this run's sender
\* sends, reversed ("in reverse order", shared_memory.hpp:38), whatever an
\* interrupted run has left, provided it left no unconsumed post.
Delivered ==
    fresh = 1 /\ Len(got) = Size => \A i \in 1..Size : got[i] = list[Size + 1 - i]

\* Safety: a receiver that returns has the whole list and leaves neither name
\* to the next run; the early return of line 80 is never taken in such a run.
CleansUp == fresh = 1 /\ rpc = "done" => Len(got) = Size /\ seg = 0 /\ sem = 0

\* Liveness: in such a run, when the list fits, the receiver returns unless
\* the run is killed: it never waits for a post that was used up.
ReceiverReturns ==
    \A r \in Run : (run = r /\ fresh = 1 /\ Size <= Capacity) ~> (rpc = "done" \/ run # r)
=============================================================================
