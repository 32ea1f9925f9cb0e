--------------------------- MODULE ShmPipeProofs ----------------------------
(* What TLAPS proves of ShmPipe, for lists of every length, every capacity   *)
(* of the segment and every number of runs, interrupted anywhere.            *)
EXTENDS ShmPipe, SequenceTheorems, TLAPS

\* The invariant about a run that starts without an unconsumed post.
FreshInv == fresh = 1 => NotPosted \/ Posted

\* A list that can be sent has at least one cell, and its cells are values.
LEMMA SizePos == TypeOK => Size \in Nat /\ Size > 0 /\ list \in Seq(Values)
  BY PipeAssumption DEF TypeOK, Size

\* The first run starts with no names at all.
LEMMA InitInv == Init => IInv
  <1> SUFFICES ASSUME Init PROVE IInv
    OBVIOUS
  <1>1. TypeOK
    BY PipeAssumption DEF Init, TypeOK, Run, Size
  <1>2. NotPosted
    BY PipeAssumption DEF Init, NotPosted, Waiting, Run
  <1>3. QED
    BY <1>1, <1>2 DEF IInv, Opened, Unmade, Init, TypeOK

\* Every step keeps the types.
LEMMA StepType == TypeOK /\ Opened /\ [Next]_vars => TypeOK' /\ Opened'
  <1> SUFFICES ASSUME TypeOK, Opened, [Next]_vars PROVE TypeOK' /\ Opened'
    OBVIOUS
  <1>0. Size \in Nat /\ Size > 0 /\ list \in Seq(Values)
    BY SizePos
  <1> USE PipeAssumption DEF TypeOK, Opened, Run, thisRun, names, objs, snd, rcv
  <1>1. CASE OpenOrCreateSegment
    BY <1>1 DEF OpenOrCreateSegment, Size
  <1>2. CASE FindOrConstruct
    BY <1>2 DEF FindOrConstruct, Size
  <1>3. CASE Resize
    <2>1. sseg \in Run
      BY <1>3 DEF Resize
    <2>2. /\ [i \in 1..Size |-> IF i <= Len(vec[sseg]) THEN vec[sseg][i] ELSE Zero] \in Seq(Values)
          /\ Len([i \in 1..Size |-> IF i <= Len(vec[sseg]) THEN vec[sseg][i] ELSE Zero]) = Size
      BY <1>0, <2>1
    <2>3. vec' \in [Run -> Seq(Values)] /\ (spc' = "write" => Len(vec'[sseg]) = Size)
      BY <1>3, <2>1, <2>2 DEF Resize
    <2>4. QED
      BY <1>3, <2>3 DEF Resize, Size
  <1>4. CASE WriteCell
    <2>1. sseg \in Run /\ list[Size + 1 - k] \in Values /\ k \in 1..Len(vec[sseg])
      BY <1>0, <1>4 DEF WriteCell, Size
    <2>2. vec' = [vec EXCEPT ![sseg] = [vec[sseg] EXCEPT ![k] = list[Size + 1 - k]]]
      BY <1>4, <2>1 DEF WriteCell
    <2>3. /\ [vec[sseg] EXCEPT ![k] = list[Size + 1 - k]] \in Seq(Values)
          /\ Len([vec[sseg] EXCEPT ![k] = list[Size + 1 - k]]) = Len(vec[sseg])
      BY <2>1, ExceptSeq
    <2>4. vec' \in [Run -> Seq(Values)] /\ Len(vec'[sseg]) = Size
      BY <1>4, <2>1, <2>2, <2>3 DEF WriteCell
    <2>5. k' \in 1..Size
      BY <1>0, <1>4 DEF WriteCell
    <2>6. QED
      BY <1>4, <2>4, <2>5 DEF WriteCell, Size
  <1>5. CASE OpenOrCreateSemaphore
    BY <1>5 DEF OpenOrCreateSemaphore, Size
  <1>6. CASE Post
    BY <1>6 DEF Post, Size
  <1>7. CASE OpenSemaphore
    BY <1>7 DEF OpenSemaphore, Size
  <1>8. CASE Wait
    BY <1>8 DEF Wait, Size
  <1>9. CASE OpenSegment
    BY <1>9 DEF OpenSegment, Size
  <1>10. CASE Find
    BY <1>10 DEF Find, Size
  <1>11. CASE CopyCell
    BY <1>11 DEF CopyCell, Size
  <1>12. CASE RemoveSegment
    BY <1>12 DEF RemoveSegment, Size
  <1>13. CASE RemoveSemaphore
    BY <1>13 DEF RemoveSemaphore, Size
  <1>14. CASE NextRun
    BY <1>14 DEF NextRun, StartProcesses, Size
  <1>15. CASE UNCHANGED vars
    BY <1>15 DEF vars, Size
  <1>16. QED
    BY <1>1, <1>2, <1>3, <1>4, <1>5, <1>6, <1>7, <1>8, <1>9, <1>10, <1>11, <1>12, <1>13, <1>14, <1>15
       DEF Next, SenderStep, ReceiverStep

\* A process posts and waits only on semaphores that were made, so the next
\* run's semaphore starts without posts.
LEMMA StepUnmade == TypeOK /\ Unmade /\ [Next]_vars => Unmade'
  <1> SUFFICES ASSUME TypeOK, Unmade, [Next]_vars PROVE Unmade'
    OBVIOUS
  <1> USE PipeAssumption DEF TypeOK, Unmade, Run, thisRun, names, objs, snd, rcv
  <1>1. CASE Post
    BY <1>1 DEF Post
  <1>2. CASE Wait
    BY <1>2 DEF Wait
  <1>3. CASE NextRun
    BY <1>3 DEF NextRun
  <1>4. ASSUME UNCHANGED <<run, count>> PROVE Unmade'
    BY <1>4
  <1>5. QED
    BY <1>1, <1>2, <1>3, <1>4
       DEF Next, SenderStep, ReceiverStep, vars, OpenOrCreateSegment, FindOrConstruct, Resize, WriteCell,
           OpenOrCreateSemaphore, OpenSemaphore, OpenSegment, Find, CopyCell, RemoveSegment, RemoveSemaphore

\* Every step of the sender keeps the promise of a fresh run.  It starts with
\* no post made, because after the post the sender has returned.
LEMMA SenderFresh == IInv /\ fresh = 1 /\ SenderStep => (NotPosted \/ Posted)'
  <1> SUFFICES ASSUME IInv, fresh = 1, SenderStep PROVE (NotPosted \/ Posted)'
    OBVIOUS
  <1>0. TypeOK /\ Opened /\ Size \in Nat /\ Size > 0 /\ list \in Seq(Values)
    BY SizePos DEF IInv
  <1>1. NotPosted
    BY DEF IInv, Posted, SenderStep, OpenOrCreateSegment, FindOrConstruct, Resize, WriteCell,
           OpenOrCreateSemaphore, Post
  <1> USE DEF thisRun, names, objs, snd, rcv
  <1>2. CASE OpenOrCreateSegment
    BY <1>0, <1>1, <1>2 DEF OpenOrCreateSegment, NotPosted, Waiting, Size, TypeOK
  <1>3. CASE FindOrConstruct
    BY <1>0, <1>1, <1>3 DEF FindOrConstruct, NotPosted, Waiting, Size, TypeOK
  <1>4. CASE Resize
    <2>1. k = 1 /\ k' = k
      BY <1>0, <1>4 DEF Resize, Opened
    <2>2. Written(k - 1)' /\ Size' = Size
      BY <1>4, <2>1 DEF Resize, Written, Size
    <2>3. CASE Size <= Capacity
      BY <1>1, <1>4, <2>2, <2>3 DEF Resize, NotPosted, Waiting
    <2>4. CASE ~(Size <= Capacity)
      BY <1>0, <1>1, <1>4, <2>2, <2>4, PipeAssumption DEF Resize, NotPosted, Waiting
    <2>5. QED
      BY <2>3, <2>4
  <1>5. CASE WriteCell
    <2>1. sseg \in Run /\ k \in 1..Size /\ Len(vec[sseg]) = Size /\ vec[sseg] \in Seq(Values)
      BY <1>0, <1>5, PipeAssumption DEF WriteCell, TypeOK, Opened, Run
    <2>2. vec'[sseg] = [vec[sseg] EXCEPT ![k] = list[Size + 1 - k]]
      BY <1>0, <1>5, <2>1 DEF WriteCell, TypeOK
    <2>3. \A i \in 1..k : vec'[sseg][i] = list[Size + 1 - i]
      BY <1>0, <1>1, <1>5, <2>1, <2>2 DEF WriteCell, NotPosted, Written
    <2>4. Len(vec'[sseg]) = Size
      BY <1>0, <2>1, <2>2, ExceptSeq
    <2>5. Size' = Size /\ sseg' = sseg /\ list' = list /\ constructed' = constructed
      BY <1>5 DEF WriteCell, Size
    <2>6. CASE k < Size
      <3>1. Written(k - 1)'
        <4>1. k' - 1 = k
          BY <1>5, <2>1, <2>6 DEF WriteCell
        <4>2. QED
          BY <2>3, <2>5, <4>1 DEF Written
      <3>2. QED
        BY <1>1, <1>5, <2>5, <2>6, <3>1 DEF WriteCell, NotPosted, Waiting
    <2>7. CASE ~(k < Size)
      <3>1. Full'
        <4>1. k = Size /\ sseg \in constructed
          BY <1>0, <1>1, <1>5, <2>1, <2>7 DEF WriteCell, NotPosted
        <4>2. QED
          BY <2>3, <2>4, <2>5, <4>1 DEF Written, Full
      <3>2. QED
        BY <1>1, <1>5, <2>5, <2>7, <3>1 DEF WriteCell, NotPosted, Waiting
    <2>8. QED
      BY <2>6, <2>7
  <1>6. CASE OpenOrCreateSemaphore
    BY <1>0, <1>1, <1>6, PipeAssumption DEF OpenOrCreateSemaphore, NotPosted, Waiting, Size, Written, Full, TypeOK, Run
  <1>7. CASE Post
    <2>1. sem \in Run /\ ssem = sem /\ count[sem] = 0 /\ Full /\ Waiting /\ Size <= Capacity /\ seg = sseg
      BY <1>0, <1>1, <1>7, PipeAssumption DEF Post, NotPosted, TypeOK, Opened, Run
    <2>2. sseg # 0 /\ sem # 0 /\ count'[sem] = 1
      BY <1>0, <1>7, <2>1 DEF Post, TypeOK, Opened, Run
    <2>3. Full' /\ Waiting' /\ Size' = Size
      BY <1>7, <2>1 DEF Post, Full, Written, Waiting, Size
    <2>4. QED
      BY <1>7, <2>1, <2>2, <2>3 DEF Post, Posted, Waiting
  <1>8. QED
    BY <1>2, <1>3, <1>4, <1>5, <1>6, <1>7 DEF SenderStep

\* Every step of the receiver keeps the promise of a fresh run: past the wait,
\* the sender is done and the segment is full.
LEMMA ReceiverFresh == IInv /\ fresh = 1 /\ ReceiverStep => (NotPosted \/ Posted)'
  <1> SUFFICES ASSUME IInv, fresh = 1, ReceiverStep PROVE (NotPosted \/ Posted)'
    OBVIOUS
  <1>0. TypeOK /\ Opened /\ Size \in Nat /\ Size > 0 /\ list \in Seq(Values)
    BY SizePos DEF IInv
  <1>1. NotPosted \/ Posted
    BY DEF IInv
  <1>2. rpc \notin {"open_sem", "wait"} => Posted
    BY <1>1 DEF NotPosted, Waiting
  <1> USE DEF thisRun, names, objs, snd, rcv
  <1>3. CASE OpenSemaphore
    BY <1>0, <1>1, <1>3 DEF OpenSemaphore, NotPosted, Posted, Waiting, Size, Written, Full, TypeOK
  <1>4. CASE Wait
    <2>1. rsem \in Run /\ rsem = sem /\ sem # 0 /\ count[sem] > 0
      <3>1. rpc = "wait" /\ count[rsem] > 0
        BY <1>4 DEF Wait
      <3>2. rsem = sem /\ sem # 0
        BY <1>1, <3>1 DEF NotPosted, Posted, Waiting
      <3>3. QED
        BY <1>0, <3>1, <3>2, PipeAssumption DEF TypeOK, Run
    <2>2. Posted
      BY <1>1, <2>1 DEF NotPosted
    <2>3. count' = [count EXCEPT ![rsem] = @ - 1] /\ count \in [Run -> Nat]
      BY <1>0, <1>4 DEF Wait, TypeOK
    <2>4. count'[sem] = 0
      BY <1>4, <2>1, <2>2, <2>3 DEF Wait, Posted
    <2>5. QED
      BY <1>0, <1>4, <2>1, <2>2, <2>4 DEF Wait, Posted, Waiting, Size, Written, Full
  <1>5. CASE OpenSegment
    BY <1>0, <1>2, <1>5 DEF OpenSegment, Posted, Size, Written, Full, TypeOK
  <1>6. CASE Find
    BY <1>0, <1>2, <1>6 DEF Find, Posted, Size, Written, Full, TypeOK
  <1>7. CASE CopyCell
    <2>1. Posted /\ rpc = "copy"
      BY <1>2, <1>7 DEF CopyCell
    <2>2. Len(got) \in Nat /\ Len(got) < Size /\ got \in Seq(Values)
      BY <1>0, <2>1 DEF TypeOK, Posted
    <2>3. /\ got' = Append(got, list[Size + 1 - (Len(got) + 1)])
      BY <1>0, <1>7, <2>1, <2>2 DEF CopyCell, Posted, Written, Full
    <2>4. Len(got') = Len(got) + 1 /\ \A i \in 1..Len(got') : got'[i] = list[Size + 1 - i]
      BY <1>0, <2>1, <2>2, <2>3 DEF Posted
    <2>5. rpc' = IF Len(got') = Size THEN "remove_seg" ELSE "copy"
      BY <1>7, <2>4 DEF CopyCell
    <2>6. Size' = Size /\ (Full' <=> Full) /\ list' = list
      BY <1>7 DEF CopyCell, Size, Full, Written
    <2>7. QED
      BY <1>0, <1>7, <2>1, <2>2, <2>4, <2>5, <2>6 DEF CopyCell, Posted, Waiting
  <1>8. CASE RemoveSegment
    BY <1>0, <1>2, <1>8 DEF RemoveSegment, Posted, Size, TypeOK
  <1>9. CASE RemoveSemaphore
    BY <1>0, <1>2, <1>9 DEF RemoveSemaphore, Posted, Size, TypeOK
  <1>10. QED
    BY <1>3, <1>4, <1>5, <1>6, <1>7, <1>8, <1>9 DEF ReceiverStep

\* The next run is fresh only if it finds no unconsumed post.
LEMMA NextRunFresh == IInv /\ NextRun /\ fresh' = 1 => NotPosted'
  <1> SUFFICES ASSUME IInv, NextRun, fresh' = 1 PROVE NotPosted'
    OBVIOUS
  <1>1. run \in Nat /\ run + 1 \in Run /\ count[run + 1] = 0
    BY PipeAssumption DEF IInv, TypeOK, NextRun, Unmade, Run
  <1>2. IF sem # 0 THEN count[sem] = 0 ELSE count[run + 1] = 0
    BY <1>1 DEF NextRun
  <1>3. QED
    BY <1>2 DEF NextRun, StartProcesses, NotPosted, Waiting, names, objs

\* The invariant is inductive.
LEMMA StepInv == IInv /\ [Next]_vars => IInv'
  <1> SUFFICES ASSUME IInv, [Next]_vars PROVE IInv'
    OBVIOUS
  <1>1. TypeOK' /\ Opened' /\ Unmade'
    BY StepType, StepUnmade DEF IInv
  <1>2. FreshInv'
    <2>1. CASE SenderStep
      BY <2>1, SenderFresh DEF FreshInv, SenderStep, thisRun, OpenOrCreateSegment, FindOrConstruct,
           Resize, WriteCell, OpenOrCreateSemaphore, Post
    <2>2. CASE ReceiverStep
      BY <2>2, ReceiverFresh DEF FreshInv, ReceiverStep, thisRun, OpenSemaphore, Wait, OpenSegment,
           Find, CopyCell, RemoveSegment, RemoveSemaphore
    <2>3. CASE NextRun
      BY <2>3, NextRunFresh DEF FreshInv
    <2>4. CASE UNCHANGED vars
      BY <2>4 DEF vars, thisRun, names, objs, snd, rcv, FreshInv, IInv, NotPosted, Posted, Waiting,
           Full, Written, Size
    <2>5. QED
      BY <2>1, <2>2, <2>3, <2>4 DEF Next
  <1>3. QED
    BY <1>1, <1>2 DEF IInv, FreshInv

-----------------------------------------------------------------------------
\* In every run that starts without an unconsumed post, the post tells the
\* receiver that the segment is there and full (shared_memory.hpp:54, 70).
THEOREM PipeInductive == SafetySpec => []IInv
  <1>1. QED
    BY InitInv, StepInv, PTL DEF SafetySpec

\* Such a run delivers its own list, reversed, whatever was left behind.
THEOREM DeliveredAlways == SafetySpec => []Delivered
  <1>1. IInv => Delivered
    <2> SUFFICES ASSUME IInv, fresh = 1, Len(got) = Size
                 PROVE \A i \in 1..Size : got[i] = list[Size + 1 - i]
      BY DEF Delivered
    <2>1. Size > 0 /\ Size \in Nat
      BY SizePos DEF IInv
    <2>2. ~NotPosted
      BY <2>1 DEF NotPosted, Waiting
    <2>3. QED
      BY <2>2 DEF IInv, Posted
  <1>2. QED
    BY <1>1, PipeInductive, PTL

\* A receiver that returns in such a run leaves no name behind.
THEOREM CleansUpAlways == SafetySpec => []CleansUp
  <1>1. IInv => CleansUp
    BY DEF IInv, CleansUp, NotPosted, Waiting, Posted
  <1>2. QED
    BY <1>1, PipeInductive, PTL
=============================================================================
