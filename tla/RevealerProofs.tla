--------------------------- MODULE RevealerProofs ---------------------------
(* What TLAPS proves of Revealer, for every set of Revealers, values and     *)
(* programs: the calls of a process are answered as if a reveal and the      *)
(* check of it were one at a time, wherever the other processes are. First   *)
(* what follows from the calls alone, then the inductive invariant, what the *)
(* steps of the processes and of the checkers do to it, and the theorems.    *)
EXTENDS Revealer, FiniteSetTheorems, TLAPS

-----------------------------------------------------------------------------
(* What follows from the calls that a program has made of Revealer's methods *)
(* (calls, a sequence of calls) and from what one process was answered (rt,  *)
(* a sequence of returns, no longer than calls).                             *)

Is(c, o, r) == c.op = o /\ c.r = r

\* The reveals of r whose check is under way when call k is made.
Open(calls, rt, k, r) ==
    {j \in 1..(k - 1) : /\ Is(calls[j], "reveal", r) /\ rt[j].ok
                        /\ \A i \in (j + 1)..(k - 1) : ~Is(calls[i], "results", r)}

\* The checker of r was stopped before call k.
Halted(calls, rt, k, r) == \E i \in 1..(k - 1) : Is(calls[i], "stop", r) /\ rt[i].ok

\* Call k is not refused: it goes on to the checker of its Revealer.
Goes(calls, rt, k) ==
    LET r == calls[k].r IN
    IF calls[k].op = "results" THEN Open(calls, rt, k, r) # {}
    ELSE Open(calls, rt, k, r) = {} /\ ~Halted(calls, rt, k, r)

\* The calls of r that went there and have returned.
Done(calls, rt, r) == {j \in 1..Len(rt) : calls[j].r = r /\ Goes(calls, rt, j)}

\* A reveal that is under way computed the same value in both executions.
Equal(calls, rt, k, r) ==
    \E j \in Open(calls, rt, k, r) : calls[j].val["LEFT"] = calls[j].val["RIGHT"]

\* What the answers are.
Replies(calls, rt) ==
    \A k \in 1..Len(rt) :
        /\ calls[k].op # "results" => (rt[k].ok <=> Goes(calls, rt, k))
        /\ calls[k].op = "results" => (rt[k].ok <=> Equal(calls, rt, k, calls[k].r))

\* Two processes were answered the same.
Agree(rt1, rt2) == \A k \in (1..Len(rt1)) \cap (1..Len(rt2)) : rt1[k].ok = rt2[k].ok

\* The same calls and answers before call k.
SameBefore(calls1, rt1, calls2, rt2, k) ==
    \A i \in 1..(k - 1) : calls1[i] = calls2[i] /\ rt1[i].ok = rt2[i].ok

\* The reveals of r to one machine, up to call k.
ToOne(c, r) == Is(c, "reveal", r) /\ c.side # "BOTH"
Count(calls, k, r) == Cardinality({i \in 1..k : ToOne(calls[i], r)})

-----------------------------------------------------------------------------
\* Whether a call goes on depends on what came before it only.
LEMMA OpenSame ==
  ASSUME NEW calls1, NEW rt1, NEW calls2, NEW rt2, NEW k \in Nat, NEW r,
         SameBefore(calls1, rt1, calls2, rt2, k)
  PROVE  /\ Open(calls1, rt1, k, r) = Open(calls2, rt2, k, r)
         /\ Halted(calls1, rt1, k, r) <=> Halted(calls2, rt2, k, r)
         /\ Equal(calls1, rt1, k, r) <=> Equal(calls2, rt2, k, r)
  <1>1. \A i \in 1..(k - 1) : calls1[i] = calls2[i] /\ rt1[i].ok = rt2[i].ok
    BY DEF SameBefore
  <1>2. Open(calls1, rt1, k, r) = Open(calls2, rt2, k, r)
    BY <1>1 DEF Open, Is
  <1>3. Halted(calls1, rt1, k, r) <=> Halted(calls2, rt2, k, r)
    BY <1>1 DEF Halted, Is
  <1>4. \A j \in Open(calls1, rt1, k, r) : j \in 1..(k - 1)
    BY DEF Open
  <1>5. QED
    BY <1>1, <1>2, <1>3, <1>4 DEF Equal

LEMMA GoesSame ==
  ASSUME NEW calls1, NEW rt1, NEW calls2, NEW rt2, NEW k \in Nat,
         SameBefore(calls1, rt1, calls2, rt2, k), calls1[k] = calls2[k]
  PROVE  Goes(calls1, rt1, k) <=> Goes(calls2, rt2, k)
  BY OpenSame DEF Goes

\* What is under way after call k.
LEMMA OpenNext ==
  ASSUME NEW calls, NEW rt, NEW k \in Nat \ {0}, NEW r
  PROVE  /\ Is(calls[k], "results", r) => Open(calls, rt, k + 1, r) = {}
         /\ Is(calls[k], "reveal", r) /\ rt[k].ok =>
               Open(calls, rt, k + 1, r) = Open(calls, rt, k, r) \cup {k}
         /\ ~Is(calls[k], "results", r) /\ ~(Is(calls[k], "reveal", r) /\ rt[k].ok) =>
               Open(calls, rt, k + 1, r) = Open(calls, rt, k, r)
  <1>1. CASE Is(calls[k], "results", r)
    BY <1>1 DEF Open, Is
  <1>2. CASE ~Is(calls[k], "results", r)
    <2>1. \A j \in 1..(k - 1) : j \in Open(calls, rt, k + 1, r) <=> j \in Open(calls, rt, k, r)
      BY <1>2 DEF Open
    <2>2. k \in Open(calls, rt, k + 1, r) <=> Is(calls[k], "reveal", r) /\ rt[k].ok
      BY DEF Open
    <2>3. Open(calls, rt, k + 1, r) \subseteq (1..(k - 1)) \cup {k} /\ Open(calls, rt, k, r) \subseteq 1..(k - 1)
      BY DEF Open
    <2>4. QED
      BY <1>2, <2>1, <2>2, <2>3
  <1>3. QED
    BY <1>1, <1>2 DEF Is

LEMMA HaltedNext ==
  ASSUME NEW calls, NEW rt, NEW k \in Nat \ {0}, NEW r
  PROVE  Halted(calls, rt, k + 1, r) <=>
            Halted(calls, rt, k, r) \/ (Is(calls[k], "stop", r) /\ rt[k].ok)
  BY DEF Halted

\* Counting up to the next call.
LEMMA CountNext ==
  ASSUME NEW calls, NEW k \in Nat, NEW r
  PROVE  /\ Count(calls, k, r) \in 0..k
         /\ Count(calls, k + 1, r) = Count(calls, k, r) + IF ToOne(calls[k + 1], r) THEN 1 ELSE 0
  <1> DEFINE S == {i \in 1..k : ToOne(calls[i], r)}
             S2 == {i \in 1..(k + 1) : ToOne(calls[i], r)}
  <1>1. IsFiniteSet(1..k) /\ Cardinality(1..k) = k
    BY FS_Interval
  <1>2. IsFiniteSet(S) /\ Cardinality(S) \in Nat /\ Cardinality(S) <= k
    BY <1>1, FS_Subset, FS_CardinalityType
  <1>3. k + 1 \notin S
    OBVIOUS
  <1>4. CASE ToOne(calls[k + 1], r)
    <2>1. S2 = S \cup {k + 1}
      BY <1>4
    <2>2. Cardinality(S2) = Cardinality(S) + 1
      BY <1>2, <1>3, <2>1, FS_AddElement
    <2>3. QED
      BY <1>2, <1>4, <2>2 DEF Count
  <1>5. CASE ~ToOne(calls[k + 1], r)
    <2>1. S2 = S
      BY <1>5
    <2>2. QED
      BY <1>2, <1>5, <2>1 DEF Count
  <1>6. QED
    BY <1>4, <1>5

\* The count looks at no later call.
LEMMA CountSame ==
  ASSUME NEW calls1, NEW calls2, NEW k \in Nat, NEW r, \A i \in 1..k : calls1[i] = calls2[i]
  PROVE  Count(calls1, k, r) = Count(calls2, k, r)
  <1>1. {i \in 1..k : ToOne(calls1[i], r)} = {i \in 1..k : ToOne(calls2[i], r)}
    OBVIOUS
  <1>2. QED
    BY <1>1 DEF Count

\* One more answer.
LEMMA ReturnSame ==
  ASSUME NEW T, NEW calls, NEW rt \in Seq(T), NEW x, NEW rt2, rt2 = Append(rt, x)
  PROVE  /\ Len(rt2) = Len(rt) + 1 /\ rt2[Len(rt) + 1] = x /\ Len(rt) \in Nat
         /\ \A i \in 1..Len(rt) : rt2[i] = rt[i]
         /\ \A k \in 1..(Len(rt) + 1) : SameBefore(calls, rt2, calls, rt, k)
  BY DEF SameBefore

LEMMA DoneNext ==
  ASSUME NEW T, NEW calls, NEW rt \in Seq(T), NEW x, NEW rt2, rt2 = Append(rt, x), NEW r,
         NEW k, k = Len(rt) + 1
  PROVE  Done(calls, rt2, r) =
            Done(calls, rt, r) \cup (IF calls[k].r = r /\ Goes(calls, rt, k) THEN {k} ELSE {})
  <1>1. ASSUME NEW l \in 1..(Len(rt) + 1) PROVE Goes(calls, rt2, l) <=> Goes(calls, rt, l)
    <2>1. \A i \in 1..(Len(rt) + 1) : SameBefore(calls, rt2, calls, rt, i)
      BY ReturnSame
    <2>2. SameBefore(calls, rt2, calls, rt, l) /\ l \in Nat
      BY <2>1
    <2>3. QED
      BY <2>2, GoesSame
  <1>2. Len(rt2) = Len(rt) + 1 /\ Len(rt) \in Nat
    BY ReturnSame
  <1>3. QED
    BY <1>1, <1>2 DEF Done

LEMMA RepliesNext ==
  ASSUME NEW T, NEW calls, NEW rt \in Seq(T), NEW x, NEW rt2, rt2 = Append(rt, x), Replies(calls, rt),
         calls[Len(rt) + 1].op # "results" => (x.ok <=> Goes(calls, rt, Len(rt) + 1)),
         calls[Len(rt) + 1].op = "results" =>
            (x.ok <=> Equal(calls, rt, Len(rt) + 1, calls[Len(rt) + 1].r))
  PROVE  Replies(calls, rt2)
  <1>1. Len(rt2) = Len(rt) + 1 /\ rt2[Len(rt) + 1] = x /\ Len(rt) \in Nat
        /\ \A i \in 1..Len(rt) : rt2[i] = rt[i]
    BY ReturnSame
  <1>2. ASSUME NEW k \in 1..(Len(rt) + 1)
        PROVE  /\ Goes(calls, rt2, k) <=> Goes(calls, rt, k)
               /\ Equal(calls, rt2, k, calls[k].r) <=> Equal(calls, rt, k, calls[k].r)
    <2>1. \A i \in 1..(Len(rt) + 1) : SameBefore(calls, rt2, calls, rt, i)
      BY ReturnSame
    <2>2. SameBefore(calls, rt2, calls, rt, k) /\ k \in Nat
      BY <2>1
    <2>3. QED
      BY <2>2, GoesSame, OpenSame
  <1>3. QED
    BY <1>1, <1>2 DEF Replies

\* What the return from call k changes: nothing when it was refused; else what
\* the call was for.
ReturnEffect(calls, rt, rt2, k, r) ==
    /\ ~Goes(calls, rt, k) \/ calls[k].r # r =>
          /\ Open(calls, rt2, k + 1, r) = Open(calls, rt, k, r)
          /\ Halted(calls, rt2, k + 1, r) <=> Halted(calls, rt, k, r)
          /\ Done(calls, rt2, r) = Done(calls, rt, r)
    /\ Goes(calls, rt, k) /\ calls[k].r = r =>
          /\ Done(calls, rt2, r) = Done(calls, rt, r) \cup {k}
          /\ calls[k].op = "reveal" =>
                Open(calls, rt2, k + 1, r) = {k} /\ ~Halted(calls, rt2, k + 1, r)
          /\ calls[k].op = "stop" =>
                Open(calls, rt2, k + 1, r) = {} /\ Halted(calls, rt2, k + 1, r)
          /\ calls[k].op = "results" =>
                /\ Open(calls, rt2, k + 1, r) = {}
                /\ Halted(calls, rt2, k + 1, r) <=> Halted(calls, rt, k, r)

LEMMA ReturnKnown ==
  ASSUME NEW T, NEW calls, NEW rt \in Seq(T), NEW x, NEW rt2, rt2 = Append(rt, x), NEW r,
         NEW k, k = Len(rt) + 1,
         calls[k].op # "results" => (x.ok <=> Goes(calls, rt, k))
  PROVE  ReturnEffect(calls, rt, rt2, k, r)
  <1>1. Len(rt) \in Nat /\ k \in Nat \ {0} /\ rt2[k] = x
    BY ReturnSame
  <1>2. \A i \in 1..(Len(rt) + 1) : SameBefore(calls, rt2, calls, rt, i)
    BY ReturnSame
  <1>3. SameBefore(calls, rt2, calls, rt, k)
    BY <1>1, <1>2
  <1>4. /\ Open(calls, rt2, k, r) = Open(calls, rt, k, r)
        /\ Halted(calls, rt2, k, r) <=> Halted(calls, rt, k, r)
    BY <1>1, <1>3, OpenSame
  <1>5. /\ Is(calls[k], "results", r) => Open(calls, rt2, k + 1, r) = {}
        /\ Is(calls[k], "reveal", r) /\ rt2[k].ok =>
              Open(calls, rt2, k + 1, r) = Open(calls, rt2, k, r) \cup {k}
        /\ ~Is(calls[k], "results", r) /\ ~(Is(calls[k], "reveal", r) /\ rt2[k].ok) =>
              Open(calls, rt2, k + 1, r) = Open(calls, rt2, k, r)
    BY <1>1, OpenNext
  <1>6. Halted(calls, rt2, k + 1, r) <=>
           Halted(calls, rt2, k, r) \/ (Is(calls[k], "stop", r) /\ rt2[k].ok)
    BY <1>1, HaltedNext
  <1>7. /\ calls[k].r = r /\ Goes(calls, rt, k) => Done(calls, rt2, r) = Done(calls, rt, r) \cup {k}
        /\ ~(calls[k].r = r /\ Goes(calls, rt, k)) => Done(calls, rt2, r) = Done(calls, rt, r)
    <2>1. Done(calls, rt2, r) =
             Done(calls, rt, r) \cup (IF calls[k].r = r /\ Goes(calls, rt, k) THEN {k} ELSE {})
      BY DoneNext, ZenonT(40)
    <2>2. QED
      BY <2>1
  <1>8. CASE ~Goes(calls, rt, k) \/ calls[k].r # r
    <2>1. Open(calls, rt2, k + 1, r) = Open(calls, rt, k, r)
      BY <1>1, <1>4, <1>5, <1>8 DEF Goes, Is
    <2>2. Halted(calls, rt2, k + 1, r) <=> Halted(calls, rt, k, r)
      BY <1>1, <1>4, <1>6, <1>8 DEF Is
    <2>3. QED
      BY <1>7, <1>8, <2>1, <2>2 DEF ReturnEffect
  <1>9. CASE Goes(calls, rt, k) /\ calls[k].r = r
    <2>1. calls[k].op # "results" => Open(calls, rt, k, r) = {} /\ ~Halted(calls, rt, k, r) /\ x.ok
      BY <1>9 DEF Goes
    <2>2. QED
      BY <1>1, <1>4, <1>5, <1>6, <1>7, <1>9, <2>1 DEF Is, ReturnEffect
  <1>10. QED
    BY <1>8, <1>9

\* What one more call changes for a process that has not made it: nothing.
CallEffect(calls, calls2, rt) ==
    /\ \A k \in 1..(Len(rt) + 1) : SameBefore(calls2, rt, calls, rt, k)
    /\ \A k \in 1..Len(rt) : Goes(calls2, rt, k) <=> Goes(calls, rt, k)
    /\ \A r : Done(calls2, rt, r) = Done(calls, rt, r)
    /\ Replies(calls, rt) => Replies(calls2, rt)

LEMMA CallSame ==
  ASSUME NEW S, NEW T, NEW calls \in Seq(S), NEW c, NEW calls2, calls2 = Append(calls, c),
         NEW rt \in Seq(T), Len(rt) <= Len(calls)
  PROVE  CallEffect(calls, calls2, rt)
  <1>1. /\ Len(calls2) = Len(calls) + 1 /\ Len(calls) \in Nat /\ Len(rt) \in Nat
        /\ \A i \in 1..Len(calls) : calls2[i] = calls[i]
    OBVIOUS
  <1>2. \A k \in 1..(Len(rt) + 1) : SameBefore(calls2, rt, calls, rt, k)
    BY <1>1 DEF SameBefore
  <1>3. ASSUME NEW k \in 1..Len(rt) PROVE Goes(calls2, rt, k) <=> Goes(calls, rt, k)
    <2>1. SameBefore(calls2, rt, calls, rt, k) /\ k \in Nat /\ calls2[k] = calls[k]
      BY <1>1, <1>2
    <2>2. QED
      BY <2>1, GoesSame
  <1>4. ASSUME NEW k \in 1..Len(rt), NEW r
        PROVE  Equal(calls2, rt, k, r) <=> Equal(calls, rt, k, r)
    <2>1. SameBefore(calls2, rt, calls, rt, k) /\ k \in Nat
      BY <1>1, <1>2
    <2>2. QED
      BY <2>1, OpenSame
  <1>5. \A r : Done(calls2, rt, r) = Done(calls, rt, r)
    BY <1>1, <1>3 DEF Done
  <1>6. Replies(calls, rt) => Replies(calls2, rt)
    BY <1>1, <1>3, <1>4 DEF Replies
  <1>7. QED
    BY <1>2, <1>3, <1>5, <1>6 DEF CallEffect

-----------------------------------------------------------------------------
\* No checker with a check under way was stopped.
LEMMA OpenNotHalted ==
  ASSUME NEW calls, NEW rt, Replies(calls, rt), Len(rt) \in Nat,
         NEW k \in 1..(Len(rt) + 1), NEW r, Open(calls, rt, k, r) # {}
  PROVE  ~Halted(calls, rt, k, r)
  <1> SUFFICES ASSUME NEW i \in 1..(k - 1), Is(calls[i], "stop", r), rt[i].ok PROVE FALSE
    BY DEF Halted
  <1>1. PICK j \in Open(calls, rt, k, r) : TRUE
    OBVIOUS
  <1>2. j \in 1..(k - 1) /\ Is(calls[j], "reveal", r) /\ rt[j].ok
    BY DEF Open
  <1>3. Goes(calls, rt, i) /\ Goes(calls, rt, j)
    BY <1>2 DEF Replies, Is
  <1>4. ~(i < j)
    BY <1>2, <1>3 DEF Goes, Halted, Is
  <1>5. ~(j < i)
    <2> SUFFICES ASSUME j < i PROVE FALSE
      OBVIOUS
    <2>1. j \in Open(calls, rt, i, r)
      BY <1>2 DEF Open
    <2>2. QED
      BY <1>3, <2>1 DEF Goes, Is
  <1>6. i # j
    BY <1>2 DEF Is
  <1>7. QED
    BY <1>2, <1>4, <1>5, <1>6

\* Two processes that are answered the same see the same before each call.
LEMMA AgreeSame ==
  ASSUME NEW calls, NEW rt1, NEW rt2, Agree(rt1, rt2), Len(rt1) \in Nat, Len(rt2) \in Nat,
         NEW k \in 1..(Len(rt1) + 1), k <= Len(rt2) + 1
  PROVE  SameBefore(calls, rt1, calls, rt2, k)
  BY DEF SameBefore, Agree

\* The process that is ahead has done the call at which the other one goes to
\* the checker.
LEMMA DoneAhead ==
  ASSUME NEW calls, NEW rt1, NEW rt2, Agree(rt1, rt2), Len(rt1) \in Nat, Len(rt2) \in Nat,
         Len(rt2) < Len(rt1), NEW r, calls[Len(rt2) + 1].r = r, Goes(calls, rt2, Len(rt2) + 1)
  PROVE  Len(rt2) + 1 \in Done(calls, rt1, r) /\ Len(rt2) + 1 \notin Done(calls, rt2, r)
  <1>1. SameBefore(calls, rt1, calls, rt2, Len(rt2) + 1)
    BY AgreeSame
  <1>2. Goes(calls, rt1, Len(rt2) + 1)
    BY <1>1, GoesSame
  <1>3. QED
    BY <1>2 DEF Done

\* A process that catches up with another is answered the same.
LEMMA AgreeNext ==
  ASSUME NEW T, NEW calls, NEW rt1 \in Seq(T), NEW rt2 \in Seq(T), NEW x, NEW rt,
         rt = Append(rt1, x), Replies(calls, rt), Replies(calls, rt2), Agree(rt1, rt2),
         x.ok \in BOOLEAN, \A k \in 1..Len(rt2) : rt2[k].ok \in BOOLEAN
  PROVE  Agree(rt, rt2)
  <1>1. /\ Len(rt) = Len(rt1) + 1 /\ rt[Len(rt1) + 1] = x /\ Len(rt1) \in Nat /\ Len(rt2) \in Nat
        /\ \A i \in 1..Len(rt1) : rt[i] = rt1[i]
    BY ReturnSame
  <1> DEFINE k == Len(rt1) + 1
  <1>2. CASE k \in 1..Len(rt2)
    <2>1. SameBefore(calls, rt, calls, rt2, k)
      BY <1>1, <1>2 DEF SameBefore, Agree
    <2>2. /\ Goes(calls, rt, k) <=> Goes(calls, rt2, k)
          /\ Equal(calls, rt, k, calls[k].r) <=> Equal(calls, rt2, k, calls[k].r)
      BY <1>1, <2>1, GoesSame, OpenSame
    <2>3. rt[k].ok <=> rt2[k].ok
      BY <1>1, <1>2, <2>2 DEF Replies
    <2>4. x.ok = rt2[k].ok
      BY <1>1, <1>2, <2>3
    <2>5. QED
      BY <1>1, <2>4 DEF Agree
  <1>3. CASE k \notin 1..Len(rt2)
    BY <1>1, <1>3 DEF Agree
  <1>4. QED
    BY <1>2, <1>3

\* Two processes with the same calls done are in the same call when each goes on.
LEMMA LevelMeet ==
  ASSUME NEW calls, NEW rt1, NEW rt2, Agree(rt1, rt2), Agree(rt2, rt1),
         Len(rt1) \in Nat, Len(rt2) \in Nat, NEW r, Done(calls, rt1, r) = Done(calls, rt2, r),
         calls[Len(rt1) + 1].r = r, Goes(calls, rt1, Len(rt1) + 1),
         calls[Len(rt2) + 1].r = r, Goes(calls, rt2, Len(rt2) + 1)
  PROVE  Len(rt1) = Len(rt2)
  <1>1. ~(Len(rt2) < Len(rt1))
    BY DoneAhead
  <1>2. ~(Len(rt1) < Len(rt2))
    BY DoneAhead
  <1>3. QED
    BY <1>1, <1>2

\* A process that is one call behind, and goes on, is in that call.
LEMMA CatchUp ==
  ASSUME NEW calls, NEW rt1, NEW rt2, Agree(rt1, rt2), Len(rt1) \in Nat, Len(rt2) \in Nat,
         NEW r, NEW j, j \notin Done(calls, rt2, r), Done(calls, rt1, r) = Done(calls, rt2, r) \cup {j},
         calls[Len(rt2) + 1].r = r, Goes(calls, rt2, Len(rt2) + 1)
  PROVE  j = Len(rt2) + 1
  <1>1. CASE Len(rt2) < Len(rt1)
    BY <1>1, DoneAhead
  <1>2. CASE Len(rt1) <= Len(rt2)
    <2>1. j \in 1..Len(rt1) /\ calls[j].r = r /\ Goes(calls, rt1, j)
      BY DEF Done
    <2>2. SameBefore(calls, rt1, calls, rt2, j)
      BY <1>2, <2>1, AgreeSame
    <2>3. Goes(calls, rt2, j)
      BY <2>1, <2>2, GoesSame
    <2>4. QED
      BY <1>2, <2>1, <2>3 DEF Done
  <1>3. QED
    BY <1>1, <1>2

\* Two processes with the same calls done and a check under way mean the same one.
LEMMA OpenAgree ==
  ASSUME NEW calls, NEW rt1, NEW rt2, Replies(calls, rt1), Replies(calls, rt2),
         Agree(rt1, rt2), Len(rt1) \in Nat, Len(rt2) \in Nat, NEW r,
         Done(calls, rt1, r) = Done(calls, rt2, r),
         NEW j1 \in Open(calls, rt1, Len(rt1) + 1, r), NEW j2 \in Open(calls, rt2, Len(rt2) + 1, r)
  PROVE  j1 = j2
  <1>1. /\ j1 \in 1..Len(rt1) /\ rt1[j1].ok /\ Is(calls[j1], "reveal", r)
        /\ j2 \in 1..Len(rt2) /\ rt2[j2].ok /\ Is(calls[j2], "reveal", r)
    BY DEF Open
  <1>2. Goes(calls, rt1, j1) /\ Goes(calls, rt2, j2)
    BY <1>1 DEF Replies, Is
  <1>3. j1 \in 1..Len(rt2) /\ j2 \in 1..Len(rt1)
    BY <1>1, <1>2 DEF Done, Is
  <1>4. ~(j1 < j2)
    <2> SUFFICES ASSUME j1 < j2 PROVE FALSE
      OBVIOUS
    <2>1. rt2[j1].ok
      BY <1>1, <1>3 DEF Agree
    <2>2. Open(calls, rt2, j2, r) = {}
      BY <1>1, <1>2 DEF Goes, Is
    <2>3. PICK i \in (j1 + 1)..(j2 - 1) : Is(calls[i], "results", r)
      BY <1>1, <2>1, <2>2 DEF Open
    <2>4. QED
      BY <1>1, <1>3, <2>3 DEF Open
  <1>5. ~(j2 < j1)
    <2> SUFFICES ASSUME j2 < j1 PROVE FALSE
      OBVIOUS
    <2>1. rt1[j2].ok
      BY <1>1, <1>3 DEF Agree
    <2>2. Open(calls, rt1, j1, r) = {}
      BY <1>1, <1>2 DEF Goes, Is
    <2>3. PICK i \in (j2 + 1)..(j1 - 1) : Is(calls[i], "results", r)
      BY <1>1, <2>1, <2>2 DEF Open
    <2>4. QED
      BY <1>1, <1>3, <2>3 DEF Open
  <1>6. QED
    BY <1>1, <1>4, <1>5

-----------------------------------------------------------------------------
(* Two processes that meet: they are in calls n1 and n2, and level 0..top of *)
(* them; in the calls of the set M they meet at every level, in no other.    *)

InStep(n1, n2, l1, l2, M, top) ==
    /\ n1 = n2 => l1 = l2
    /\ n1 < n2 => l2 = 0 /\ (n1 \in M => l1 = top) /\ \A j \in (n1 + 1)..(n2 - 1) : j \notin M
    /\ n2 < n1 => l1 = 0 /\ (n2 \in M => l2 = top) /\ \A j \in (n2 + 1)..(n1 - 1) : j \notin M

LEMMA InStepSym ==
  ASSUME NEW n1 \in Nat, NEW n2 \in Nat, NEW l1, NEW l2, NEW M, NEW top
  PROVE  InStep(n1, n2, l1, l2, M, top) <=> InStep(n2, n1, l2, l1, M, top)
  BY DEF InStep

\* The first process returns from its call.
LEMMA InStepReturn ==
  ASSUME NEW n1 \in Nat, NEW n2 \in Nat, NEW l1, NEW l2, NEW M, NEW top, top # 0,
         InStep(n1, n2, l1, l2, M, top), n1 \in M => l1 = top, n1 \notin M => l1 = 0
  PROVE  InStep(n1 + 1, n2, 0, l2, M, top)
  BY DEF InStep

\* The program goes on.
LEMMA InStepMore ==
  ASSUME NEW n1 \in Nat, NEW n2 \in Nat, NEW l1, NEW l2, NEW M1, NEW M2, NEW top, NEW len \in Nat,
         InStep(n1, n2, l1, l2, M1, top), n1 <= len + 1, n2 <= len + 1,
         \A j \in 1..len : j \in M1 <=> j \in M2, 0 \notin M1, 0 \notin M2
  PROVE  InStep(n1, n2, l1, l2, M2, top)
  BY DEF InStep

-----------------------------------------------------------------------------
(* The state.                                                                *)

\* The number of the call that process p is in, or will begin next.
Now(p) == Len(ret[p]) + 1

\* What is known to p: a check of r under way, the checker of r stopped, the
\* calls of r that went through it.
OpenAt(p, r)   == Open(script, ret[p], Now(p), r)
HaltedAt(p, r) == Halted(script, ret[p], Now(p), r)
DoneAt(p, r)   == Done(script, ret[p], r)
GoesAt(p)      == Goes(script, ret[p], Now(p))

\* p is in a call of r that the checker of its machine has to answer, and has
\* told it so.
Wants(p, r) == pc[p] \in {"want", "labels", "bools_out"} /\ Call(p).r = r
Asked(p, r) == pc[p] \in {"labels", "bools_out"} /\ Call(p).r = r
Busy(p, r)  == in_progress[r][p]

-----------------------------------------------------------------------------
(* One process by itself.                                                    *)

Revealing == {"encrypt", "bools", "value", "end", "request", "labels", "bools_out"}

\* Where a process may be in which call.
Place(p) ==
    /\ Now(p) <= Len(script) + 1
    /\ pc[p] # "idle" => Now(p) <= Len(script)
    /\ pc[p] \in Revealing => Call(p).op = "reveal"
    /\ pc[p] = "want" => Call(p).op \in {"reveal", "stop"}
    /\ pc[p] = "result" => Call(p).op = "results" /\ GoesAt(p)
    /\ pc[p] = "encrypt" => Call(p).side # "BOTH"
    /\ pc[p] = "value" => Outputs(p)
    /\ pc[p] = "bools_out" => p[2] = "non_garbler"

\* The flags of a Revealer say what became of the earlier calls.
Flags(p, r) ==
    /\ Busy(p, r) <=> OpenAt(p, r) # {}
    /\ ready[r][p] <=> ~Busy(p, r) /\ ~HaltedAt(p, r) /\ ~Wants(p, r)
    /\ Wants(p, r) => ~Busy(p, r) /\ ~HaltedAt(p, r)

PlaceInv == \A p \in Process : Place(p)
FlagInv  == \A p \in Process, r \in Revealers : Flags(p, r)

ReplyInv == \A p \in Process : Replies(script, ret[p])

AgreeInv == \A p, q \in Process : Agree(ret[p], ret[q])

\* A nonce counts the reveals to one machine.
NonceInv ==
    \A p \in Process, r \in Revealers :
        nonce[r][p] = Count(script, IF pc[p] = "idle" THEN Len(ret[p]) ELSE Now(p), r)

-----------------------------------------------------------------------------
(* Two processes that meet.                                                  *)

\* How many of the syncs of its reveal p has passed, counted from the end.
SyncLevel(p) ==
    IF \/ pc[p] \in {"idle", "encrypt", "result"}
       \/ Call(p).op # "reveal"
       \/ pc[p] = "bools" /\ Call(p).side = "BOTH" THEN 0
    ELSE IF pc[p] = "bools" THEN 1 ELSE IF pc[p] \in {"value", "end"} THEN 2 ELSE 3

Reveals == {k \in 1..Len(script) : script[k].op = "reveal"}

SyncInv ==
    \A e \in Machine :
        InStep(Now(garbler(e)), Now(nonGarbler(Other(e))),
               SyncLevel(garbler(e)), SyncLevel(nonGarbler(Other(e))), Reveals, 3)

\* p has swapped the value of its reveal.
ValueLevel(p) ==
    IF pc[p] \in {"end", "request", "want", "labels", "bools_out"}
       /\ Call(p).op = "reveal" /\ Outputs(p) THEN 1 ELSE 0

RevealsTo(m) == {k \in 1..Len(script) : script[k].op = "reveal" /\ script[k].side \in {"BOTH", m}}

ValueInv ==
    \A m \in Machine :
        InStep(Now(garbler(m)), Now(nonGarbler(m)),
               ValueLevel(garbler(m)), ValueLevel(nonGarbler(m)), RevealsTo(m), 1)

-----------------------------------------------------------------------------
(* What is in shared memory.                                                 *)

\* The bits and the labels of call k on machine m.
BitsOf(m, k) ==
    LET c == script[k] IN
    IF c.side = "BOTH" THEN Plain(c.val[Other(m)])
    ELSE Encrypted(c.side, Count(script, k, c.r), c.val[Other(m)])

LabelsOf(p, k) ==
    IF p[2] = "garbler" THEN GarblerLabels(Exec(p), k) ELSE HeldLabels(Exec(p), k, BitsOf(p[1], k))

\* What a process has put there, or will take.
Own(p) ==
    LET r == Call(p).r
        m == p[1]
    IN
    /\ p[2] = "non_garbler"
       /\ pc[p] \in {"value", "end", "request", "want", "labels", "bools_out"}
       /\ Call(p).op = "reveal" =>
          bools[r][m].mine = BitsOf(m, Now(p))
    /\ p[2] = "non_garbler" /\ pc[p] = "value" => value[r][m].mine = Call(p).val[Other(m)]
    /\ ValueLevel(p) = 1 => value[r][m].theirs = Call(p).val[Other(m)]
    /\ pc[p] \in {"want", "labels"} /\ Call(p).op = "reveal" =>
          labels[r][p].mine = LabelsOf(p, Now(p))
    /\ pc[p] = "want" => (wants[r][p].mine.want_reveal <=> Call(p).op = "reveal")

\* What a checker holds.
Held(r, m) ==
    LET g == garbler(m)
        n == nonGarbler(m)
    IN
    /\ eqpc[r][m] = "n_want" => (wants[r][g].theirs.want_reveal <=> Asked(g, r))
    /\ eqpc[r][m] \in {"n_labels", "n_bools", "hash"} =>
          \A j \in OpenAt(g, r) : labels[r][g].theirs = LabelsOf(g, j)
    /\ eqpc[r][m] = "n_bools" => labels[r][n].theirs = LabelsOf(n, Now(n))
    /\ eqpc[r][m] = "hash" =>
          \A j \in OpenAt(n, r) :
              labels[r][n].theirs = LabelsOf(n, j) /\ bools[r][m].theirs = BitsOf(m, j)

\* The verdict that waits for the processes of machine m.
Verdict(r, m) ==
    LET g == garbler(m)
        n == nonGarbler(m)
    IN
    /\ eqpc[r][m] = "g_result" => (result[r][g].theirs <=> Equal(script, ret[g], Now(g), r))
    /\ eqpc[r][m] \in {"g_result", "n_result"} =>
          (result[r][n].theirs <=> Equal(script, ret[n], Now(n), r))

OwnInv     == \A p \in Process : Own(p)
HeldInv    == \A r \in Revealers, m \in Machine : Held(r, m)
VerdictInv == \A r \in Revealers, m \in Machine : Verdict(r, m)

-----------------------------------------------------------------------------
(* A checker and the two processes of its machine.                           *)

\* The garbler has been served one call that the non-garbler has not.
Ahead(g, n, r) == {j \in DoneAt(g, r) \ DoneAt(n, r) : DoneAt(g, r) = DoneAt(n, r) \cup {j}}

Served(r, m) ==
    LET g == garbler(m)
        n == nonGarbler(m)
        Level == DoneAt(g, r) = DoneAt(n, r)
    IN
    /\ eqpc[r][m] \in {"setup", "g_want", "done"} =>
          ~Busy(g, r) /\ ~Busy(n, r) /\ ~Asked(g, r) /\ ~Asked(n, r) /\ Level
    /\ eqpc[r][m] = "n_want" =>
          /\ ~Busy(g, r) /\ ~Busy(n, r) /\ ~Asked(n, r)
          /\ Asked(g, r) => Level
          /\ ~Asked(g, r) => \E j \in Ahead(g, n, r) : script[j].op = "stop"
    /\ eqpc[r][m] = "g_labels" =>
          Asked(g, r) /\ Asked(n, r) /\ pc[n] = "labels" /\ Now(g) = Now(n) /\ Level
    /\ eqpc[r][m] \in {"n_labels", "n_bools"} =>
          /\ Busy(g, r) /\ Asked(n, r) /\ Now(n) \in Ahead(g, n, r)
          /\ pc[n] = IF eqpc[r][m] = "n_labels" THEN "labels" ELSE "bools_out"
    /\ eqpc[r][m] \in {"hash", "g_result"} => Busy(g, r) /\ Busy(n, r) /\ Level
    /\ eqpc[r][m] = "n_result" =>
          ~Busy(g, r) /\ ~Asked(g, r) /\ Busy(n, r) /\ Ahead(g, n, r) # {}

CheckerInv == \A r \in Revealers, m \in Machine : Served(r, m)

-----------------------------------------------------------------------------
(* The two machines: the check of a reveal is over on both before its verdict *)
(* is given on either.                                                       *)

Settled(r, j) ==
    /\ \A q \in Process : j <= Len(ret[q])
    /\ \A m \in Machine : eqpc[r][m] = "hash" => j \notin OpenAt(nonGarbler(m), r)

\* The reveal whose verdict is given out.
SettledNow ==
    \A r \in Revealers, m \in Machine :
        eqpc[r][m] \in {"g_result", "n_result"} =>
            \A j \in OpenAt(nonGarbler(m), r) : Settled(r, j)

\* The reveals before a call that asked for the result.
SettledPast ==
    \A p \in Process : \A i \in Finished(p) : \A j \in 1..(i - 1) :
        script[i].op = "results" /\ Is(script[j], "reveal", script[i].r) /\ ret[p][j].ok =>
            Settled(script[i].r, j)

IInv ==
    /\ TypeOK /\ PlaceInv /\ FlagInv /\ ReplyInv /\ AgreeInv /\ NonceInv /\ SyncInv /\ ValueInv
    /\ OwnInv /\ HeldInv /\ VerdictInv /\ CheckerInv /\ SettledNow /\ SettledPast
    /\ OutputsMatch

-----------------------------------------------------------------------------
(* The processes, the calls and the types.                                   *)

LEMMA Processes ==
  /\ \A m \in Machine :
        /\ garbler(m) \in Process /\ garbler(m)[1] = m /\ garbler(m)[2] = "garbler"
        /\ nonGarbler(m) \in Process /\ nonGarbler(m)[1] = m /\ nonGarbler(m)[2] = "non_garbler"
        /\ Other(m) \in Machine /\ Other(m) # m /\ Other(Other(m)) = m
  /\ \A m1, m2 \in Machine :
        /\ garbler(m1) # nonGarbler(m2)
        /\ garbler(m1) = garbler(m2) => m1 = m2
        /\ nonGarbler(m1) = nonGarbler(m2) => m1 = m2
        /\ m1 # m2 => m1 = Other(m2)
  /\ \A p \in Process :
        /\ p[1] \in Machine /\ p[2] \in {"garbler", "non_garbler"}
        /\ p[2] = "garbler" => p = garbler(p[1])
        /\ p[2] = "non_garbler" => p = nonGarbler(p[1])
  BY DEF Machine, Process, Role, garbler, nonGarbler, Other

LEMMA Calls ==
  ASSUME NEW c \in AllCalls
  PROVE  /\ c.r \in Revealers /\ c.op \in {"reveal", "results", "stop"}
         /\ c.op = "reveal" =>
               c.side \in Machine \cup {"BOTH"} /\ \A m \in Machine : c.val[m] \in Values
  BY DEF AllCalls

Answers == [ok : BOOLEAN, out : Values \cup {None}]

LEMMA Typed ==
  ASSUME TypeOK, NEW p \in Process
  PROVE  /\ ret[p] \in Seq(Answers) /\ Len(ret[p]) \in Nat /\ Now(p) \in Nat \ {0}
         /\ Now(p) = Len(ret[p]) + 1
         /\ script \in Seq(AllCalls) /\ Len(script) \in Nat
         /\ \A k \in 1..Len(ret[p]) : ret[p][k].ok \in BOOLEAN
         /\ \A k \in 1..Len(script) : script[k] \in AllCalls
  <1>1. ret[p] \in Seq(Answers) /\ script \in Seq(AllCalls)
    BY DEF TypeOK, Answers
  <1>2. \A k \in 1..Len(ret[p]) : ret[p][k] \in Answers
    BY <1>1
  <1>3. QED
    BY <1>1, <1>2 DEF Now, Answers

\* The call a process is in.
LEMMA Called ==
  ASSUME TypeOK, NEW p \in Process, Now(p) <= Len(script)
  PROVE  /\ Now(p) \in 1..Len(script) /\ Call(p) = script[Now(p)] /\ Call(p) \in AllCalls
         /\ Call(p).r \in Revealers /\ Call(p).op \in {"reveal", "results", "stop"}
         /\ Call(p).op = "reveal" =>
               /\ Call(p).side \in Machine \cup {"BOTH"}
               /\ \A m \in Machine : Call(p).val[m] \in Values
  BY Typed, Calls DEF Call, Now

-----------------------------------------------------------------------------
(* A step in which p returns from its call.                                  *)

Answered(p, ok, out) ==
    /\ Now(p) <= Len(script) /\ ok \in BOOLEAN /\ out \in Values \cup {None}
    /\ Call(p).op = "reveal" => pc[p] \in {"request", "labels", "bools_out"} /\ out = Output(p)
    /\ Call(p).op # "results" => (ok <=> GoesAt(p))
    /\ Call(p).op = "results" => (ok <=> Equal(script, ret[p], Now(p), Call(p).r))
    /\ Return(p, ok, out)
    /\ UNCHANGED <<script, nonce>>

\* What r knows of p is what it knew.
SameView(p, r) ==
    /\ OpenAt(p, r)' = OpenAt(p, r)
    /\ HaltedAt(p, r)' <=> HaltedAt(p, r)
    /\ DoneAt(p, r)' = DoneAt(p, r)

LEMMA AnsweredRet ==
  ASSUME TypeOK, NEW p \in Process, NEW ok, NEW out, Answered(p, ok, out)
  PROVE  /\ ret' \in [Process -> Seq(Answers)]
         /\ pc' = [pc EXCEPT ![p] = "idle"] /\ pc'[p] = "idle"
         /\ ret'[p] = Append(ret[p], [ok |-> ok, out |-> out])
         /\ Len(ret'[p]) = Len(ret[p]) + 1
         /\ \A k \in 1..Len(ret[p]) : ret'[p][k] = ret[p][k]
         /\ ret'[p][Now(p)] = [ok |-> ok, out |-> out]
         /\ \A q \in Process \ {p} : ret'[q] = ret[q] /\ pc'[q] = pc[q]
  <1>1. ret \in [Process -> Seq(Answers)] /\ pc \in [Process -> {"idle", "encrypt", "bools", "value",
          "end", "request", "want", "labels", "bools_out", "result"}]
    BY DEF TypeOK, Answers
  <1>2. [ok |-> ok, out |-> out] \in Answers
    BY DEF Answered, Answers
  <1>3. /\ ret' = [ret EXCEPT ![p] = Append(ret[p], [ok |-> ok, out |-> out])]
        /\ pc' = [pc EXCEPT ![p] = "idle"]
    BY DEF Answered, Return, Goto
  <1>4. ret'[p] = Append(ret[p], [ok |-> ok, out |-> out]) /\ ret[p] \in Seq(Answers)
    BY <1>1, <1>3
  <1>5. ret'[p] \in Seq(Answers)
    BY <1>2, <1>4
  <1>6. /\ Len(ret'[p]) = Len(ret[p]) + 1
        /\ \A k \in 1..Len(ret[p]) : ret'[p][k] = ret[p][k]
        /\ ret'[p][Now(p)] = [ok |-> ok, out |-> out]
    BY <1>4 DEF Now
  <1>7. \A q \in Process \ {p} : ret'[q] = ret[q] /\ pc'[q] = pc[q]
    BY <1>1, <1>3
  <1>8. ret' \in [Process -> Seq(Answers)]
    BY <1>1, <1>3, <1>5
  <1>9. QED
    BY <1>1, <1>3, <1>4, <1>6, <1>7, <1>8

\* What is known to p then, and that nothing changes for the others.
LEMMA AnsweredView ==
  ASSUME TypeOK, NEW p \in Process, NEW ok, NEW out, Answered(p, ok, out), NEW r \in Revealers
  PROVE  /\ \A q \in Process \ {p} : SameView(q, r)
         /\ ~GoesAt(p) \/ Call(p).r # r => SameView(p, r)
         /\ GoesAt(p) /\ Call(p).r = r =>
               /\ DoneAt(p, r)' = DoneAt(p, r) \cup {Now(p)}
               /\ Call(p).op = "reveal" => OpenAt(p, r)' = {Now(p)} /\ ~HaltedAt(p, r)'
               /\ Call(p).op = "stop" => OpenAt(p, r)' = {} /\ HaltedAt(p, r)'
               /\ Call(p).op = "results" =>
                     OpenAt(p, r)' = {} /\ (HaltedAt(p, r)' <=> HaltedAt(p, r))
  <1>1. script' = script
    BY DEF Answered
  <1>2. \A q \in Process \ {p} : SameView(q, r)
    BY <1>1, AnsweredRet DEF SameView, OpenAt, HaltedAt, DoneAt, Now
  <1> DEFINE k == Now(p)
             x == [ok |-> ok, out |-> out]
             rt2 == Append(ret[p], x)
  <1>3. /\ ret[p] \in Seq(Answers) /\ k = Len(ret[p]) + 1 /\ ret'[p] = rt2 /\ Now(p)' = k + 1
        /\ Call(p) = script[k]
    BY Typed, AnsweredRet DEF Now, Call
  <1>4. script[k].op # "results" => (x.ok <=> Goes(script, ret[p], k))
    BY <1>3 DEF Answered, GoesAt
  <1> HIDE DEF k, rt2, x
  <1>5. rt2 = Append(ret[p], x)
    BY DEF rt2
  <1>6. ReturnEffect(script, ret[p], rt2, k, r)
    BY <1>3, <1>4, <1>5, ReturnKnown
  <1>7. OpenAt(p, r)' = Open(script, rt2, k + 1, r)
    BY <1>1, <1>3 DEF OpenAt
  <1>8. HaltedAt(p, r)' <=> Halted(script, rt2, k + 1, r)
    BY <1>1, <1>3 DEF HaltedAt
  <1>9. DoneAt(p, r)' = Done(script, rt2, r)
    BY <1>1, <1>3 DEF DoneAt
  <1>10. ~GoesAt(p) \/ Call(p).r # r => SameView(p, r)
    BY <1>3, <1>6, <1>7, <1>8, <1>9 DEF ReturnEffect, k, SameView, OpenAt, HaltedAt, DoneAt, GoesAt
  <1>11. QED
    BY <1>2, <1>3, <1>6, <1>7, <1>8, <1>9, <1>10 DEF ReturnEffect, k, HaltedAt, DoneAt, GoesAt

\* What such a step keeps.
LEMMA AnsweredPlace ==
  ASSUME TypeOK, PlaceInv, NEW p \in Process, NEW ok, NEW out, Answered(p, ok, out)
  PROVE  PlaceInv'
  <1>1. script' = script /\ Now(p) <= Len(script)
    BY DEF Answered
  <1>2. Place(p)'
    <2>1. pc'[p] = "idle" /\ Now(p)' = Now(p) + 1 /\ Now(p) \in Nat /\ Len(script) \in Nat
      BY AnsweredRet, Typed DEF Now
    <2>2. QED
      BY <1>1, <2>1 DEF Place, Revealing
  <1>3. ASSUME NEW q \in Process \ {p} PROVE Place(q)'
    <2>1. ret'[q] = ret[q] /\ pc'[q] = pc[q] /\ Place(q)
      BY AnsweredRet DEF PlaceInv
    <2>2. Now(q)' = Now(q) /\ (GoesAt(q)' <=> GoesAt(q)) /\ Call(q)' = Call(q)
      BY <1>1, <2>1 DEF Now, GoesAt, Call
    <2>3. QED
      BY <1>1, <2>1, <2>2 DEF Place, Outputs
  <1>4. QED
    BY <1>2, <1>3 DEF PlaceInv

LEMMA AnsweredAgree ==
  ASSUME TypeOK, ReplyInv, AgreeInv, NEW p \in Process, NEW ok, NEW out, Answered(p, ok, out)
  PROVE  ReplyInv' /\ AgreeInv'
  <1> DEFINE x == [ok |-> ok, out |-> out]
             k == Now(p)
  <1>1. script' = script /\ ret'[p] = Append(ret[p], x) /\ ret[p] \in Seq(Answers) /\ k = Len(ret[p]) + 1
        /\ Call(p) = script[Len(ret[p]) + 1] /\ x.ok \in BOOLEAN
    BY AnsweredRet, Typed DEF Answered, Call
  <1>2. /\ script[Len(ret[p]) + 1].op # "results" => (x.ok <=> Goes(script, ret[p], Len(ret[p]) + 1))
        /\ script[Len(ret[p]) + 1].op = "results" =>
              (x.ok <=> Equal(script, ret[p], Len(ret[p]) + 1, script[Len(ret[p]) + 1].r))
    BY <1>1 DEF Answered, GoesAt
  <1> HIDE DEF x, k
  <1>3. Replies(script, ret[p])
    BY DEF ReplyInv
  <1>4. Replies(script, ret'[p])
    BY <1>1, <1>2, <1>3, RepliesNext
  <1>5. ASSUME NEW q \in Process PROVE Replies(script, ret'[q])
    <2>1. CASE q = p
      BY <1>4, <2>1
    <2>2. CASE q # p
      <3>1. ret'[q] = ret[q]
        BY <2>2, AnsweredRet
      <3>2. QED
        BY <3>1 DEF ReplyInv
    <2>3. QED
      BY <2>1, <2>2
  <1>6. ASSUME NEW q \in Process \ {p} PROVE Agree(ret'[p], ret'[q])
    <2>1. ret'[q] = ret[q] /\ Agree(ret[p], ret[q]) /\ Replies(script, ret[q])
      BY AnsweredRet DEF AgreeInv, ReplyInv
    <2>2. ret[q] \in Seq(Answers) /\ \A i \in 1..Len(ret[q]) : ret[q][i].ok \in BOOLEAN
      BY Typed
    <2>3. Agree(ret'[p], ret[q])
      BY <1>1, <1>4, <2>1, <2>2, AgreeNext
    <2>4. QED
      BY <2>1, <2>3
  <1>7. \A q \in Process \ {p} : Agree(ret'[q], ret'[p])
    BY <1>6 DEF Agree
  <1>8. \A q1, q2 \in Process \ {p} : Agree(ret'[q1], ret'[q2])
    BY AnsweredRet DEF AgreeInv
  <1>9. Agree(ret'[p], ret'[p])
    BY DEF Agree
  <1>10. QED
    BY <1>1, <1>5, <1>6, <1>7, <1>8, <1>9 DEF ReplyInv, AgreeInv

LEMMA AnsweredNonce ==
  ASSUME TypeOK, NonceInv, NEW p \in Process, NEW ok, NEW out, Answered(p, ok, out)
  PROVE  NonceInv'
  <1>1. script' = script /\ nonce' = nonce /\ Now(p) = Len(ret[p]) + 1 /\ Len(ret[p]) \in Nat
        /\ pc'[p] = "idle" /\ Len(ret'[p]) = Len(ret[p]) + 1
    BY AnsweredRet, Typed DEF Answered
  <1>2. ASSUME NEW r \in Revealers PROVE nonce[r][p] = Count(script, Len(ret'[p]), r)
    <2>1. CASE pc[p] # "idle"
      BY <1>1, <2>1 DEF NonceInv
    <2>2. CASE pc[p] = "idle"
      <3>1. ~ToOne(script[Len(ret[p]) + 1], r)
        BY <2>2 DEF Answered, Call, ToOne, Is
      <3>2. /\ Count(script, Len(ret[p]), r) \in 0..Len(ret[p])
            /\ Count(script, Len(ret[p]) + 1, r) = Count(script, Len(ret[p]), r) + 0
        BY <1>1, <3>1, CountNext
      <3>3. QED
        BY <1>1, <2>2, <3>2 DEF NonceInv
    <2>3. QED
      BY <2>1, <2>2
  <1>3. ASSUME NEW q \in Process \ {p}, NEW r \in Revealers
        PROVE  (nonce[r][q] = Count(script, IF pc[q] = "idle" THEN Len(ret[q]) ELSE Now(q), r))'
    <2>1. ret'[q] = ret[q] /\ pc'[q] = pc[q]
      BY AnsweredRet
    <2>2. QED
      BY <1>1, <2>1 DEF NonceInv, Now
  <1>4. QED
    BY <1>1, <1>2, <1>3 DEF NonceInv

LEMMA AnsweredMeet ==
  ASSUME TypeOK, SyncInv, ValueInv, NEW p \in Process, NEW ok, NEW out, Answered(p, ok, out)
  PROVE  SyncInv' /\ ValueInv'
  <1>1. script' = script /\ Now(p) \in 1..Len(script) /\ Call(p) = script[Now(p)]
    BY Called DEF Answered
  <1>2. /\ Now(p)' = Now(p) + 1 /\ SyncLevel(p)' = 0 /\ ValueLevel(p)' = 0
        /\ \A q \in Process \ {p} :
              Now(q)' = Now(q) /\ SyncLevel(q)' = SyncLevel(q) /\ ValueLevel(q)' = ValueLevel(q)
    <2>1. Now(p)' = Now(p) + 1
      BY AnsweredRet, Typed DEF Now
    <2>2. SyncLevel(p)' = 0 /\ ValueLevel(p)' = 0
      BY AnsweredRet DEF SyncLevel, ValueLevel
    <2>3. ASSUME NEW q \in Process \ {p}
          PROVE  Now(q)' = Now(q) /\ SyncLevel(q)' = SyncLevel(q) /\ ValueLevel(q)' = ValueLevel(q)
      BY <1>1, AnsweredRet DEF Now, SyncLevel, ValueLevel, Call, Outputs
    <2>4. QED
      BY <2>1, <2>2, <2>3
  <1>3. /\ Now(p) \in Reveals => SyncLevel(p) = 3
        /\ Now(p) \notin Reveals => SyncLevel(p) = 0
    BY <1>1 DEF Reveals, SyncLevel, Answered
  <1>4. /\ Now(p) \in RevealsTo(p[1]) => ValueLevel(p) = 1
        /\ Now(p) \notin RevealsTo(p[1]) => ValueLevel(p) = 0
    BY <1>1 DEF RevealsTo, ValueLevel, Answered, Outputs
  <1>5. Reveals' = Reveals /\ \A m \in Machine : RevealsTo(m)' = RevealsTo(m)
    BY <1>1 DEF Reveals, RevealsTo
  <1>6. \A q \in Process : Now(q) \in Nat
    BY Typed
  <1>7. ASSUME NEW e \in Machine
        PROVE  InStep(Now(garbler(e)), Now(nonGarbler(Other(e))),
                      SyncLevel(garbler(e)), SyncLevel(nonGarbler(Other(e))), Reveals, 3)'
    <2> DEFINE g == garbler(e)
               n == nonGarbler(Other(e))
    <2>1. g \in Process /\ n \in Process /\ g # n
      BY Processes
    <2> HIDE DEF g, n
    <2>2. InStep(Now(g), Now(n), SyncLevel(g), SyncLevel(n), Reveals, 3)
      BY DEF SyncInv, g, n
    <2>3. InStep(Now(g), Now(n), SyncLevel(g), SyncLevel(n), Reveals, 3)'
      <3>1. CASE p = g
        <4>1. InStep(Now(g) + 1, Now(n), 0, SyncLevel(n), Reveals, 3)
          BY <1>3, <1>6, <2>1, <2>2, <3>1, InStepReturn
        <4>2. QED
          BY <1>2, <1>5, <2>1, <3>1, <4>1
      <3>2. CASE p = n
        <4>1. InStep(Now(n), Now(g), SyncLevel(n), SyncLevel(g), Reveals, 3)
          BY <1>6, <2>1, <2>2, InStepSym
        <4>2. InStep(Now(n) + 1, Now(g), 0, SyncLevel(g), Reveals, 3)
          BY <1>3, <1>6, <2>1, <3>2, <4>1, InStepReturn
        <4>3. InStep(Now(g), Now(n) + 1, SyncLevel(g), 0, Reveals, 3)
          BY <1>6, <2>1, <4>2, InStepSym
        <4>4. QED
          BY <1>2, <1>5, <2>1, <3>2, <4>3
      <3>3. CASE p # g /\ p # n
        BY <1>2, <1>5, <2>1, <2>2, <3>3
      <3>4. QED
        BY <3>1, <3>2, <3>3
    <2>4. QED
      BY <2>3 DEF g, n
  <1>8. ASSUME NEW m \in Machine
        PROVE  InStep(Now(garbler(m)), Now(nonGarbler(m)),
                      ValueLevel(garbler(m)), ValueLevel(nonGarbler(m)), RevealsTo(m), 1)'
    <2> DEFINE g == garbler(m)
               n == nonGarbler(m)
    <2>1. g \in Process /\ n \in Process /\ g # n /\ g[1] = m /\ n[1] = m
      BY Processes
    <2> HIDE DEF g, n
    <2>2. InStep(Now(g), Now(n), ValueLevel(g), ValueLevel(n), RevealsTo(m), 1)
      BY DEF ValueInv, g, n
    <2>3. InStep(Now(g), Now(n), ValueLevel(g), ValueLevel(n), RevealsTo(m), 1)'
      <3>1. CASE p = g
        <4>1. InStep(Now(g) + 1, Now(n), 0, ValueLevel(n), RevealsTo(m), 1)
          BY <1>4, <1>6, <2>1, <2>2, <3>1, InStepReturn
        <4>2. QED
          BY <1>2, <1>5, <2>1, <3>1, <4>1
      <3>2. CASE p = n
        <4>1. InStep(Now(n), Now(g), ValueLevel(n), ValueLevel(g), RevealsTo(m), 1)
          BY <1>6, <2>1, <2>2, InStepSym
        <4>2. InStep(Now(n) + 1, Now(g), 0, ValueLevel(g), RevealsTo(m), 1)
          BY <1>4, <1>6, <2>1, <3>2, <4>1, InStepReturn
        <4>3. InStep(Now(g), Now(n) + 1, ValueLevel(g), 0, RevealsTo(m), 1)
          BY <1>6, <2>1, <4>2, InStepSym
        <4>4. QED
          BY <1>2, <1>5, <2>1, <3>2, <4>3
      <3>3. CASE p # g /\ p # n
        BY <1>2, <1>5, <2>1, <2>2, <3>3
      <3>4. QED
        BY <3>1, <3>2, <3>3
    <2>4. QED
      BY <2>3 DEF g, n
  <1>9. QED
    BY <1>7, <1>8 DEF SyncInv, ValueInv

LEMMA AnsweredOutputs ==
  ASSUME TypeOK, OwnInv, OutputsMatch, NEW p \in Process, NEW ok, NEW out, Answered(p, ok, out)
  PROVE  OutputsMatch'
  <1>1. script' = script /\ Now(p) \in 1..Len(script) /\ Call(p) = script[Now(p)]
    BY Called DEF Answered
  <1>2. Call(p).op = "reveal" /\ Call(p).side \in {"BOTH", p[1]} => out = Call(p).val[Other(p[1])]
    <2> SUFFICES ASSUME Call(p).op = "reveal", Call(p).side \in {"BOTH", p[1]}
                 PROVE  out = Call(p).val[Other(p[1])]
      OBVIOUS
    <2>1. ValueLevel(p) = 1 /\ Outputs(p)
      BY DEF ValueLevel, Answered, Outputs
    <2>2. out = Call(p).val[Other(p[1])]
      BY <2>1 DEF Answered, Output, OwnInv, Own
    <2>3. QED
      BY <2>2
  <1>3. ASSUME NEW k \in 1..(Len(ret[p]) + 1), script[k].op = "reveal", script[k].side \in {"BOTH", p[1]}
        PROVE  ret'[p][k].out = script[k].val[Other(p[1])]
    <2>1. CASE k = Now(p)
      <3>1. ret'[p][k] = [ok |-> ok, out |-> out]
        BY <2>1, AnsweredRet
      <3>2. QED
        BY <1>1, <1>2, <1>3, <2>1, <3>1
    <2>2. CASE k # Now(p)
      <3>1. Now(p) = Len(ret[p]) + 1 /\ Len(ret[p]) \in Nat
        BY Typed
      <3>2. \A i \in 1..Len(ret[p]) : ret'[p][i] = ret[p][i]
        BY AnsweredRet
      <3>3. k \in 1..Len(ret[p]) /\ ret'[p][k] = ret[p][k]
        BY <2>2, <3>1, <3>2
      <3>4. QED
        BY <1>3, <3>3 DEF OutputsMatch, Finished
    <2>3. QED
      BY <2>1, <2>2
  <1>4. Len(ret'[p]) = Len(ret[p]) + 1 /\ \A q \in Process \ {p} : ret'[q] = ret[q]
    BY AnsweredRet
  <1>5. QED
    BY <1>1, <1>3, <1>4 DEF OutputsMatch, Finished

-----------------------------------------------------------------------------
(* What a step leaves alone.                                                 *)

\* The calls made so far stay.
Kept == Len(script) <= Len(script') /\ \A k \in 1..Len(script) : script'[k] = script[k]

\* What the checker of r has to do with p.
SameFor(p, r) ==
    /\ SameView(p, r)
    /\ Busy(p, r)' <=> Busy(p, r)
    /\ Asked(p, r)' <=> Asked(p, r)
    /\ Asked(p, r) => pc'[p] = pc[p] /\ Now(p)' = Now(p)

\* What the checker of r on machine m holds.
SameHeld(r, m) ==
    /\ \A q \in {garbler(m), nonGarbler(m)} :
          /\ wants'[r][q].theirs = wants[r][q].theirs
          /\ labels'[r][q].theirs = labels[r][q].theirs
          /\ result'[r][q].theirs = result[r][q].theirs
    /\ bools'[r][m].theirs = bools[r][m].theirs

LEMMA BitsSame ==
  ASSUME TypeOK, Kept, NEW k \in 1..Len(script)
  PROVE  /\ \A m \in Machine : BitsOf(m, k)' = BitsOf(m, k)
         /\ \A p \in Process : LabelsOf(p, k)' = LabelsOf(p, k)
  <1>1. /\ Len(script) \in Nat /\ k \in Nat /\ script'[k] = script[k]
        /\ \A i \in 1..k : script'[i] = script[i]
    BY DEF TypeOK, Kept
  <1>2. \A r : Count(script', k, r) = Count(script, k, r)
    BY <1>1, CountSame
  <1>3. \A m \in Machine : BitsOf(m, k)' = BitsOf(m, k)
    BY <1>1, <1>2 DEF BitsOf
  <1>4. QED
    BY <1>3, Processes DEF LabelsOf

LEMMA AnsweredKept ==
  ASSUME TypeOK, NEW p \in Process, NEW ok, NEW out, Answered(p, ok, out)
  PROVE  Kept /\ \A q \in Process : Len(ret'[q]) \in Nat /\ Len(ret[q]) <= Len(ret'[q])
  <1>1. Len(script) \in Nat /\ script' = script
    BY DEF TypeOK, Answered
  <1>2. ASSUME NEW q \in Process PROVE Len(ret'[q]) \in Nat /\ Len(ret[q]) <= Len(ret'[q])
    <2>1. Len(ret[q]) \in Nat
      BY Typed
    <2>2. CASE q = p
      <3>1. Len(ret'[p]) = Len(ret[p]) + 1
        BY AnsweredRet
      <3>2. QED
        BY <2>1, <2>2, <3>1
    <2>3. CASE q # p
      <3>1. ret'[q] = ret[q]
        BY <2>3, AnsweredRet
      <3>2. QED
        BY <2>1, <3>1
    <2>4. QED
      BY <2>2, <2>3
  <1>3. QED
    BY <1>1, <1>2 DEF Kept

\* What is known to p is about calls that were made.
LEMMA KnownCalls ==
  ASSUME TypeOK, PlaceInv, NEW p \in Process, NEW r
  PROVE  /\ OpenAt(p, r) \subseteq 1..Len(ret[p]) /\ OpenAt(p, r) \subseteq 1..Len(script)
         /\ DoneAt(p, r) \subseteq 1..Len(ret[p]) /\ DoneAt(p, r) \subseteq 1..Len(script)
         /\ \A j \in OpenAt(p, r) : Is(script[j], "reveal", r)
  <1>1. Len(ret[p]) \in Nat /\ Len(script) \in Nat /\ Len(ret[p]) <= Len(script)
    BY Typed DEF PlaceInv, Place
  <1>2. /\ OpenAt(p, r) \subseteq 1..Len(ret[p]) /\ DoneAt(p, r) \subseteq 1..Len(ret[p])
        /\ \A j \in OpenAt(p, r) : Is(script[j], "reveal", r)
    BY <1>1 DEF OpenAt, DoneAt, Open, Done, Now
  <1>3. QED
    BY <1>1, <1>2

LEMMA CheckerFrame ==
  ASSUME TypeOK, PlaceInv, Kept, NEW r \in Revealers, NEW m \in Machine,
         SameFor(garbler(m), r), SameFor(nonGarbler(m), r), SameHeld(r, m),
         eqpc'[r][m] = eqpc[r][m], Held(r, m), Verdict(r, m), Served(r, m)
  PROVE  Held(r, m)' /\ Verdict(r, m)' /\ Served(r, m)'
  <1> DEFINE g == garbler(m)
             n == nonGarbler(m)
  <1>1. g \in Process /\ n \in Process
    BY Processes
  <1>2. /\ OpenAt(g, r)' = OpenAt(g, r) /\ DoneAt(g, r)' = DoneAt(g, r)
        /\ OpenAt(n, r)' = OpenAt(n, r) /\ DoneAt(n, r)' = DoneAt(n, r)
        /\ Busy(g, r)' <=> Busy(g, r)
        /\ Busy(n, r)' <=> Busy(n, r)
        /\ Asked(g, r)' <=> Asked(g, r)
        /\ Asked(n, r)' <=> Asked(n, r)
        /\ Asked(g, r) => Now(g)' = Now(g)
        /\ Asked(n, r) => pc'[n] = pc[n] /\ Now(n)' = Now(n)
    BY DEF SameFor, SameView
  <1>3. /\ wants'[r][g].theirs = wants[r][g].theirs
        /\ labels'[r][g].theirs = labels[r][g].theirs
        /\ labels'[r][n].theirs = labels[r][n].theirs
        /\ result'[r][g].theirs = result[r][g].theirs
        /\ result'[r][n].theirs = result[r][n].theirs
        /\ bools'[r][m].theirs = bools[r][m].theirs
    BY DEF SameHeld
  <1>4. /\ OpenAt(g, r) \subseteq 1..Len(script) /\ OpenAt(n, r) \subseteq 1..Len(script)
        /\ DoneAt(g, r) \subseteq 1..Len(script)
    BY <1>1, KnownCalls
  <1>5. ASSUME NEW j \in 1..Len(script)
        PROVE  /\ script'[j] = script[j] /\ BitsOf(m, j)' = BitsOf(m, j)
               /\ LabelsOf(g, j)' = LabelsOf(g, j) /\ LabelsOf(n, j)' = LabelsOf(n, j)
    BY <1>1, BitsSame DEF Kept
  <1>6. Asked(n, r) => Now(n) \in 1..Len(script)
    BY <1>1, Typed DEF Asked, PlaceInv, Place
  <1> HIDE DEF g, n
  <1>7. Served(r, m)'
    <2>1. Ahead(g, n, r)' = Ahead(g, n, r) /\ Ahead(g, n, r) \subseteq 1..Len(script)
      BY <1>2, <1>4 DEF Ahead
    <2>2. QED
      BY <1>2, <1>5, <2>1 DEF Served, g, n
  <1>8. Held(r, m)'
    <2>1. eqpc[r][m] = "n_bools" => Asked(n, r)
      BY DEF Served, n
    <2>2. eqpc[r][m] = "n_bools" => LabelsOf(n, Now(n))' = LabelsOf(n, Now(n))
      BY <1>2, <1>5, <1>6, <2>1
    <2>3. QED
      BY <1>2, <1>3, <1>4, <1>5, <2>2 DEF Held, g, n
  <1>9. Verdict(r, m)'
    <2>1. /\ Equal(script, ret[g], Now(g), r)' <=> Equal(script, ret[g], Now(g), r)
          /\ Equal(script, ret[n], Now(n), r)' <=> Equal(script, ret[n], Now(n), r)
      BY <1>2, <1>4, <1>5 DEF Equal, OpenAt
    <2>2. QED
      BY <1>3, <2>1 DEF Verdict, g, n
  <1>10. QED
    BY <1>7, <1>8, <1>9

\* No reveal that is over comes back to a checker.
LEMMA SettledStays ==
  ASSUME TypeOK, NEW r \in Revealers, NEW j \in Nat, Settled(r, j),
         \A q \in Process : Len(ret'[q]) \in Nat /\ Len(ret[q]) <= Len(ret'[q]),
         \A m \in Machine : eqpc'[r][m] = "hash" =>
             \/ eqpc[r][m] = "hash" /\ OpenAt(nonGarbler(m), r)' = OpenAt(nonGarbler(m), r)
             \/ OpenAt(nonGarbler(m), r)' \subseteq {Len(ret[nonGarbler(m)]) + 1}
  PROVE  Settled(r, j)'
  <1>1. \A q \in Process : Len(ret[q]) \in Nat /\ j <= Len(ret[q])
    BY Typed DEF Settled
  <1>2. \A q \in Process : j <= Len(ret'[q])
    BY <1>1
  <1>3. ASSUME NEW m \in Machine, eqpc'[r][m] = "hash" PROVE j \notin OpenAt(nonGarbler(m), r)'
    BY <1>1, <1>3, Processes DEF Settled
  <1>4. QED
    BY <1>2, <1>3 DEF Settled

\* A checker that goes on giving out the same verdict.
LEMMA SettledNowFrame ==
  ASSUME TypeOK, PlaceInv, SettledNow, NEW r \in Revealers, NEW m \in Machine,
         \A j \in Nat : Settled(r, j) => Settled(r, j)',
         eqpc'[r][m] \in {"g_result", "n_result"} =>
             /\ eqpc[r][m] \in {"g_result", "n_result"}
             /\ OpenAt(nonGarbler(m), r)' = OpenAt(nonGarbler(m), r)
  PROVE  (eqpc[r][m] \in {"g_result", "n_result"} =>
             \A j \in OpenAt(nonGarbler(m), r) : Settled(r, j))'
  <1>1. OpenAt(nonGarbler(m), r) \subseteq Nat
    BY Processes, KnownCalls
  <1>2. QED
    BY <1>1 DEF SettledNow

\* Calls that have returned.
LEMMA SettledPastFrame ==
  ASSUME TypeOK, PlaceInv, Kept, SettledPast, NEW p \in Process,
         \A r \in Revealers : \A j \in Nat : Settled(r, j) => Settled(r, j)', ret'[p] = ret[p]
  PROVE  (\A i \in Finished(p) : \A j \in 1..(i - 1) :
            script[i].op = "results" /\ Is(script[j], "reveal", script[i].r) /\ ret[p][j].ok =>
                Settled(script[i].r, j))'
  <1> SUFFICES ASSUME NEW i \in 1..Len(ret[p]), NEW j \in 1..(i - 1), NEW r, r = script'[i].r,
                      script'[i].op = "results", Is(script'[j], "reveal", r), ret[p][j].ok
               PROVE  Settled(r, j)'
    BY DEF Finished
  <1>1. Len(ret[p]) \in Nat /\ Len(script) \in Nat /\ Len(ret[p]) <= Len(script)
    BY Typed DEF PlaceInv, Place, Now
  <1>2. i \in 1..Len(script) /\ j \in 1..Len(script) /\ j \in Nat
    BY <1>1
  <1>3. script'[i] = script[i] /\ script'[j] = script[j] /\ script[i].r = r /\ r \in Revealers
    BY <1>2, Typed, Calls DEF Kept
  <1>4. Settled(r, j)
    BY <1>3 DEF SettledPast, Finished
  <1>5. QED
    BY <1>2, <1>3, <1>4

\* A call that returns: the one that asks for the result must wait for the verdict.
LEMMA SettledPastReturn ==
  ASSUME TypeOK, PlaceInv, SettledPast, NEW p \in Process, NEW ok, NEW out, Answered(p, ok, out),
         \A r \in Revealers : \A j \in Nat : Settled(r, j) => Settled(r, j)',
         Call(p).op = "results" => \A j \in OpenAt(p, Call(p).r) : Settled(Call(p).r, j)
  PROVE  SettledPast'
  <1>1. script' = script /\ Now(p) \in 1..Len(script) /\ Call(p) = script[Now(p)] /\ Call(p).r \in Revealers
    BY Called DEF Answered
  <1>2. Kept
    BY <1>1, Typed DEF Kept
  <1>3. ASSUME NEW q \in Process \ {p}
        PROVE  (\A i \in Finished(q) : \A j \in 1..(i - 1) :
                  script[i].op = "results" /\ Is(script[j], "reveal", script[i].r) /\ ret[q][j].ok =>
                      Settled(script[i].r, j))'
    <2>1. ret'[q] = ret[q]
      BY AnsweredRet
    <2>2. QED
      BY <1>2, <2>1, SettledPastFrame
  <1>4. ASSUME NEW i \in 1..(Len(ret[p]) + 1), NEW j \in 1..(i - 1), NEW r, r = script[i].r,
               script[i].op = "results", Is(script[j], "reveal", r), ret'[p][j].ok
        PROVE  Settled(r, j)'
    <2>1. Len(ret[p]) \in Nat /\ Now(p) = Len(ret[p]) + 1
      BY Typed
    <2>2. j \in 1..Len(ret[p]) /\ j \in Nat
      BY <2>1
    <2>3. ret[p][j].ok
      BY <1>4, <2>2, AnsweredRet
    <2>4. CASE \E k \in (j + 1)..Len(ret[p]) : k <= i /\ Is(script[k], "results", r)
      <3>1. PICK k \in (j + 1)..Len(ret[p]) : k <= i /\ Is(script[k], "results", r)
        BY <2>4
      <3>2. k \in 1..Len(ret[p]) /\ j \in 1..(k - 1) /\ script[k].op = "results" /\ script[k].r = r
        BY <2>1, <2>2, <3>1 DEF Is
      <3>3. Settled(r, j)
        BY <1>4, <2>3, <3>2 DEF SettledPast, Finished
      <3>4. r \in Revealers
        BY <1>1, <2>1, <3>2, Typed, Calls DEF PlaceInv, Place, Now
      <3>5. QED
        BY <2>2, <3>3, <3>4
    <2>5. CASE ~\E k \in (j + 1)..Len(ret[p]) : k <= i /\ Is(script[k], "results", r)
      <3>1. i = Now(p)
        BY <1>4, <2>1, <2>2, <2>5 DEF Is
      <3>2. j \in OpenAt(p, Call(p).r)
        BY <1>1, <1>4, <2>1, <2>2, <2>3, <2>5, <3>1 DEF OpenAt, Open
      <3>3. QED
        BY <1>1, <1>4, <2>2, <3>1, <3>2
    <2>6. QED
      BY <2>4, <2>5
  <1>5. Len(ret'[p]) = Len(ret[p]) + 1
    BY AnsweredRet
  <1>6. QED
    BY <1>1, <1>3, <1>4, <1>5 DEF SettledPast, Finished

\* What the flags of p for r say stays true.
LEMMA FlagsFrame ==
  ASSUME NEW p \in Process, NEW r \in Revealers, Flags(p, r), SameView(p, r),
         Busy(p, r)' <=> Busy(p, r), ready'[r][p] = ready[r][p], Wants(p, r)' <=> Wants(p, r)
  PROVE  Flags(p, r)'
  BY DEF Flags, SameView

\* What p put in shared memory, while it stays where it is.
LEMMA OwnFrame ==
  ASSUME TypeOK, PlaceInv, Kept, NEW p \in Process, Own(p), pc'[p] = pc[p], ret'[p] = ret[p],
         p[2] = "non_garbler" => \A r \in Revealers :
             bools'[r][p[1]].mine = bools[r][p[1]].mine /\ value'[r][p[1]].mine = value[r][p[1]].mine,
         \A r \in Revealers : /\ value'[r][p[1]].theirs = value[r][p[1]].theirs
                              /\ labels'[r][p].mine = labels[r][p].mine
                              /\ wants'[r][p].mine = wants[r][p].mine
  PROVE  Own(p)'
  <1>1. CASE pc[p] = "idle"
    BY <1>1 DEF Own, ValueLevel
  <1>2. CASE pc[p] # "idle"
    <2>1. Now(p) \in 1..Len(script) /\ Call(p) = script[Now(p)] /\ Call(p).r \in Revealers
      BY <1>2, Called DEF PlaceInv, Place
    <2>2. Now(p)' = Now(p) /\ Call(p)' = Call(p)
      BY <2>1 DEF Now, Call, Kept
    <2>3. ValueLevel(p)' = ValueLevel(p)
      BY <2>2 DEF ValueLevel, Outputs
    <2>4. BitsOf(p[1], Now(p))' = BitsOf(p[1], Now(p)) /\ LabelsOf(p, Now(p))' = LabelsOf(p, Now(p))
      <3>1. ASSUME NEW k \in 1..Len(script), k = Now(p)
            PROVE  BitsOf(p[1], k)' = BitsOf(p[1], k) /\ LabelsOf(p, k)' = LabelsOf(p, k)
        BY Processes, BitsSame
      <3>2. QED
        BY <2>1, <2>2, <3>1 DEF BitsOf, LabelsOf, HeldLabels, GarblerLabels
    <2>5. QED
      BY <2>1, <2>2, <2>3, <2>4 DEF Own
  <1>3. QED
    BY <1>1, <1>2

\* Steps that take no process further in its calls.
LEMMA StayHistory ==
  ASSUME TypeOK, script' = script, ret' = ret
  PROVE  /\ Kept
         /\ \A p \in Process : Now(p)' = Now(p) /\ Call(p)' = Call(p) /\ (GoesAt(p)' <=> GoesAt(p))
         /\ \A p \in Process, r \in Revealers : SameView(p, r)
         /\ \A p \in Process : Len(ret'[p]) \in Nat /\ Len(ret[p]) <= Len(ret'[p])
         /\ ReplyInv => ReplyInv'
         /\ AgreeInv => AgreeInv'
         /\ OutputsMatch => OutputsMatch'
         /\ PlaceInv /\ SettledPast
            /\ (\A r \in Revealers : \A j \in Nat : Settled(r, j) => Settled(r, j)') => SettledPast'
  <1>1. Kept /\ \A p \in Process : Len(ret[p]) \in Nat
    BY Typed DEF Kept, TypeOK
  <1>2. /\ \A p \in Process : Now(p)' = Now(p) /\ Call(p)' = Call(p) /\ (GoesAt(p)' <=> GoesAt(p))
        /\ \A p \in Process, r \in Revealers : SameView(p, r)
    BY DEF Now, Call, GoesAt, SameView, OpenAt, HaltedAt, DoneAt
  <1>3. /\ ReplyInv => ReplyInv'
        /\ AgreeInv => AgreeInv'
        /\ OutputsMatch => OutputsMatch'
    BY DEF ReplyInv, AgreeInv, OutputsMatch, Finished
  <1>4. ASSUME PlaceInv, SettledPast, \A r \in Revealers : \A j \in Nat : Settled(r, j) => Settled(r, j)'
        PROVE  SettledPast'
    <2>1. ASSUME NEW p \in Process
          PROVE  (\A i \in Finished(p) : \A j \in 1..(i - 1) :
                    script[i].op = "results" /\ Is(script[j], "reveal", script[i].r) /\ ret[p][j].ok =>
                        Settled(script[i].r, j))'
      BY <1>1, <1>4, SettledPastFrame
    <2>2. QED
      BY <2>1 DEF SettledPast
  <1>5. QED
    BY <1>1, <1>2, <1>3, <1>4

LEMMA StayMeet ==
  ASSUME TypeOK, script' = script, ret' = ret
  PROVE  /\ SyncInv /\ (\A p \in Process : SyncLevel(p)' = SyncLevel(p)) => SyncInv'
         /\ ValueInv /\ (\A p \in Process : ValueLevel(p)' = ValueLevel(p)) => ValueInv'
  <1>1. \A p \in Process : Now(p)' = Now(p)
    BY StayHistory
  <1>2. Reveals' = Reveals /\ \A m \in Machine : RevealsTo(m)' = RevealsTo(m)
    BY DEF Reveals, RevealsTo
  <1>3. ASSUME SyncInv, \A p \in Process : SyncLevel(p)' = SyncLevel(p) PROVE SyncInv'
    BY <1>1, <1>2, <1>3, Processes DEF SyncInv
  <1>4. ASSUME ValueInv, \A p \in Process : ValueLevel(p)' = ValueLevel(p) PROVE ValueInv'
    BY <1>1, <1>2, <1>4, Processes DEF ValueInv
  <1>5. QED
    BY <1>3, <1>4

\* Steps that no checker takes part in.
LEMMA CheckersCalm ==
  ASSUME IInv, Kept, eqpc' = eqpc,
         \A p \in Process, r \in Revealers : SameFor(p, r),
         \A p \in Process : Len(ret'[p]) \in Nat /\ Len(ret[p]) <= Len(ret'[p]),
         \A r \in Revealers, m \in Machine : SameHeld(r, m)
  PROVE  /\ HeldInv' /\ VerdictInv' /\ CheckerInv' /\ SettledNow'
         /\ \A r \in Revealers : \A j \in Nat : Settled(r, j) => Settled(r, j)'
  <1>1. TypeOK /\ PlaceInv /\ HeldInv /\ VerdictInv /\ CheckerInv /\ SettledNow
    BY DEF IInv
  <1>2. ASSUME NEW r \in Revealers, NEW m \in Machine
        PROVE  Held(r, m)' /\ Verdict(r, m)' /\ Served(r, m)'
    <2>1. SameFor(garbler(m), r) /\ SameFor(nonGarbler(m), r) /\ SameHeld(r, m)
      BY Processes
    <2>2. Held(r, m) /\ Verdict(r, m) /\ Served(r, m) /\ eqpc'[r][m] = eqpc[r][m]
      BY <1>1 DEF HeldInv, VerdictInv, CheckerInv
    <2>3. QED
      BY <1>1, <2>1, <2>2, CheckerFrame
  <1>3. ASSUME NEW r \in Revealers, NEW m \in Machine
        PROVE  OpenAt(nonGarbler(m), r)' = OpenAt(nonGarbler(m), r)
    BY Processes DEF SameFor, SameView
  <1>4. ASSUME NEW r \in Revealers, NEW j \in Nat, Settled(r, j) PROVE Settled(r, j)'
    BY <1>1, <1>3, <1>4, SettledStays
  <1>5. ASSUME NEW r \in Revealers, NEW m \in Machine
        PROVE  (eqpc[r][m] \in {"g_result", "n_result"} =>
                   \A j \in OpenAt(nonGarbler(m), r) : Settled(r, j))'
    BY <1>1, <1>3, <1>4, SettledNowFrame
  <1>6. QED
    BY <1>2, <1>4, <1>5 DEF HeldInv, VerdictInv, CheckerInv, SettledNow

-----------------------------------------------------------------------------
(* Writing to shared memory.                                                 *)

\* f2 differs from f at a, b only.
Elsewhere(A, B, f, f2, a, b) == \A x \in A, y \in B : x # a \/ y # b => f2[x][y] = f[x][y]

\* The patch of the process, or both, of the RAM at a, b.
MineWritten(A, B, T, f, f2, a, b, v) ==
    /\ f2 \in [A -> [B -> PatchesOf(T)]] /\ f2[a][b].mine = v /\ Elsewhere(A, B, f, f2, a, b)
    /\ \A x \in A, y \in B : f2[x][y].theirs = f[x][y].theirs

PatchesSwapped(A, B, T, f, f2, a, b) ==
    /\ f2 \in [A -> [B -> PatchesOf(T)]] /\ Elsewhere(A, B, f, f2, a, b)
    /\ f2[a][b].mine = f[a][b].theirs /\ f2[a][b].theirs = f[a][b].mine

LEMMA PutMine ==
  ASSUME NEW A, NEW B, NEW T, NEW f \in [A -> [B -> PatchesOf(T)]], NEW a \in A, NEW b \in B,
         NEW v \in T, NEW f2, f2 = [f EXCEPT ![a][b].mine = v]
  PROVE  MineWritten(A, B, T, f, f2, a, b, v)
  BY DEF PatchesOf, MineWritten, Elsewhere

LEMMA PutSwapped ==
  ASSUME NEW A, NEW B, NEW T, NEW f \in [A -> [B -> PatchesOf(T)]], NEW a \in A, NEW b \in B,
         NEW f2, f2 = [f EXCEPT ![a][b] = Swapped(f[a][b])]
  PROVE  PatchesSwapped(A, B, T, f, f2, a, b)
  BY DEF PatchesOf, Swapped, PatchesSwapped, Elsewhere

\* What a process puts there is bits and labels.
LEMMA BitsType ==
  ASSUME TypeOK, NEW k \in 1..Len(script), script[k].op = "reveal"
  PROVE  /\ \A m \in Machine : BitsOf(m, k) \in Bits
         /\ \A p \in Process : LabelsOf(p, k) \in Label
  <1>1. /\ script[k] \in AllCalls /\ k \in 1..MaxCalls /\ k - 1 \in Nat /\ k \in Nat
    BY RevealerAssumption DEF TypeOK
  <1>2. /\ script[k].r \in Revealers /\ script[k].side \in Machine \cup {"BOTH"}
        /\ \A m \in Machine : script[k].val[m] \in Values
    BY <1>1, Calls
  <1>3. script[k].side # "BOTH" => Count(script, k, script[k].r) \in 1..MaxCalls
    <2>1. /\ Count(script, k - 1, script[k].r) \in 0..(k - 1)
          /\ Count(script, (k - 1) + 1, script[k].r) = Count(script, k - 1, script[k].r)
               + IF ToOne(script[(k - 1) + 1], script[k].r) THEN 1 ELSE 0
      BY <1>1, CountNext
    <2>2. (k - 1) + 1 = k
      BY <1>1
    <2>3. script[k].side # "BOTH" => ToOne(script[k], script[k].r)
      BY DEF ToOne, Is
    <2>4. QED
      BY <1>1, <2>1, <2>2, <2>3, RevealerAssumption
  <1>4. ASSUME NEW m \in Machine PROVE BitsOf(m, k) \in Bits
    <2>1. script[k].val[Other(m)] \in Values
      BY <1>2, Processes
    <2>2. CASE script[k].side = "BOTH"
      BY <2>1, <2>2 DEF BitsOf, Bits
    <2>3. CASE script[k].side # "BOTH"
      BY <1>2, <1>3, <2>1, <2>3 DEF BitsOf, Bits
    <2>4. QED
      BY <2>2, <2>3
  <1>5. ASSUME NEW p \in Process PROVE LabelsOf(p, k) \in Label
    <2>1. Exec(p) \in Machine /\ BitsOf(p[1], k) \in Bits
      BY <1>4, Processes DEF Exec
    <2>2. QED
      BY <1>1, <2>1 DEF LabelsOf, Label, GarblerLabels, HeldLabels
  <1>6. QED
    BY <1>4, <1>5

-----------------------------------------------------------------------------
(* Steps of a process that goes on inside its call, without its checker.     *)

pcs == {"idle", "encrypt", "bools", "value", "end", "request", "want", "labels", "bools_out", "result"}

GoesOn(p) ==
    /\ pc[p] \notin {"labels", "bools_out"} /\ pc'[p] \notin {"labels", "bools_out"}
    /\ \A q \in Process \ {p} : pc'[q] = pc[q]
    /\ \A q \in Process \ {p} : \A r \in Revealers :
          /\ ready'[r][q] = ready[r][q] /\ nonce'[r][q] = nonce[r][q]
          /\ wants'[r][q] = wants[r][q] /\ labels'[r][q] = labels[r][q]
    /\ \A r \in Revealers :
          /\ in_progress'[r][p] <=> in_progress[r][p]
          /\ \A q \in Process \ {p} : in_progress'[r][q] <=> in_progress[r][q]
          /\ wants'[r][p].theirs = wants[r][p].theirs /\ labels'[r][p].theirs = labels[r][p].theirs
    /\ UNCHANGED <<script, ret, bools, result, value, eqpc>>

LEMMA GoesOnKeeps ==
  ASSUME IInv, NEW p \in Process, GoesOn(p), TypeOK', Place(p)', Own(p)',
         \A r \in Revealers : Flags(p, r)',
         \A r \in Revealers :
            (nonce[r][p] = Count(script, IF pc[p] = "idle" THEN Len(ret[p]) ELSE Now(p), r))',
         SyncLevel(p)' = SyncLevel(p), ValueLevel(p)' = ValueLevel(p)
  PROVE  IInv'
  <1>1. /\ TypeOK /\ PlaceInv /\ FlagInv /\ ReplyInv /\ AgreeInv /\ NonceInv /\ SyncInv /\ ValueInv
        /\ OwnInv /\ SettledPast /\ OutputsMatch
    BY DEF IInv
  <1>2. script' = script /\ ret' = ret /\ eqpc' = eqpc
    BY DEF GoesOn
  <1>3. /\ \A q \in Process : Now(q)' = Now(q) /\ Call(q)' = Call(q) /\ (GoesAt(q)' <=> GoesAt(q))
        /\ \A q \in Process, r \in Revealers : SameView(q, r)
        /\ \A q \in Process : Len(ret'[q]) \in Nat /\ Len(ret[q]) <= Len(ret'[q])
        /\ Kept /\ ReplyInv' /\ AgreeInv' /\ OutputsMatch'
    BY <1>1, <1>2, StayHistory
  <1>4. ASSUME NEW q \in Process \ {p} PROVE Place(q)'
    <2>1. Place(q) /\ pc'[q] = pc[q]
      BY <1>1 DEF PlaceInv, GoesOn
    <2>2. QED
      BY <1>2, <1>3, <2>1 DEF Place, Outputs
  <1>5. ASSUME NEW q \in Process \ {p}, NEW r \in Revealers PROVE Flags(q, r)'
    <2>1. /\ Flags(q, r) /\ SameView(q, r) /\ pc'[q] = pc[q] /\ ready'[r][q] = ready[r][q]
          /\ Busy(q, r)' <=> Busy(q, r)
      BY <1>1, <1>3 DEF FlagInv, GoesOn, Busy
    <2>2. Wants(q, r)' <=> Wants(q, r)
      BY <1>3, <2>1 DEF Wants
    <2>3. QED
      BY <2>1, <2>2, FlagsFrame
  <1>6. ASSUME NEW q \in Process \ {p} PROVE Own(q)'
    <2>1. Own(q) /\ pc'[q] = pc[q] /\ ret'[q] = ret[q]
      BY <1>1 DEF OwnInv, GoesOn
    <2>2. /\ \A r \in Revealers : labels'[r][q] = labels[r][q] /\ wants'[r][q] = wants[r][q]
          /\ bools' = bools /\ value' = value
      BY DEF GoesOn
    <2>3. QED
      BY <1>1, <1>3, <2>1, <2>2, OwnFrame
  <1>7. NonceInv'
    <2>1. ASSUME NEW q \in Process \ {p}, NEW r \in Revealers
          PROVE  (nonce[r][q] = Count(script, IF pc[q] = "idle" THEN Len(ret[q]) ELSE Now(q), r))'
      BY <1>1, <1>2, <1>3 DEF NonceInv, GoesOn
    <2>2. QED
      BY <2>1 DEF NonceInv
  <1>8. SyncInv' /\ ValueInv'
    <2>1. ASSUME NEW q \in Process \ {p}
          PROVE  SyncLevel(q)' = SyncLevel(q) /\ ValueLevel(q)' = ValueLevel(q)
      <3>1. pc'[q] = pc[q]
        BY DEF GoesOn
      <3>2. QED
        BY <1>3, <3>1 DEF SyncLevel, ValueLevel, Outputs
    <2>2. QED
      BY <1>1, <1>2, <2>1, StayMeet
  <1>9. ASSUME NEW q \in Process, NEW r \in Revealers PROVE SameFor(q, r)
    <2>1. CASE q = p
      BY <1>3, <2>1 DEF SameFor, GoesOn, Asked, Busy
    <2>2. CASE q # p
      <3>1. pc'[q] = pc[q] /\ (in_progress'[r][q] <=> in_progress[r][q])
        BY <2>2 DEF GoesOn
      <3>2. QED
        BY <1>3, <3>1 DEF SameFor, Asked, Busy
    <2>3. QED
      BY <2>1, <2>2
  <1>10. ASSUME NEW r \in Revealers, NEW m \in Machine PROVE SameHeld(r, m)
    <2>1. \A q \in Process : wants'[r][q].theirs = wants[r][q].theirs
                             /\ labels'[r][q].theirs = labels[r][q].theirs
      BY DEF GoesOn
    <2>2. bools' = bools /\ result' = result
      BY DEF GoesOn
    <2>3. QED
      BY <2>1, <2>2, Processes DEF SameHeld
  <1>11. /\ HeldInv' /\ VerdictInv' /\ CheckerInv' /\ SettledNow'
         /\ \A r \in Revealers : \A j \in Nat : Settled(r, j) => Settled(r, j)'
    BY <1>2, <1>3, <1>9, <1>10, CheckersCalm
  <1>12. SettledPast'
    BY <1>1, <1>2, <1>11, StayHistory
  <1>13. PlaceInv' /\ FlagInv' /\ OwnInv'
    BY <1>4, <1>5, <1>6 DEF PlaceInv, FlagInv, OwnInv
  <1>14. QED
    BY <1>3, <1>7, <1>8, <1>11, <1>12, <1>13 DEF IInv

\* Steps in which p is refused, without its checker.
LEMMA RefusedKeeps ==
  ASSUME IInv, NEW p \in Process, NEW out, Answered(p, FALSE, out), ~GoesAt(p),
         pc[p] \notin {"want", "labels", "bools_out"},
         UNCHANGED <<ready, in_progress, wants, bools, result, value, eqpc>>,
         labels' \in [Revealers -> [Process -> PatchesOf(Label \cup {None})]],
         \A r \in Revealers, q \in Process :
            /\ labels'[r][q].theirs = labels[r][q].theirs
            /\ q # p => labels'[r][q] = labels[r][q]
  PROVE  IInv'
  <1>1. /\ TypeOK /\ PlaceInv /\ FlagInv /\ ReplyInv /\ AgreeInv /\ NonceInv /\ SyncInv /\ ValueInv
        /\ OwnInv /\ SettledPast /\ OutputsMatch
    BY DEF IInv
  <1>2. /\ script' = script /\ nonce' = nonce /\ ret' \in [Process -> Seq(Answers)]
        /\ pc' = [pc EXCEPT ![p] = "idle"] /\ pc'[p] = "idle"
        /\ Len(ret'[p]) = Len(ret[p]) + 1
        /\ \A q \in Process \ {p} : ret'[q] = ret[q] /\ pc'[q] = pc[q]
    BY <1>1, AnsweredRet DEF Answered
  <1>3. TypeOK'
    BY <1>1, <1>2 DEF TypeOK, Answers
  <1>4. PlaceInv' /\ ReplyInv' /\ AgreeInv' /\ NonceInv' /\ SyncInv' /\ ValueInv' /\ OutputsMatch'
    BY <1>1, AnsweredPlace, AnsweredAgree, AnsweredNonce, AnsweredMeet, AnsweredOutputs
  <1>5. ASSUME NEW q \in Process, NEW r \in Revealers PROVE SameView(q, r)
    BY <1>1, AnsweredView
  <1>6. Kept /\ \A q \in Process : Len(ret'[q]) \in Nat /\ Len(ret[q]) <= Len(ret'[q])
    BY <1>1, AnsweredKept
  <1>7. ASSUME NEW q \in Process, NEW r \in Revealers PROVE Flags(q, r)' /\ SameFor(q, r)
    <2>1. Flags(q, r) /\ SameView(q, r) /\ (Busy(q, r)' <=> Busy(q, r)) /\ ready'[r][q] = ready[r][q]
      BY <1>1, <1>5 DEF FlagInv, Busy
    <2>2. /\ Wants(q, r)' <=> Wants(q, r)
          /\ Asked(q, r)' <=> Asked(q, r)
          /\ Asked(q, r) => pc'[q] = pc[q] /\ Now(q)' = Now(q)
      BY <1>2 DEF Wants, Asked, Call, Now
    <2>3. QED
      BY <2>1, <2>2, FlagsFrame DEF SameFor
  <1>8. ASSUME NEW q \in Process PROVE Own(q)'
    <2>1. CASE q = p
      BY <1>2, <2>1 DEF Own, ValueLevel
    <2>2. CASE q # p
      <3>1. Own(q) /\ pc'[q] = pc[q] /\ ret'[q] = ret[q] /\ \A r \in Revealers : labels'[r][q] = labels[r][q]
        BY <1>1, <1>2, <2>2 DEF OwnInv
      <3>2. QED
        BY <1>1, <1>6, <3>1, OwnFrame
    <2>3. QED
      BY <2>1, <2>2
  <1>9. ASSUME NEW r \in Revealers, NEW m \in Machine PROVE SameHeld(r, m)
    BY Processes DEF SameHeld
  <1>10. /\ HeldInv' /\ VerdictInv' /\ CheckerInv' /\ SettledNow'
         /\ \A r \in Revealers : \A j \in Nat : Settled(r, j) => Settled(r, j)'
    BY <1>6, <1>7, <1>9, CheckersCalm
  <1>11. Call(p).op = "results" => OpenAt(p, Call(p).r) = {}
    BY DEF GoesAt, Goes, OpenAt, Call, Now
  <1>12. SettledPast'
    BY <1>1, <1>10, <1>11, SettledPastReturn
  <1>13. FlagInv' /\ OwnInv'
    BY <1>7, <1>8 DEF FlagInv, OwnInv
  <1>14. QED
    BY <1>3, <1>4, <1>10, <1>12, <1>13 DEF IInv

-----------------------------------------------------------------------------
(* The actions.                                                              *)

LEMMA revealKeeps ==
  ASSUME IInv, NEW p \in Process, pc[p] = "idle", Len(ret[p]) < Len(script), reveal(p),
         UNCHANGED <<script, eqpc>>
  PROVE  IInv'
  <1> DEFINE r0 == Call(p).r
  <1>1. TypeOK /\ PlaceInv /\ FlagInv /\ NonceInv
    BY DEF IInv
  <1>2. /\ Now(p) <= Len(script) /\ Now(p) = Len(ret[p]) + 1 /\ Len(ret[p]) \in Nat
        /\ r0 \in Revealers /\ Call(p).op = "reveal" /\ Call(p) = script[Now(p)]
        /\ UNCHANGED <<script, ret, ready, in_progress, wants, labels, bools, result, value, eqpc>>
    BY <1>1, Typed, Called DEF reveal, ramVars
  <1>3. /\ \A q \in Process : Now(q)' = Now(q) /\ Call(q)' = Call(q) /\ (GoesAt(q)' <=> GoesAt(q))
        /\ \A q \in Process, r \in Revealers : SameView(q, r)
    BY <1>1, <1>2, StayHistory
  <1>4. /\ Call(p).side = "BOTH" => pc' = [pc EXCEPT ![p] = "bools"] /\ nonce' = nonce
        /\ Call(p).side # "BOTH" =>
              pc' = [pc EXCEPT ![p] = "encrypt"] /\ nonce' = [nonce EXCEPT ![r0][p] = nonce[r0][p] + 1]
    BY DEF reveal, Goto
  <1>5. /\ pc \in [Process -> pcs] /\ nonce \in [Revealers -> [Process -> 0..MaxCalls]]
        /\ Len(script) \in Nat /\ Len(script) <= MaxCalls /\ MaxCalls \in Nat
    BY <1>1, RevealerAssumption DEF TypeOK, pcs
  <1>6. /\ pc' \in [Process -> pcs] /\ \A q \in Process \ {p} : pc'[q] = pc[q]
        /\ Call(p).side = "BOTH" => pc'[p] = "bools"
        /\ Call(p).side # "BOTH" => pc'[p] = "encrypt"
    BY <1>4, <1>5 DEF pcs
  <1>7. ASSUME NEW r \in Revealers
        PROVE  /\ nonce[r][p] = Count(script, Len(ret[p]), r)
               /\ nonce'[r][p] = Count(script, Now(p), r) /\ nonce'[r][p] \in 0..MaxCalls
               /\ \A q \in Process \ {p} : nonce'[r][q] = nonce[r][q]
    <2>1. nonce[r][p] = Count(script, Len(ret[p]), r)
      BY <1>1 DEF NonceInv
    <2>2. Count(script, Len(ret[p]) + 1, r) = Count(script, Len(ret[p]), r)
            + IF ToOne(script[Len(ret[p]) + 1], r) THEN 1 ELSE 0
      BY <1>2, CountNext
    <2>3. Count(script, Len(ret[p]) + 1, r) \in 0..(Len(ret[p]) + 1)
      BY <1>2, CountNext
    <2>4. ToOne(script[Len(ret[p]) + 1], r) <=> r = r0 /\ Call(p).side # "BOTH"
      BY <1>2 DEF ToOne, Is
    <2>5. /\ nonce'[r][p] = nonce[r][p] + IF r = r0 /\ Call(p).side # "BOTH" THEN 1 ELSE 0
          /\ \A q \in Process \ {p} : nonce'[r][q] = nonce[r][q]
      BY <1>2, <1>4, <1>5
    <2>6. QED
      BY <1>2, <1>5, <2>1, <2>2, <2>3, <2>4, <2>5
  <1>8. TypeOK'
    <2>1. nonce' \in [Revealers -> [Process -> 0..MaxCalls]]
      <3>1. CASE Call(p).side = "BOTH"
        BY <1>4, <1>5, <3>1
      <3>2. CASE Call(p).side # "BOTH"
        <4>1. nonce[r0][p] + 1 \in 0..MaxCalls
          BY <1>2, <1>4, <1>5, <1>7, <3>2
        <4>2. nonce' = [nonce EXCEPT ![r0][p] = nonce[r0][p] + 1]
          BY <1>4, <3>2
        <4>3. r0 \in Revealers /\ nonce \in [Revealers -> [Process -> 0..MaxCalls]]
          BY <1>2, <1>5
        <4> HIDE DEF r0
        <4>4. QED
          BY <4>1, <4>2, <4>3
      <3>3. QED
        BY <3>1, <3>2
    <2>2. QED
      BY <1>1, <1>2, <1>6, <2>1 DEF TypeOK, pcs
  <1>9. GoesOn(p)
    BY <1>2, <1>6, <1>7 DEF GoesOn
  <1>10. Place(p)'
    BY <1>2, <1>3, <1>6 DEF Place, Revealing
  <1>11. ASSUME NEW r \in Revealers PROVE Flags(p, r)'
    <2>1. Flags(p, r) /\ SameView(p, r) /\ ~Wants(p, r) /\ ~Wants(p, r)'
      BY <1>1, <1>3, <1>6 DEF FlagInv, Wants
    <2>2. QED
      BY <1>2, <2>1, FlagsFrame DEF Busy
  <1>12. SyncLevel(p)' = SyncLevel(p) /\ ValueLevel(p)' = ValueLevel(p) /\ ValueLevel(p)' = 0
    BY <1>2, <1>3, <1>6 DEF SyncLevel, ValueLevel
  <1>13. Own(p)'
    BY <1>6, <1>12 DEF Own
  <1>14. ASSUME NEW r \in Revealers
         PROVE  (nonce[r][p] = Count(script, IF pc[p] = "idle" THEN Len(ret[p]) ELSE Now(p), r))'
    BY <1>2, <1>3, <1>6, <1>7
  <1>15. QED
    BY <1>8, <1>9, <1>10, <1>11, <1>12, <1>13, <1>14, GoesOnKeeps

LEMMA get_eq_check_resultsKeeps ==
  ASSUME IInv, NEW p \in Process, pc[p] = "idle", Len(ret[p]) < Len(script),
         get_eq_check_results(p), UNCHANGED <<script, eqpc>>
  PROVE  IInv'
  <1> DEFINE r0 == Call(p).r
  <1>1. TypeOK /\ PlaceInv /\ FlagInv /\ NonceInv
    BY DEF IInv
  <1>2. /\ Now(p) <= Len(script) /\ r0 \in Revealers /\ Call(p).op = "results" /\ Call(p) = script[Now(p)]
        /\ UNCHANGED <<script, ready, in_progress, nonce, wants, labels, bools, result, value, eqpc>>
    BY <1>1, Typed, Called DEF get_eq_check_results, procVars, ramVars
  <1>3. in_progress[r0][p] <=> GoesAt(p)
    BY <1>1, <1>2 DEF FlagInv, Flags, Busy, GoesAt, Goes, OpenAt
  <1>4. CASE in_progress[r0][p]
    <2>1. pc' = [pc EXCEPT ![p] = "result"] /\ ret' = ret
      BY <1>4 DEF get_eq_check_results, Goto
    <2>2. /\ \A q \in Process : Now(q)' = Now(q) /\ Call(q)' = Call(q) /\ (GoesAt(q)' <=> GoesAt(q))
          /\ \A q \in Process, r \in Revealers : SameView(q, r)
      BY <1>1, <1>2, <2>1, StayHistory
    <2>3. pc' \in [Process -> pcs] /\ pc'[p] = "result" /\ \A q \in Process \ {p} : pc'[q] = pc[q]
      BY <1>1, <2>1 DEF TypeOK, pcs
    <2>4. TypeOK'
      BY <1>1, <1>2, <2>1, <2>3 DEF TypeOK, pcs
    <2>5. GoesOn(p)
      BY <1>2, <2>1, <2>3 DEF GoesOn
    <2>6. Place(p)'
      BY <1>1, <1>2, <1>3, <1>4, <2>2, <2>3, Typed DEF Place, Revealing
    <2>7. ASSUME NEW r \in Revealers PROVE Flags(p, r)'
      <3>1. Flags(p, r) /\ SameView(p, r) /\ ~Wants(p, r) /\ ~Wants(p, r)'
        BY <1>1, <2>2, <2>3 DEF FlagInv, Wants
      <3>2. QED
        BY <1>2, <3>1, FlagsFrame DEF Busy
    <2>8. SyncLevel(p)' = SyncLevel(p) /\ ValueLevel(p)' = ValueLevel(p) /\ ValueLevel(p)' = 0
      BY <2>2, <2>3 DEF SyncLevel, ValueLevel
    <2>9. Own(p)'
      BY <2>3, <2>8 DEF Own
    <2>10. ASSUME NEW r \in Revealers
           PROVE  (nonce[r][p] = Count(script, IF pc[p] = "idle" THEN Len(ret[p]) ELSE Now(p), r))'
      <3>1. Len(ret[p]) \in Nat /\ Now(p) = Len(ret[p]) + 1 /\ ~ToOne(script[Now(p)], r)
        BY <1>1, <1>2, Typed DEF ToOne, Is
      <3>2. /\ Count(script, Len(ret[p]), r) \in 0..Len(ret[p])
            /\ Count(script, Len(ret[p]) + 1, r) = Count(script, Len(ret[p]), r) + 0
        BY <3>1, CountNext
      <3>3. nonce[r][p] = Count(script, Len(ret[p]), r)
        BY <1>1 DEF NonceInv
      <3>4. QED
        BY <1>2, <2>2, <2>3, <3>1, <3>2, <3>3
    <2>11. QED
      BY <2>4, <2>5, <2>6, <2>7, <2>8, <2>9, <2>10, GoesOnKeeps
  <1>5. CASE ~in_progress[r0][p]
    <2>1. Return(p, FALSE, None)
      BY <1>5 DEF get_eq_check_results
    <2>2. ~Equal(script, ret[p], Now(p), r0)
      BY <1>2, <1>3, <1>5 DEF Equal, GoesAt, Goes
    <2>3. Answered(p, FALSE, None)
      BY <1>2, <2>1, <2>2 DEF Answered
    <2>4. labels' \in [Revealers -> [Process -> PatchesOf(Label \cup {None})]]
      BY <1>1, <1>2 DEF TypeOK
    <2>5. QED
      BY <1>2, <1>3, <1>5, <2>3, <2>4, RefusedKeeps
  <1>6. QED
    BY <1>4, <1>5

LEMMA stop_eq_checkerKeeps ==
  ASSUME IInv, NEW p \in Process, pc[p] = "idle", Len(ret[p]) < Len(script),
         stop_eq_checker(p), UNCHANGED <<script, eqpc>>
  PROVE  IInv'
  <1> DEFINE r0 == Call(p).r
  <1>1. TypeOK /\ PlaceInv /\ FlagInv /\ NonceInv
    BY DEF IInv
  <1>2. /\ Now(p) <= Len(script) /\ r0 \in Revealers /\ Call(p).op = "stop" /\ Call(p) = script[Now(p)]
        /\ UNCHANGED <<script, nonce, labels, bools, result, value, eqpc>>
    BY <1>1, Typed, Called DEF stop_eq_checker
  <1>3. /\ ready[r0][p] <=> GoesAt(p)
        /\ ready[r0][p] => ~in_progress[r0][p] /\ ~HaltedAt(p, r0)
    <2>1. Flags(p, r0) /\ ~Wants(p, r0)
      BY <1>1, <1>2 DEF FlagInv, Wants
    <2>2. GoesAt(p) <=> OpenAt(p, r0) = {} /\ ~HaltedAt(p, r0)
      BY <1>2 DEF GoesAt, Goes, OpenAt, HaltedAt
    <2>3. QED
      BY <2>1, <2>2 DEF Flags, Busy
  <1>4. /\ ready \in [Revealers -> [Process -> BOOLEAN]] /\ in_progress \in [Revealers -> [Process -> BOOLEAN]]
        /\ wants \in [Revealers -> [Process -> PatchesOf(Request)]] /\ pc \in [Process -> pcs]
    BY <1>1 DEF TypeOK, pcs
  <1>5. CASE ready[r0][p]
    <2>1. /\ pc' = [pc EXCEPT ![p] = "want"] /\ ret' = ret
          /\ ready' = [ready EXCEPT ![r0][p] = FALSE]
          /\ in_progress' = [in_progress EXCEPT ![r0][p] = FALSE]
          /\ wants' = [wants EXCEPT ![r0][p].mine.want_reveal = FALSE]
      BY <1>5 DEF stop_eq_checker, Goto
    <2>2. /\ \A q \in Process : Now(q)' = Now(q) /\ Call(q)' = Call(q) /\ (GoesAt(q)' <=> GoesAt(q))
          /\ \A q \in Process, r \in Revealers : SameView(q, r)
      BY <1>1, <1>2, <2>1, StayHistory
    <2>3. pc' \in [Process -> pcs] /\ pc'[p] = "want" /\ \A q \in Process \ {p} : pc'[q] = pc[q]
      BY <1>4, <2>1 DEF pcs
    <2> HIDE DEF r0
    <2>4. /\ ready' \in [Revealers -> [Process -> BOOLEAN]] /\ ~ready'[r0][p]
          /\ \A r \in Revealers, q \in Process : r # r0 \/ q # p => ready'[r][q] = ready[r][q]
      BY <1>2, <1>4, <2>1
    <2>5. in_progress' = in_progress
      BY <1>2, <1>3, <1>4, <1>5, <2>1
    <2>6. /\ wants' \in [Revealers -> [Process -> PatchesOf(Request)]] /\ ~wants'[r0][p].mine.want_reveal
          /\ \A r \in Revealers, q \in Process : r # r0 \/ q # p => wants'[r][q] = wants[r][q]
          /\ wants'[r0][p].theirs = wants[r0][p].theirs
      <3> DEFINE w == [wants[r0][p].mine EXCEPT !.want_reveal = FALSE]
      <3>1. w \in Request /\ ~w.want_reveal /\ wants' = [wants EXCEPT ![r0][p].mine = w]
        <4>1. wants[r0][p].mine \in Request
          BY <1>2, <1>4 DEF PatchesOf
        <4>2. w \in Request /\ ~w.want_reveal
          BY <4>1 DEF Request
        <4>3. wants' = [wants EXCEPT ![r0][p].mine = w]
          BY <2>1
        <4>4. QED
          BY <4>2, <4>3
      <3> HIDE DEF w
      <3>2. MineWritten(Revealers, Process, Request, wants, wants', r0, p, w)
        BY <1>2, <1>4, <3>1, PutMine
      <3>3. QED
        BY <1>2, <3>1, <3>2 DEF MineWritten, Elsewhere
    <2>7. TypeOK'
      BY <1>1, <1>2, <2>1, <2>3, <2>4, <2>5, <2>6 DEF TypeOK, pcs
    <2>8. GoesOn(p)
      BY <1>2, <2>1, <2>3, <2>4, <2>5, <2>6 DEF GoesOn
    <2>9. Place(p)'
      BY <1>1, <1>2, <2>2, <2>3, Typed DEF Place, Revealing
    <2>10. ASSUME NEW r \in Revealers PROVE Flags(p, r)'
      <3>1. Flags(p, r) /\ SameView(p, r) /\ ~Wants(p, r)
        BY <1>1, <2>2 DEF FlagInv, Wants
      <3>2. CASE r = r0
        <4>1. Wants(p, r)' /\ ~Busy(p, r) /\ ~HaltedAt(p, r)
          BY <1>3, <1>5, <2>2, <2>3, <3>2 DEF Wants, Busy, r0
        <4>2. ~Busy(p, r)' /\ ~ready'[r][p] /\ ~HaltedAt(p, r)' /\ OpenAt(p, r)' = {}
          BY <2>4, <2>5, <3>1, <3>2, <4>1 DEF Flags, SameView, Busy
        <4>3. QED
          BY <4>1, <4>2 DEF Flags
      <3>3. CASE r # r0
        <4>1. ~Wants(p, r)'
          BY <2>2, <3>3 DEF Wants, r0
        <4>2. QED
          BY <2>4, <2>5, <3>1, <3>3, <4>1, FlagsFrame DEF Busy
      <3>4. QED
        BY <3>2, <3>3
    <2>11. SyncLevel(p)' = SyncLevel(p) /\ ValueLevel(p)' = ValueLevel(p) /\ ValueLevel(p)' = 0
      BY <1>2, <2>2, <2>3 DEF SyncLevel, ValueLevel
    <2>12. Own(p)'
      BY <1>2, <2>2, <2>3, <2>6, <2>11 DEF Own, r0
    <2>13. ASSUME NEW r \in Revealers
           PROVE  (nonce[r][p] = Count(script, IF pc[p] = "idle" THEN Len(ret[p]) ELSE Now(p), r))'
      <3>1. Len(ret[p]) \in Nat /\ Now(p) = Len(ret[p]) + 1 /\ ~ToOne(script[Now(p)], r)
        BY <1>1, <1>2, Typed DEF ToOne, Is
      <3>2. /\ Count(script, Len(ret[p]), r) \in 0..Len(ret[p])
            /\ Count(script, Len(ret[p]) + 1, r) = Count(script, Len(ret[p]), r) + 0
        BY <3>1, CountNext
      <3>3. nonce[r][p] = Count(script, Len(ret[p]), r)
        BY <1>1 DEF NonceInv
      <3>4. QED
        BY <1>2, <2>2, <2>3, <3>1, <3>2, <3>3
    <2>14. QED
      BY <2>7, <2>8, <2>9, <2>10, <2>11, <2>12, <2>13, GoesOnKeeps
  <1>6. CASE ~ready[r0][p]
    <2>1. Return(p, FALSE, None) /\ UNCHANGED <<ready, in_progress, wants>>
      BY <1>6 DEF stop_eq_checker
    <2>2. Answered(p, FALSE, None)
      BY <1>2, <1>3, <1>6, <2>1 DEF Answered
    <2>3. labels' \in [Revealers -> [Process -> PatchesOf(Label \cup {None})]]
      BY <1>1, <1>2 DEF TypeOK
    <2>4. QED
      BY <1>2, <1>3, <1>6, <2>1, <2>2, <2>3, RefusedKeeps
  <1>7. QED
    BY <1>5, <1>6

LEMMA request_eq_checkKeeps ==
  ASSUME IInv, NEW p \in Process, request_eq_check(p)
  PROVE  IInv'
  <1> DEFINE r0 == Call(p).r
             own == LabelsOf(p, Now(p))
  <1>1. TypeOK /\ PlaceInv /\ FlagInv /\ NonceInv /\ OwnInv
    BY DEF IInv
  <1>2. /\ pc[p] = "request" /\ Now(p) \in 1..Len(script) /\ r0 \in Revealers /\ Call(p).op = "reveal"
        /\ Call(p) = script[Now(p)] /\ Call(p).side \in Machine \cup {"BOTH"}
        /\ UNCHANGED <<script, in_progress, nonce, bools, result, value, eqpc>>
    BY <1>1, Called DEF request_eq_check, PlaceInv, Place, Revealing
  <1>3. p[2] = "non_garbler" => bools[r0][p[1]].mine = BitsOf(p[1], Now(p))
    BY <1>1, <1>2 DEF OwnInv, Own
  <1>4. labels' = [labels EXCEPT ![r0][p].mine = own]
    BY <1>3, Processes DEF request_eq_check, LabelsOf, Now
  <1>5. own \in Label
    BY <1>1, <1>2, BitsType
  <1>6. /\ ready[r0][p] <=> GoesAt(p)
        /\ ready[r0][p] => ~in_progress[r0][p] /\ ~HaltedAt(p, r0)
    <2>1. Flags(p, r0) /\ ~Wants(p, r0)
      BY <1>1, <1>2 DEF FlagInv, Wants
    <2>2. GoesAt(p) <=> OpenAt(p, r0) = {} /\ ~HaltedAt(p, r0)
      BY <1>2 DEF GoesAt, Goes, OpenAt, HaltedAt
    <2>3. QED
      BY <2>1, <2>2 DEF Flags, Busy
  <1>7. /\ ready \in [Revealers -> [Process -> BOOLEAN]] /\ pc \in [Process -> pcs]
        /\ wants \in [Revealers -> [Process -> PatchesOf(Request)]]
        /\ labels \in [Revealers -> [Process -> PatchesOf(Label \cup {None})]]
        /\ value \in [Revealers -> [Machine -> PatchesOf(Values \cup {None})]]
    BY <1>1 DEF TypeOK, pcs
  <1> HIDE DEF r0, own
  <1>8. /\ labels' \in [Revealers -> [Process -> PatchesOf(Label \cup {None})]] /\ labels'[r0][p].mine = own
        /\ \A r \in Revealers, q \in Process : r # r0 \/ q # p => labels'[r][q] = labels[r][q]
        /\ \A r \in Revealers, q \in Process : labels'[r][q].theirs = labels[r][q].theirs
    <2>1. own \in Label \cup {None}
      BY <1>5
    <2>2. MineWritten(Revealers, Process, Label \cup {None}, labels, labels', r0, p, own)
      BY <1>2, <1>4, <1>7, <2>1, PutMine
    <2>3. QED
      BY <2>2 DEF MineWritten, Elsewhere
  <1>9. CASE ready[r0][p]
    <2> DEFINE req == [want_reveal |-> TRUE, reveal_side |-> Call(p).side]
    <2>1. /\ pc' = [pc EXCEPT ![p] = "want"] /\ ret' = ret
          /\ ready' = [ready EXCEPT ![r0][p] = FALSE]
          /\ wants' = [wants EXCEPT ![r0][p].mine = req]
      BY <1>9 DEF request_eq_check, Goto, r0
    <2>2. /\ \A q \in Process : Now(q)' = Now(q) /\ Call(q)' = Call(q) /\ (GoesAt(q)' <=> GoesAt(q))
          /\ \A q \in Process, r \in Revealers : SameView(q, r)
          /\ Kept
      BY <1>1, <1>2, <2>1, StayHistory
    <2>3. pc' \in [Process -> pcs] /\ pc'[p] = "want" /\ \A q \in Process \ {p} : pc'[q] = pc[q]
      BY <1>7, <2>1 DEF pcs
    <2>4. /\ ready' \in [Revealers -> [Process -> BOOLEAN]] /\ ~ready'[r0][p]
          /\ \A r \in Revealers, q \in Process : r # r0 \/ q # p => ready'[r][q] = ready[r][q]
      BY <1>2, <1>7, <2>1
    <2>5. req \in Request /\ req.want_reveal
      BY <1>2 DEF Request
    <2> HIDE DEF req
    <2>6. /\ wants' \in [Revealers -> [Process -> PatchesOf(Request)]] /\ wants'[r0][p].mine = req
          /\ \A r \in Revealers, q \in Process : r # r0 \/ q # p => wants'[r][q] = wants[r][q]
          /\ \A r \in Revealers, q \in Process : wants'[r][q].theirs = wants[r][q].theirs
      <3>1. MineWritten(Revealers, Process, Request, wants, wants', r0, p, req)
        BY <1>2, <1>7, <2>1, <2>5, PutMine
      <3>2. QED
        BY <3>1 DEF MineWritten, Elsewhere
    <2>7. TypeOK'
      BY <1>1, <1>2, <1>8, <2>1, <2>3, <2>4, <2>6 DEF TypeOK, pcs
    <2>8. GoesOn(p)
      BY <1>2, <1>8, <2>1, <2>3, <2>4, <2>6 DEF GoesOn
    <2>9. Place(p)'
      <3>1. Place(p)
        BY <1>1 DEF PlaceInv
      <3>2. QED
        BY <1>2, <2>2, <2>3, <3>1 DEF Place, Revealing
    <2>10. ASSUME NEW r \in Revealers PROVE Flags(p, r)'
      <3>1. Flags(p, r) /\ SameView(p, r) /\ ~Wants(p, r)
        BY <1>1, <1>2, <2>2 DEF FlagInv, Wants
      <3>2. CASE r = r0
        <4>1. Wants(p, r)' /\ ~Busy(p, r) /\ ~HaltedAt(p, r)
          BY <1>6, <1>9, <2>2, <2>3, <3>2 DEF Wants, Busy, r0
        <4>2. ~Busy(p, r)' /\ ~ready'[r][p] /\ ~HaltedAt(p, r)' /\ OpenAt(p, r)' = {}
          BY <1>2, <2>4, <3>1, <3>2, <4>1 DEF Flags, SameView, Busy
        <4>3. QED
          BY <4>1, <4>2 DEF Flags
      <3>3. CASE r # r0
        <4>1. ~Wants(p, r)'
          BY <2>2, <3>3 DEF Wants, r0
        <4>2. QED
          BY <1>2, <2>4, <3>1, <3>3, <4>1, FlagsFrame DEF Busy
      <3>4. QED
        BY <3>2, <3>3
    <2>11. SyncLevel(p)' = SyncLevel(p) /\ ValueLevel(p)' = ValueLevel(p)
      BY <1>2, <2>2, <2>3 DEF SyncLevel, ValueLevel, Outputs
    <2>12. Own(p)'
      <3>1. Own(p)
        BY <1>1 DEF OwnInv
      <3>2. BitsOf(p[1], Now(p))' = BitsOf(p[1], Now(p)) /\ LabelsOf(p, Now(p))' = LabelsOf(p, Now(p))
        BY <1>2, <2>2 DEF BitsOf, LabelsOf, HeldLabels, GarblerLabels
      <3>3. QED
        BY <1>2, <1>8, <2>2, <2>3, <2>5, <2>6, <2>11, <3>1, <3>2 DEF Own, own, r0
    <2>13. ASSUME NEW r \in Revealers
           PROVE  (nonce[r][p] = Count(script, IF pc[p] = "idle" THEN Len(ret[p]) ELSE Now(p), r))'
      BY <1>1, <1>2, <2>2, <2>3 DEF NonceInv
    <2>14. QED
      BY <2>7, <2>8, <2>9, <2>10, <2>11, <2>12, <2>13, GoesOnKeeps
  <1>10. CASE ~ready[r0][p]
    <2>1. Return(p, FALSE, Output(p)) /\ UNCHANGED <<ready, wants>>
      BY <1>10 DEF request_eq_check, r0
    <2>2. Output(p) \in Values \cup {None}
      BY <1>2, <1>7, Processes DEF Output, PatchesOf, r0
    <2>3. Answered(p, FALSE, Output(p))
      <3>1. Now(p) <= Len(script)
        BY <1>2
      <3>2. ~GoesAt(p)
        BY <1>6, <1>10
      <3>3. QED
        BY <1>2, <2>1, <2>2, <3>1, <3>2 DEF Answered
    <2>4. \A r \in Revealers, q \in Process :
             /\ labels'[r][q].theirs = labels[r][q].theirs
             /\ q # p => labels'[r][q] = labels[r][q]
      BY <1>8
    <2>5. QED
      BY <1>2, <1>6, <1>8, <1>10, <2>1, <2>3, <2>4, RefusedKeeps
  <1>11. QED
    BY <1>9, <1>10

-----------------------------------------------------------------------------
(* Steps in which two processes meet.                                        *)

\* Two processes in the same sync are in the same call.
LEMMA SyncPair ==
  ASSUME TypeOK, PlaceInv, SyncInv, NEW e \in Machine,
         AtSync(garbler(e)), AtSync(nonGarbler(Other(e)))
  PROVE  /\ Now(garbler(e)) = Now(nonGarbler(Other(e)))
         /\ Call(garbler(e)) = Call(nonGarbler(Other(e)))
         /\ pc[garbler(e)] = pc[nonGarbler(Other(e))]
  <1> DEFINE g == garbler(e)
             n == nonGarbler(Other(e))
  <1>1. g \in Process /\ n \in Process
    BY Processes
  <1>2. InStep(Now(g), Now(n), SyncLevel(g), SyncLevel(n), Reveals, 3)
    BY DEF SyncInv
  <1>3. pc[g] \in {"encrypt", "bools", "end"} /\ pc[n] \in {"encrypt", "bools", "end"}
    BY DEF AtSync
  <1> HIDE DEF g, n
  <1>4. /\ Call(g).op = "reveal" /\ Now(g) \in 1..Len(script) /\ Call(g) = script[Now(g)]
        /\ Call(n).op = "reveal" /\ Now(n) \in 1..Len(script) /\ Call(n) = script[Now(n)]
        /\ pc[g] = "encrypt" => Call(g).side # "BOTH"
        /\ pc[n] = "encrypt" => Call(n).side # "BOTH"
    BY <1>1, <1>3, Called DEF PlaceInv, Place, Revealing
  <1>5. Now(g) \in Reveals /\ Now(n) \in Reveals
    BY <1>4 DEF Reveals
  <1>6. SyncLevel(g) # 3 /\ SyncLevel(n) # 3
    BY <1>3 DEF SyncLevel
  <1>7. Now(g) = Now(n)
    BY <1>2, <1>4, <1>5, <1>6 DEF InStep
  <1>8. SyncLevel(g) = SyncLevel(n)
    BY <1>2, <1>7 DEF InStep
  <1>9. pc[g] = pc[n]
    BY <1>3, <1>4, <1>7, <1>8 DEF SyncLevel
  <1>10. QED
    BY <1>4, <1>7, <1>9 DEF g, n

MeetsAt == {"encrypt", "bools", "value", "end", "request"}

LEMMA MeetKeeps ==
  ASSUME IInv, NEW g \in Process, NEW n \in Process,
         UNCHANGED <<script, ret, procVars, wants, labels, result, eqpc>>,
         \A q \in {g, n} : pc[q] \in MeetsAt /\ pc'[q] \in MeetsAt,
         \A q \in Process \ {g, n} : pc'[q] = pc[q],
         \A r \in Revealers, m \in Machine : bools'[r][m].theirs = bools[r][m].theirs,
         TypeOK', \A q \in {g, n} : Place(q)', \A q \in Process : Own(q)', SyncInv', ValueInv'
  PROVE  IInv'
  <1>1. /\ TypeOK /\ PlaceInv /\ FlagInv /\ ReplyInv /\ AgreeInv /\ NonceInv /\ SettledPast /\ OutputsMatch
    BY DEF IInv
  <1>2. script' = script /\ ret' = ret /\ in_progress' = in_progress /\ ready' = ready /\ nonce' = nonce
    BY DEF procVars
  <1>3. /\ \A q \in Process : Now(q)' = Now(q) /\ Call(q)' = Call(q) /\ (GoesAt(q)' <=> GoesAt(q))
        /\ \A q \in Process, r \in Revealers : SameView(q, r)
        /\ \A q \in Process : Len(ret'[q]) \in Nat /\ Len(ret[q]) <= Len(ret'[q])
        /\ Kept /\ ReplyInv' /\ AgreeInv' /\ OutputsMatch'
    BY <1>1, <1>2, StayHistory
  <1>4. ASSUME NEW q \in Process PROVE Place(q)'
    <2>1. CASE q \in {g, n}
      BY <2>1
    <2>2. CASE q \notin {g, n}
      <3>1. Place(q) /\ pc'[q] = pc[q]
        BY <1>1, <2>2 DEF PlaceInv
      <3>2. QED
        BY <1>2, <1>3, <3>1 DEF Place, Outputs
    <2>3. QED
      BY <2>1, <2>2
  <1>5. ASSUME NEW q \in Process, NEW r \in Revealers PROVE Flags(q, r)' /\ SameFor(q, r)
    <2>1. Flags(q, r) /\ SameView(q, r) /\ (Busy(q, r)' <=> Busy(q, r)) /\ ready'[r][q] = ready[r][q]
      BY <1>1, <1>2, <1>3 DEF FlagInv, Busy
    <2>2. /\ Wants(q, r)' <=> Wants(q, r)
          /\ Asked(q, r)' <=> Asked(q, r)
          /\ Asked(q, r) => pc'[q] = pc[q] /\ Now(q)' = Now(q)
      BY <1>3 DEF Wants, Asked, MeetsAt
    <2>3. QED
      BY <2>1, <2>2, FlagsFrame DEF SameFor
  <1>6. NonceInv'
    <2>1. ASSUME NEW q \in Process, NEW r \in Revealers
          PROVE  (nonce[r][q] = Count(script, IF pc[q] = "idle" THEN Len(ret[q]) ELSE Now(q), r))'
      <3>1. pc'[q] = "idle" <=> pc[q] = "idle"
        BY DEF MeetsAt
      <3>2. QED
        BY <1>1, <1>2, <1>3, <3>1 DEF NonceInv
    <2>2. QED
      BY <2>1 DEF NonceInv
  <1>7. ASSUME NEW r \in Revealers, NEW m \in Machine PROVE SameHeld(r, m)
    BY DEF SameHeld
  <1>8. /\ HeldInv' /\ VerdictInv' /\ CheckerInv' /\ SettledNow'
        /\ \A r \in Revealers : \A j \in Nat : Settled(r, j) => Settled(r, j)'
    BY <1>3, <1>5, <1>7, CheckersCalm
  <1>9. SettledPast'
    BY <1>1, <1>2, <1>8, StayHistory
  <1>10. PlaceInv' /\ FlagInv' /\ OwnInv'
    BY <1>4, <1>5 DEF PlaceInv, FlagInv, OwnInv
  <1>11. QED
    BY <1>3, <1>6, <1>8, <1>9, <1>10 DEF IInv

LEMMA SyncKeeps ==
  ASSUME IInv, NEW e \in Machine, Sync(e)
  PROVE  IInv'
  <1> DEFINE g == garbler(e)
             n == nonGarbler(Other(e))
             m == Other(e)
             r0 == Call(n).r
  <1>1. TypeOK /\ PlaceInv /\ NonceInv /\ SyncInv /\ ValueInv /\ OwnInv
    BY DEF IInv
  <1>2. /\ g \in Process /\ n \in Process /\ g # n /\ m \in Machine /\ n[1] = m /\ g[2] = "garbler"
        /\ n[2] = "non_garbler" /\ Other(m) = e /\ g[1] = e
    BY Processes
  <1>3. Now(g) = Now(n) /\ Call(g) = Call(n) /\ pc[g] = pc[n] /\ pc[n] \in {"encrypt", "bools", "end"}
    BY <1>1, SyncPair DEF Sync, AtSync
  <1>4. /\ Now(n) \in 1..Len(script) /\ Call(n) = script[Now(n)] /\ Call(n).op = "reveal"
        /\ r0 \in Revealers /\ Call(n).side \in Machine \cup {"BOTH"} /\ Call(n).val[e] \in Values
        /\ pc[n] = "encrypt" => Call(n).side # "BOTH"
    BY <1>1, <1>2, <1>3, Called DEF PlaceInv, Place, Revealing
  <1>5. /\ pc' = [pc EXCEPT ![g] = AfterSync(g), ![n] = AfterSync(n)]
        /\ UNCHANGED <<script, ret, procVars, wants, labels, result, eqpc>>
        /\ pc[n] = "bools" => /\ bools' = [bools EXCEPT ![r0][m].mine = RevealedBits(n, g)]
                              /\ Outputs(n) => value' = [value EXCEPT ![r0][m].mine = Call(n).val[e]]
                              /\ ~Outputs(n) => value' = value
        /\ pc[n] # "bools" => bools' = bools /\ value' = value
    BY <1>2 DEF Sync
  <1>6. RevealedBits(n, g) = BitsOf(m, Now(n))
    <2>1. nonce[r0][n] = Count(script, Now(n), r0) /\ nonce[r0][g] = Count(script, Now(n), r0)
      BY <1>1, <1>2, <1>3, <1>4 DEF NonceInv
    <2>2. Exec(n) = e
      BY <1>2 DEF Exec
    <2>3. QED
      BY <1>2, <1>4, <2>1, <2>2 DEF RevealedBits, BitsOf
  <1>7. BitsOf(m, Now(n)) \in Bits
    BY <1>1, <1>2, <1>4, BitsType
  <1>8. /\ pc \in [Process -> pcs] /\ bools \in [Revealers -> [Machine -> PatchesOf(Bits \cup {None})]]
        /\ value \in [Revealers -> [Machine -> PatchesOf(Values \cup {None})]]
    BY <1>1 DEF TypeOK, pcs
  <1>9. /\ pc'[g] = AfterSync(g) /\ pc'[n] = AfterSync(n)
        /\ \A q \in Process \ {g, n} : pc'[q] = pc[q]
    BY <1>2, <1>5, <1>8
  <1>10. /\ pc[n] = "encrypt" => pc'[n] = "bools" /\ pc'[g] = "bools"
         /\ pc[n] = "bools" => /\ pc'[n] = IF Outputs(n) THEN "value" ELSE "end"
                               /\ pc'[g] = IF Outputs(g) THEN "value" ELSE "end"
         /\ pc[n] = "end" => pc'[n] = "request" /\ pc'[g] = "request"
    BY <1>3, <1>9 DEF AfterSync
  <1> HIDE DEF g, n, m, r0
  <1>11. /\ bools' \in [Revealers -> [Machine -> PatchesOf(Bits \cup {None})]]
         /\ Elsewhere(Revealers, Machine, bools, bools', r0, m)
         /\ \A r \in Revealers, x \in Machine : bools'[r][x].theirs = bools[r][x].theirs
         /\ pc[n] = "bools" => bools'[r0][m].mine = BitsOf(m, Now(n))
         /\ pc[n] # "bools" => bools' = bools
    <2>1. CASE pc[n] = "bools"
      <3>1. BitsOf(m, Now(n)) \in Bits \cup {None}
        BY <1>7
      <3>2. MineWritten(Revealers, Machine, Bits \cup {None}, bools, bools', r0, m, BitsOf(m, Now(n)))
        BY <1>2, <1>4, <1>5, <1>6, <1>8, <2>1, <3>1, PutMine
      <3>3. QED
        BY <2>1, <3>2 DEF MineWritten
    <2>2. CASE pc[n] # "bools"
      BY <1>5, <1>8, <2>2 DEF Elsewhere
    <2>3. QED
      BY <2>1, <2>2
  <1>12. /\ value' \in [Revealers -> [Machine -> PatchesOf(Values \cup {None})]]
         /\ Elsewhere(Revealers, Machine, value, value', r0, m)
         /\ \A r \in Revealers, x \in Machine : value'[r][x].theirs = value[r][x].theirs
         /\ pc[n] = "bools" /\ Outputs(n) => value'[r0][m].mine = Call(n).val[e]
         /\ pc[n] # "bools" => value' = value
    <2>1. CASE pc[n] = "bools" /\ Outputs(n)
      <3>1. Call(n).val[e] \in Values \cup {None}
        BY <1>4
      <3>2. MineWritten(Revealers, Machine, Values \cup {None}, value, value', r0, m, Call(n).val[e])
        BY <1>2, <1>4, <1>5, <1>8, <2>1, <3>1, PutMine
      <3>3. QED
        BY <2>1, <3>2 DEF MineWritten
    <2>2. CASE ~(pc[n] = "bools" /\ Outputs(n))
      BY <1>5, <1>8, <2>2 DEF Elsewhere
    <2>3. QED
      BY <2>1, <2>2
  <1>13. pc' \in [Process -> pcs]
    BY <1>2, <1>3, <1>5, <1>8, <1>9, <1>10 DEF pcs
  <1>14. TypeOK'
    BY <1>1, <1>5, <1>11, <1>12, <1>13 DEF TypeOK, pcs, procVars
  <1>15. /\ \A q \in Process : Now(q)' = Now(q) /\ Call(q)' = Call(q) /\ (GoesAt(q)' <=> GoesAt(q))
         /\ Kept
    BY <1>1, <1>5, StayHistory
  <1>16. ASSUME NEW q \in {g, n} PROVE pc[q] \in MeetsAt /\ pc'[q] \in MeetsAt /\ Place(q)'
    <2>1. Place(q) /\ Call(q) = Call(n)
      BY <1>1, <1>2, <1>3 DEF PlaceInv
    <2>2. /\ pc'[q] \in {"bools", "value", "end", "request"} /\ (pc'[q] = "value" => Outputs(q))
          /\ pc[q] \in MeetsAt
      BY <1>3, <1>10 DEF MeetsAt
    <2>3. Now(q)' = Now(q) /\ Call(q)' = Call(q) /\ (Outputs(q)' <=> Outputs(q))
      BY <1>2, <1>15 DEF Outputs
    <2>4. QED
      BY <1>4, <1>5, <2>1, <2>2, <2>3 DEF Place, Revealing, MeetsAt
  <1>17. \A q \in Process \ {g, n} : SyncLevel(q)' = SyncLevel(q)
    BY <1>9, <1>15 DEF SyncLevel
  <1>18. \A q \in Process : ValueLevel(q)' = ValueLevel(q)
    <2>1. ASSUME NEW q \in Process \ {g, n} PROVE ValueLevel(q)' = ValueLevel(q)
      BY <1>9, <1>15 DEF ValueLevel, Outputs
    <2>2. ASSUME NEW q \in {g, n} PROVE ValueLevel(q)' = ValueLevel(q)
      <3>1. Call(q)' = Call(q) /\ (Outputs(q)' <=> Outputs(q))
        BY <1>2, <1>15 DEF Outputs
      <3>2. QED
        BY <1>3, <1>10, <3>1 DEF ValueLevel
    <2>3. QED
      BY <2>1, <2>2
  <1>19. SyncLevel(g)' = SyncLevel(n)'
    BY <1>2, <1>3, <1>4, <1>10, <1>15 DEF SyncLevel
  <1>20. SyncInv'
    <2>1. Reveals' = Reveals
      BY <1>5 DEF Reveals
    <2>2. ASSUME NEW x \in Machine
          PROVE  InStep(Now(garbler(x)), Now(nonGarbler(Other(x))),
                        SyncLevel(garbler(x)), SyncLevel(nonGarbler(Other(x))), Reveals, 3)'
      <3>1. CASE x = e
        <4>1. Now(g)' = Now(n)' /\ Now(g)' \in Nat
          BY <1>1, <1>2, <1>3, <1>15, Typed
        <4>2. InStep(Now(g), Now(n), SyncLevel(g), SyncLevel(n), Reveals, 3)'
          BY <1>19, <4>1 DEF InStep
        <4>3. QED
          BY <3>1, <4>2 DEF g, n
      <3>2. CASE x # e
        <4>1. /\ garbler(x) \in Process \ {g, n} /\ nonGarbler(Other(x)) \in Process \ {g, n}
          <5>1. garbler(x) # g /\ garbler(x) # n /\ nonGarbler(Other(x)) # g
            BY <3>2, Processes DEF g, n
          <5>2. Other(x) # Other(e)
            BY <3>2, Processes
          <5>3. nonGarbler(Other(x)) # n
            BY <5>2, Processes DEF n
          <5>4. QED
            BY <5>1, <5>3, Processes
        <4>2. InStep(Now(garbler(x)), Now(nonGarbler(Other(x))),
                     SyncLevel(garbler(x)), SyncLevel(nonGarbler(Other(x))), Reveals, 3)
          BY <1>1 DEF SyncInv
        <4>3. QED
          BY <1>15, <1>17, <2>1, <4>1, <4>2
      <3>3. QED
        BY <3>1, <3>2
    <2>3. QED
      BY <2>2 DEF SyncInv
  <1>21. ValueInv'
    BY <1>1, <1>5, <1>18, StayMeet
  <1>22. ASSUME NEW q \in Process PROVE Own(q)'
    <2>1. Own(q)
      BY <1>1 DEF OwnInv
    <2>2. CASE q \notin {g, n}
      <3>1. pc'[q] = pc[q] /\ ret'[q] = ret[q]
        BY <1>5, <1>9, <2>2
      <3>2. q[2] = "non_garbler" => q[1] # m
        BY <2>2, Processes DEF n, m
      <3>3. q[2] = "non_garbler" => \A r \in Revealers :
               bools'[r][q[1]].mine = bools[r][q[1]].mine /\ value'[r][q[1]].mine = value[r][q[1]].mine
        BY <1>11, <1>12, <3>2, Processes DEF Elsewhere
      <3>4. \A r \in Revealers : /\ value'[r][q[1]].theirs = value[r][q[1]].theirs
                                 /\ labels'[r][q].mine = labels[r][q].mine
                                 /\ wants'[r][q].mine = wants[r][q].mine
        BY <1>5, <1>12, Processes
      <3>5. QED
        BY <1>1, <1>15, <2>1, <3>1, <3>3, <3>4, OwnFrame
    <2>3. CASE q = g
      <3>1. value'[r0][e].theirs = value[r0][e].theirs /\ Call(g)' = Call(g) /\ Call(g).r = r0
        BY <1>2, <1>3, <1>4, <1>12, <1>15 DEF r0
      <3>2. pc'[g] \notin {"want", "labels"}
        BY <1>3, <1>10
      <3>3. QED
        BY <1>2, <1>18, <2>1, <2>3, <3>1, <3>2 DEF Own
    <2>4. CASE q = n
      <3>1. value'[r0][m].theirs = value[r0][m].theirs /\ Call(n)' = Call(n) /\ Call(n).r = r0
        BY <1>2, <1>4, <1>12, <1>15 DEF r0
      <3>2. BitsOf(m, Now(n))' = BitsOf(m, Now(n))
        BY <1>2, <1>5, <1>15 DEF BitsOf
      <3>3. CASE pc[n] = "bools"
        BY <1>2, <1>10, <1>11, <1>12, <1>18, <2>1, <2>4, <3>1, <3>2, <3>3 DEF Own
      <3>4. CASE pc[n] # "bools"
        BY <1>2, <1>3, <1>10, <1>11, <1>12, <1>18, <2>1, <2>4, <3>1, <3>2, <3>4 DEF Own
      <3>5. QED
        BY <3>3, <3>4
    <2>5. QED
      BY <2>2, <2>3, <2>4
  <1>23. /\ \A q \in {g, n} : pc[q] \in MeetsAt /\ pc'[q] \in MeetsAt
         /\ \A q \in {g, n} : Place(q)'
         /\ \A q \in Process : Own(q)'
    BY <1>16, <1>22
  <1>24. g \in Process /\ n \in Process
    BY <1>2
  <1>25. UNCHANGED <<script, ret, procVars, wants, labels, result, eqpc>>
    BY <1>5
  <1>26. \A r \in Revealers, x \in Machine : bools'[r][x].theirs = bools[r][x].theirs
    BY <1>11
  <1>27. QED
    BY <1>9, <1>14, <1>20, <1>21, <1>23, <1>24, <1>25, <1>26, MeetKeeps

LEMMA SwapValueKeeps ==
  ASSUME IInv, NEW m \in Machine, SwapValue(m)
  PROVE  IInv'
  <1> DEFINE g == garbler(m)
             n == nonGarbler(m)
             r0 == Call(n).r
  <1>1. TypeOK /\ PlaceInv /\ SyncInv /\ ValueInv /\ OwnInv
    BY DEF IInv
  <1>2. /\ g \in Process /\ n \in Process /\ g # n /\ n[1] = m /\ g[1] = m
        /\ g[2] = "garbler" /\ n[2] = "non_garbler" /\ Other(m) \in Machine
    BY Processes
  <1>3. /\ pc[g] = "value" /\ pc[n] = "value"
        /\ value' = [value EXCEPT ![r0][m] = Swapped(value[r0][m])]
        /\ pc' = [pc EXCEPT ![g] = "end", ![n] = "end"]
        /\ UNCHANGED <<script, ret, procVars, wants, labels, bools, result, eqpc>>
    BY DEF SwapValue
  <1>4. InStep(Now(g), Now(n), ValueLevel(g), ValueLevel(n), RevealsTo(m), 1)
    BY <1>1 DEF ValueInv
  <1> HIDE DEF g, n
  <1>5. /\ Call(g).op = "reveal" /\ Now(g) \in 1..Len(script) /\ Call(g) = script[Now(g)] /\ Outputs(g)
        /\ Call(n).op = "reveal" /\ Now(n) \in 1..Len(script) /\ Call(n) = script[Now(n)] /\ Outputs(n)
        /\ r0 \in Revealers
    BY <1>1, <1>2, <1>3, Called DEF PlaceInv, Place, Revealing
  <1>6. Now(g) = Now(n)
    <2>1. Now(g) \in RevealsTo(m) /\ Now(n) \in RevealsTo(m)
      BY <1>2, <1>5 DEF RevealsTo, Outputs
    <2>2. ValueLevel(g) = 0 /\ ValueLevel(n) = 0
      BY <1>3 DEF ValueLevel
    <2>3. QED
      BY <1>4, <1>5, <2>1, <2>2 DEF InStep
  <1>7. Call(g) = Call(n)
    BY <1>5, <1>6
  <1>8. /\ pc \in [Process -> pcs] /\ value \in [Revealers -> [Machine -> PatchesOf(Values \cup {None})]]
    BY <1>1 DEF TypeOK, pcs
  <1>9. /\ pc' \in [Process -> pcs] /\ pc'[g] = "end" /\ pc'[n] = "end"
        /\ \A q \in Process \ {g, n} : pc'[q] = pc[q]
    BY <1>2, <1>3, <1>8 DEF pcs
  <1> HIDE DEF r0
  <1>10. PatchesSwapped(Revealers, Machine, Values \cup {None}, value, value', r0, m)
    BY <1>3, <1>5, <1>8, PutSwapped
  <1>11. TypeOK'
    BY <1>1, <1>3, <1>9, <1>10 DEF TypeOK, pcs, procVars, PatchesSwapped
  <1>12. /\ \A q \in Process : Now(q)' = Now(q) /\ Call(q)' = Call(q) /\ (GoesAt(q)' <=> GoesAt(q))
         /\ Kept
    BY <1>1, <1>3, StayHistory
  <1>13. \A q \in Process : Outputs(q)' <=> Outputs(q)
    BY <1>12 DEF Outputs
  <1>14. ASSUME NEW q \in {g, n} PROVE pc[q] \in MeetsAt /\ pc'[q] \in MeetsAt /\ Place(q)'
    <2>1. Place(q)
      BY <1>1, <1>2 DEF PlaceInv
    <2>2. pc[q] \in MeetsAt /\ pc'[q] \in MeetsAt /\ pc[q] = "value" /\ pc'[q] = "end"
      BY <1>3, <1>9 DEF MeetsAt
    <2>3. QED
      BY <1>2, <1>3, <1>12, <2>1, <2>2 DEF Place, Revealing
  <1>15. \A q \in Process : SyncLevel(q)' = SyncLevel(q)
    <2>1. ASSUME NEW q \in Process \ {g, n} PROVE SyncLevel(q)' = SyncLevel(q)
      BY <1>9, <1>12 DEF SyncLevel
    <2>2. ASSUME NEW q \in {g, n} PROVE SyncLevel(q)' = SyncLevel(q)
      BY <1>2, <1>3, <1>9, <1>12 DEF SyncLevel
    <2>3. QED
      BY <2>1, <2>2
  <1>16. SyncInv'
    BY <1>1, <1>3, <1>15, StayMeet
  <1>17. /\ \A q \in Process \ {g, n} : ValueLevel(q)' = ValueLevel(q)
         /\ ValueLevel(g)' = 1 /\ ValueLevel(n)' = 1
    <2>1. ASSUME NEW q \in Process \ {g, n} PROVE ValueLevel(q)' = ValueLevel(q)
      BY <1>9, <1>12, <1>13 DEF ValueLevel
    <2>2. ASSUME NEW q \in {g, n} PROVE ValueLevel(q)' = 1
      BY <1>2, <1>5, <1>9, <1>12, <1>13 DEF ValueLevel
    <2>3. QED
      BY <2>1, <2>2
  <1>18. ValueInv'
    <2>1. \A x \in Machine : RevealsTo(x)' = RevealsTo(x)
      BY <1>3 DEF RevealsTo
    <2>2. ASSUME NEW x \in Machine
          PROVE  InStep(Now(garbler(x)), Now(nonGarbler(x)),
                        ValueLevel(garbler(x)), ValueLevel(nonGarbler(x)), RevealsTo(x), 1)'
      <3>1. CASE x = m
        <4>1. Now(g)' = Now(n)' /\ Now(g)' \in Nat
          BY <1>1, <1>2, <1>6, <1>12, Typed
        <4>2. InStep(Now(g), Now(n), ValueLevel(g), ValueLevel(n), RevealsTo(m), 1)'
          BY <1>17, <4>1 DEF InStep
        <4>3. QED
          BY <3>1, <4>2 DEF g, n
      <3>2. CASE x # m
        <4>1. garbler(x) \in Process \ {g, n} /\ nonGarbler(x) \in Process \ {g, n}
          BY <3>2, Processes DEF g, n
        <4>2. InStep(Now(garbler(x)), Now(nonGarbler(x)),
                     ValueLevel(garbler(x)), ValueLevel(nonGarbler(x)), RevealsTo(x), 1)
          BY <1>1 DEF ValueInv
        <4>3. QED
          BY <1>12, <1>17, <2>1, <4>1, <4>2
      <3>3. QED
        BY <3>1, <3>2
    <2>3. QED
      BY <2>2 DEF ValueInv
  <1>19. ASSUME NEW q \in Process PROVE Own(q)'
    <2>1. Own(q)
      BY <1>1 DEF OwnInv
    <2>2. CASE q \notin {g, n}
      <3>1. q[1] # m
        BY <2>2, Processes DEF g, n
      <3>2. \A r \in Revealers : value'[r][q[1]] = value[r][q[1]]
        BY <1>10, <3>1, Processes DEF PatchesSwapped, Elsewhere
      <3>3. pc'[q] = pc[q] /\ ret'[q] = ret[q]
        BY <1>3, <1>9, <2>2
      <3>4. QED
        BY <1>1, <1>3, <1>12, <2>1, <3>2, <3>3, OwnFrame
    <2>3. CASE q \in {g, n}
      <3>1. value'[r0][m].theirs = Call(n).val[Other(m)]
        BY <1>1, <1>2, <1>3, <1>10 DEF PatchesSwapped, OwnInv, Own, r0
      <3>2. /\ Call(q)' = Call(n) /\ q[1] = m /\ pc'[q] = "end" /\ q \in Process /\ Call(n).r = r0
            /\ Now(q)' = Now(n)
        BY <1>2, <1>6, <1>7, <1>9, <1>12, <2>3 DEF r0
      <3>3. q[2] = "non_garbler" => bools'[r0][m].mine = BitsOf(m, Now(n))'
        <4>1. q[2] = "non_garbler" => q = n
          BY <1>2, <2>3
        <4>2. bools[r0][m].mine = BitsOf(m, Now(n))
          BY <1>1, <1>2, <1>3, <1>5 DEF OwnInv, Own, r0
        <4>3. BitsOf(m, Now(n))' = BitsOf(m, Now(n))
          BY <1>2, <1>3, <1>12 DEF BitsOf
        <4>4. QED
          BY <1>3, <4>1, <4>2, <4>3
      <3>4. BitsOf(m, Now(q))' = BitsOf(m, Now(n))'
        BY <1>2, <1>12, <3>2 DEF BitsOf
      <3>5. QED
        BY <3>1, <3>2, <3>3, <3>4 DEF Own
    <2>4. QED
      BY <2>2, <2>3
  <1>20. /\ \A q \in {g, n} : pc[q] \in MeetsAt /\ pc'[q] \in MeetsAt
         /\ \A q \in {g, n} : Place(q)'
         /\ \A q \in Process : Own(q)'
    BY <1>14, <1>19
  <1>21. g \in Process /\ n \in Process
    BY <1>2
  <1>22. UNCHANGED <<script, ret, procVars, wants, labels, result, eqpc>>
    BY <1>3
  <1>23. \A r \in Revealers, x \in Machine : bools'[r][x].theirs = bools[r][x].theirs
    BY <1>3
  <1>24. QED
    BY <1>9, <1>11, <1>16, <1>18, <1>20, <1>21, <1>22, <1>23, MeetKeeps

-----------------------------------------------------------------------------
(* Steps of the checkers.                                                    *)

\* What a step of the checker of r0 on the machines E leaves to the others.
LEMMA CheckersElse ==
  ASSUME IInv, Kept, NEW r0 \in Revealers, NEW E \in SUBSET Machine,
         \A p \in Process, r \in Revealers : r # r0 \/ p[1] \notin E => SameFor(p, r),
         \A p \in Process : Len(ret'[p]) \in Nat /\ Len(ret[p]) <= Len(ret'[p]),
         \A r \in Revealers, m \in Machine : r # r0 \/ m \notin E =>
            SameHeld(r, m) /\ eqpc'[r][m] = eqpc[r][m],
         \A m \in E : eqpc'[r0][m] = "hash" =>
             \/ eqpc[r0][m] = "hash" /\ OpenAt(nonGarbler(m), r0)' = OpenAt(nonGarbler(m), r0)
             \/ OpenAt(nonGarbler(m), r0)' \subseteq {Len(ret[nonGarbler(m)]) + 1}
  PROVE  /\ \A r \in Revealers, m \in Machine : r # r0 \/ m \notin E =>
                /\ Held(r, m)' /\ Verdict(r, m)' /\ Served(r, m)'
                /\ (eqpc[r][m] \in {"g_result", "n_result"} =>
                       \A j \in OpenAt(nonGarbler(m), r) : Settled(r, j))'
         /\ \A r \in Revealers : \A j \in Nat : Settled(r, j) => Settled(r, j)'
  <1>1. TypeOK /\ PlaceInv /\ HeldInv /\ VerdictInv /\ CheckerInv /\ SettledNow
    BY DEF IInv
  <1>2. ASSUME NEW r \in Revealers, NEW m \in Machine, r # r0 \/ m \notin E
        PROVE  /\ Held(r, m)' /\ Verdict(r, m)' /\ Served(r, m)'
               /\ OpenAt(nonGarbler(m), r)' = OpenAt(nonGarbler(m), r)
    <2>1. SameFor(garbler(m), r) /\ SameFor(nonGarbler(m), r) /\ SameHeld(r, m)
      BY <1>2, Processes
    <2>2. Held(r, m) /\ Verdict(r, m) /\ Served(r, m) /\ eqpc'[r][m] = eqpc[r][m]
      BY <1>1, <1>2 DEF HeldInv, VerdictInv, CheckerInv
    <2>3. QED
      BY <1>1, <2>1, <2>2, CheckerFrame DEF SameFor, SameView
  <1>3. ASSUME NEW r \in Revealers, NEW m \in Machine, eqpc'[r][m] = "hash"
        PROVE  \/ eqpc[r][m] = "hash" /\ OpenAt(nonGarbler(m), r)' = OpenAt(nonGarbler(m), r)
               \/ OpenAt(nonGarbler(m), r)' \subseteq {Len(ret[nonGarbler(m)]) + 1}
    BY <1>2, <1>3
  <1>4. ASSUME NEW r \in Revealers, NEW j \in Nat, Settled(r, j) PROVE Settled(r, j)'
    BY <1>1, <1>3, <1>4, SettledStays
  <1>5. ASSUME NEW r \in Revealers, NEW m \in Machine, r # r0 \/ m \notin E
        PROVE  (eqpc[r][m] \in {"g_result", "n_result"} =>
                   \A j \in OpenAt(nonGarbler(m), r) : Settled(r, j))'
    <2>1. eqpc'[r][m] \in {"g_result", "n_result"} =>
             /\ eqpc[r][m] \in {"g_result", "n_result"}
             /\ OpenAt(nonGarbler(m), r)' = OpenAt(nonGarbler(m), r)
      BY <1>2, <1>5
    <2>2. QED
      BY <1>1, <1>4, <2>1, SettledNowFrame
  <1>6. QED
    BY <1>2, <1>4, <1>5

\* Steps of the two checkers of r alone.
LEMMA CheckersKeep ==
  ASSUME IInv, NEW r0 \in Revealers,
         UNCHANGED <<script, pc, ret, procVars, wants, labels, bools, value>>, TypeOK',
         \A r \in Revealers : r # r0 => eqpc'[r] = eqpc[r] /\ result'[r] = result[r],
         \A q \in Process : result'[r0][q].mine = result[r0][q].mine,
         \A m \in Machine : eqpc'[r0][m] # "hash" /\ Held(r0, m)' /\ Verdict(r0, m)' /\ Served(r0, m)',
         \A m \in Machine : (eqpc[r0][m] \in {"g_result", "n_result"} =>
                                \A j \in OpenAt(nonGarbler(m), r0) : Settled(r0, j))'
  PROVE  IInv'
  <1>1. /\ TypeOK /\ PlaceInv /\ FlagInv /\ ReplyInv /\ AgreeInv /\ NonceInv /\ SyncInv /\ ValueInv
        /\ OwnInv /\ SettledPast /\ OutputsMatch
    BY DEF IInv
  <1>2. /\ \A q \in Process : Now(q)' = Now(q) /\ Call(q)' = Call(q) /\ (GoesAt(q)' <=> GoesAt(q))
        /\ \A q \in Process, r \in Revealers : SameView(q, r)
        /\ \A q \in Process : Len(ret'[q]) \in Nat /\ Len(ret[q]) <= Len(ret'[q])
        /\ Kept /\ ReplyInv' /\ AgreeInv' /\ OutputsMatch'
    BY <1>1, StayHistory
  <1>3. PlaceInv' /\ NonceInv'
    BY <1>1, <1>2 DEF PlaceInv, Place, NonceInv, Outputs, procVars
  <1>4. ASSUME NEW q \in Process, NEW r \in Revealers PROVE Flags(q, r)' /\ SameFor(q, r)
    <2>1. Flags(q, r) /\ SameView(q, r) /\ (Busy(q, r)' <=> Busy(q, r)) /\ ready'[r][q] = ready[r][q]
      BY <1>1, <1>2 DEF FlagInv, Busy, procVars
    <2>2. /\ Wants(q, r)' <=> Wants(q, r)
          /\ Asked(q, r)' <=> Asked(q, r)
          /\ Asked(q, r) => pc'[q] = pc[q] /\ Now(q)' = Now(q)
      BY <1>2 DEF Wants, Asked
    <2>3. QED
      BY <2>1, <2>2, FlagsFrame DEF SameFor
  <1>5. SyncInv' /\ ValueInv'
    <2>1. \A q \in Process : SyncLevel(q)' = SyncLevel(q) /\ ValueLevel(q)' = ValueLevel(q)
      BY <1>2 DEF SyncLevel, ValueLevel, Outputs
    <2>2. QED
      BY <1>1, <2>1, StayMeet
  <1>6. OwnInv'
    <2>1. ASSUME NEW q \in Process PROVE Own(q)'
      <3>1. Own(q) /\ pc'[q] = pc[q] /\ ret'[q] = ret[q]
        BY <1>1 DEF OwnInv
      <3>2. QED
        BY <1>1, <1>2, <3>1, OwnFrame
    <2>2. QED
      BY <2>1 DEF OwnInv
  <1>7. ASSUME NEW r \in Revealers, NEW m \in Machine, r # r0
        PROVE  SameHeld(r, m) /\ eqpc'[r][m] = eqpc[r][m]
    BY <1>7 DEF SameHeld
  <1>8. /\ \A r \in Revealers, m \in Machine : r # r0 =>
                /\ Held(r, m)' /\ Verdict(r, m)' /\ Served(r, m)'
                /\ (eqpc[r][m] \in {"g_result", "n_result"} =>
                       \A j \in OpenAt(nonGarbler(m), r) : Settled(r, j))'
        /\ \A r \in Revealers : \A j \in Nat : Settled(r, j) => Settled(r, j)'
    <2> DEFINE E == Machine
    <2>1. E \in SUBSET Machine
      OBVIOUS
    <2>2. \A q \in Process, r \in Revealers : r # r0 \/ q[1] \notin E => SameFor(q, r)
      BY <1>4
    <2>3. \A r \in Revealers, m \in Machine : r # r0 \/ m \notin E =>
             SameHeld(r, m) /\ eqpc'[r][m] = eqpc[r][m]
      BY <1>7
    <2>4. \A m \in E : eqpc'[r0][m] = "hash" =>
             \/ eqpc[r0][m] = "hash" /\ OpenAt(nonGarbler(m), r0)' = OpenAt(nonGarbler(m), r0)
             \/ OpenAt(nonGarbler(m), r0)' \subseteq {Len(ret[nonGarbler(m)]) + 1}
      OBVIOUS
    <2> HIDE DEF E
    <2>5. QED
      BY <1>2, <2>1, <2>2, <2>3, <2>4, CheckersElse
  <1>9. SettledPast'
    BY <1>1, <1>8, StayHistory
  <1>10. HeldInv' /\ VerdictInv' /\ CheckerInv' /\ SettledNow'
    BY <1>8 DEF HeldInv, VerdictInv, CheckerInv, SettledNow
  <1>11. FlagInv'
    BY <1>4 DEF FlagInv
  <1>12. QED
    BY <1>2, <1>3, <1>5, <1>6, <1>9, <1>10, <1>11 DEF IInv

LEMMA SetupKeeps ==
  ASSUME IInv, NEW r0 \in Revealers, Setup(r0)
  PROVE  IInv'
  <1>1. TypeOK /\ CheckerInv
    BY DEF IInv
  <1>2. /\ \A m \in Machine : eqpc[r0][m] = "setup" /\ eqpc'[r0][m] = "g_want"
        /\ \A r \in Revealers : r # r0 => eqpc'[r] = eqpc[r] /\ result'[r] = result[r]
        /\ UNCHANGED <<script, pc, ret, procVars, wants, labels, bools, value>>
        /\ result' = result
    BY <1>1 DEF Setup, TypeOK, ramVars
  <1>3. TypeOK'
    BY <1>1 DEF Setup, TypeOK, procVars, ramVars
  <1>4. ASSUME NEW m \in Machine PROVE Held(r0, m)' /\ Verdict(r0, m)' /\ Served(r0, m)'
    <2>1. Held(r0, m)' /\ Verdict(r0, m)'
      BY <1>2 DEF Held, Verdict
    <2>2. \A q \in Process : SameView(q, r0) /\ (Busy(q, r0)' <=> Busy(q, r0)) /\ (Asked(q, r0)' <=> Asked(q, r0))
      BY <1>1, <1>2, StayHistory DEF Busy, Asked, procVars
    <2>3. Served(r0, m) /\ garbler(m) \in Process /\ nonGarbler(m) \in Process
      BY <1>1, Processes DEF CheckerInv
    <2>4. QED
      BY <1>2, <2>1, <2>2, <2>3 DEF Served, SameView
  <1>5. \A q \in Process : result'[r0][q].mine = result[r0][q].mine
    BY <1>2
  <1>6. \A m \in Machine : (eqpc[r0][m] \in {"g_result", "n_result"} =>
                                \A j \in OpenAt(nonGarbler(m), r0) : Settled(r0, j))'
    BY <1>2
  <1>7. QED
    BY <1>2, <1>3, <1>4, <1>5, <1>6, CheckersKeep


-----------------------------------------------------------------------------
(* The checkers compare.                                                     *)

\* The processes of a machine that have been served the same calls, and have a
\* check under way, mean the same reveal.
LEMMA UnderWay ==
  ASSUME IInv, NEW r \in Revealers, NEW m \in Machine, Busy(garbler(m), r), Busy(nonGarbler(m), r),
         DoneAt(garbler(m), r) = DoneAt(nonGarbler(m), r)
  PROVE  \E j \in 1..Len(script) : OpenAt(garbler(m), r) = {j} /\ OpenAt(nonGarbler(m), r) = {j}
  <1> DEFINE g == garbler(m)
             n == nonGarbler(m)
  <1>1. TypeOK /\ PlaceInv /\ FlagInv /\ ReplyInv /\ AgreeInv
    BY DEF IInv
  <1>2. g \in Process /\ n \in Process
    BY Processes
  <1>3. DoneAt(g, r) = DoneAt(n, r) /\ OpenAt(g, r) # {} /\ OpenAt(n, r) # {}
    BY <1>1, <1>2 DEF FlagInv, Flags
  <1> HIDE DEF g, n
  <1>4. /\ Replies(script, ret[g]) /\ Replies(script, ret[n]) /\ Agree(ret[g], ret[n])
        /\ Len(ret[g]) \in Nat /\ Len(ret[n]) \in Nat
        /\ Now(g) = Len(ret[g]) + 1 /\ Now(n) = Len(ret[n]) + 1
    BY <1>1, <1>2, Typed DEF ReplyInv, AgreeInv
  <1>5. Now(g) \in 1..(Len(ret[g]) + 1) /\ Now(n) \in 1..(Len(ret[n]) + 1)
    BY <1>4
  <1>6. PICK j \in OpenAt(g, r) : TRUE
    BY <1>3
  <1>7. PICK i \in OpenAt(n, r) : TRUE
    BY <1>3
  <1>8. ASSUME NEW j1 \in OpenAt(g, r), NEW j2 \in OpenAt(n, r) PROVE j1 = j2
    <2>1. Done(script, ret[g], r) = Done(script, ret[n], r)
      BY <1>3 DEF DoneAt
    <2>2. /\ j1 \in Open(script, ret[g], Len(ret[g]) + 1, r)
          /\ j2 \in Open(script, ret[n], Len(ret[n]) + 1, r)
      BY <1>4 DEF OpenAt
    <2>3. QED
      BY <1>4, <2>1, <2>2, OpenAgree
  <1>9. OpenAt(g, r) = {j} /\ OpenAt(n, r) = {j}
    BY <1>6, <1>7, <1>8
  <1>10. j \in 1..Len(script)
    BY <1>1, <1>2, <1>6, KnownCalls
  <1>11. QED
    BY <1>9, <1>10 DEF g, n

\* Two checkers that compare hold the same reveal.
LEMMA SameReveal ==
  ASSUME IInv, NEW r \in Revealers, NEW m1 \in Machine, NEW m2 \in Machine, eqpc[r][m1] = "hash",
         NEW j1 \in OpenAt(nonGarbler(m1), r), NEW j2 \in OpenAt(nonGarbler(m2), r)
  PROVE  ~(j1 < j2)
  <1> SUFFICES ASSUME j1 < j2 PROVE FALSE
    OBVIOUS
  <1> DEFINE n1 == nonGarbler(m1)
             n2 == nonGarbler(m2)
  <1>1. TypeOK /\ PlaceInv /\ ReplyInv /\ AgreeInv /\ SettledPast
    BY DEF IInv
  <1>2. n1 \in Process /\ n2 \in Process /\ j1 \in OpenAt(n1, r) /\ j2 \in OpenAt(n2, r)
    BY Processes
  <1> HIDE DEF n1, n2
  <1>3. /\ j1 \in 1..Len(ret[n1]) /\ ret[n1][j1].ok /\ Is(script[j1], "reveal", r)
        /\ j2 \in 1..Len(ret[n2]) /\ ret[n2][j2].ok /\ Is(script[j2], "reveal", r)
        /\ Len(ret[n1]) \in Nat /\ Len(ret[n2]) \in Nat
    BY <1>1, <1>2, Typed DEF OpenAt, Open, Now
  <1>4. ret[n2][j1].ok
    BY <1>1, <1>2, <1>3 DEF AgreeInv, Agree
  <1>5. Open(script, ret[n2], j2, r) = {}
    BY <1>1, <1>2, <1>3 DEF ReplyInv, Replies, Goes, Is
  <1>6. PICK i \in (j1 + 1)..(j2 - 1) : Is(script[i], "results", r)
    BY <1>3, <1>4, <1>5 DEF Open
  <1>7. i \in Finished(n2) /\ j1 \in 1..(i - 1) /\ script[i].op = "results" /\ script[i].r = r
    BY <1>3, <1>6 DEF Finished, Is
  <1>8. Settled(r, j1)
    BY <1>1, <1>2, <1>3, <1>4, <1>7 DEF SettledPast
  <1>9. QED
    BY <1>2, <1>8 DEF Settled, n1

\* What the checker of machine m hashes for reveal j: the labels of both
\* executions, in the order of the garbling checker.
Hashed(r, j, b) ==
    LET e == EqGarbler[r]
    IN  <<[exec |-> e, call |-> j, bits |-> b, half |-> b],
          [exec |-> Other(e), call |-> j, bits |-> b, half |-> b]>>

LEMMA HashMe ==
  ASSUME NEW r \in Revealers, NEW m \in Machine, NEW j,
         labels[r][garbler(m)].theirs = LabelsOf(garbler(m), j),
         labels[r][nonGarbler(m)].theirs = LabelsOf(nonGarbler(m), j),
         bools[r][m].theirs = BitsOf(m, j)
  PROVE  hashMe(r, m) = Hashed(r, j, BitsOf(m, j))
  <1> DEFINE b == BitsOf(m, j)
             X(e) == [exec |-> e, call |-> j, bits |-> b, half |-> b]
  <1>1. /\ LabelsOf(garbler(m), j) = [exec |-> m, call |-> j]
        /\ LabelsOf(nonGarbler(m), j) = [exec |-> Other(m), call |-> j, bits |-> b]
    BY Processes DEF LabelsOf, GarblerLabels, HeldLabels, Exec
  <1> HIDE DEF b
  <1>2. Applied(labels[r][garbler(m)].theirs, b) = X(m)
    BY <1>1 DEF Applied
  <1>3. Applied(labels[r][nonGarbler(m)].theirs, b) = X(Other(m))
    BY <1>1 DEF Applied
  <1>4. hashMe(r, m) = IF m = EqGarbler[r] THEN <<X(m), X(Other(m))>> ELSE <<X(Other(m)), X(m)>>
    BY <1>2, <1>3 DEF hashMe, b
  <1>5. EqGarbler[r] \in Machine
    BY RevealerAssumption
  <1>6. m # EqGarbler[r] => Other(m) = EqGarbler[r] /\ m = Other(EqGarbler[r])
    BY <1>5, Processes
  <1>7. QED
    BY <1>4, <1>6 DEF Hashed, b

\* So they agree just when the two executions computed the same value.
LEMMA HashesMeet ==
  ASSUME NEW r \in Revealers, NEW j
  PROVE  Hashed(r, j, BitsOf("LEFT", j)) = Hashed(r, j, BitsOf("RIGHT", j))
            <=> script[j].val["LEFT"] = script[j].val["RIGHT"]
  <1>1. BitsOf("LEFT", j) = BitsOf("RIGHT", j) <=> script[j].val["LEFT"] = script[j].val["RIGHT"]
    BY DEF BitsOf, Plain, Encrypted, Other
  <1> DEFINE b1 == BitsOf("LEFT", j)
             b2 == BitsOf("RIGHT", j)
  <1> HIDE DEF b1, b2
  <1>2. Hashed(r, j, b1) = Hashed(r, j, b2) <=> b1 = b2
    <2>1. Hashed(r, j, b1)[1].bits = b1 /\ Hashed(r, j, b2)[1].bits = b2
      BY DEF Hashed
    <2>2. QED
      BY <2>1
  <1>3. QED
    BY <1>1, <1>2 DEF b1, b2

LEMMA EqualityCheckKeeps ==
  ASSUME IInv, NEW r0 \in Revealers, EqualityCheck(r0)
  PROVE  IInv'
  <1> DEFINE is_equal == hashMe(r0, "LEFT") = hashMe(r0, "RIGHT")
  <1>1. TypeOK /\ PlaceInv /\ FlagInv /\ HeldInv /\ CheckerInv
    BY DEF IInv
  <1>2. is_equal \in BOOLEAN
    OBVIOUS
  <1>3. result' = [result EXCEPT ![r0] = [p \in Process |-> [result[r0][p] EXCEPT !.theirs = is_equal]]]
    BY DEF EqualityCheck
  <1> HIDE DEF is_equal
  <1>4. /\ result' \in [Revealers -> [Process -> PatchesOf(BOOLEAN)]]
        /\ \A r \in Revealers : r # r0 => result'[r] = result[r]
        /\ \A q \in Process : result'[r0][q].mine = result[r0][q].mine /\ result'[r0][q].theirs = is_equal
    <2>1. result \in [Revealers -> [Process -> PatchesOf(BOOLEAN)]]
      BY <1>1 DEF TypeOK
    <2>2. \A q \in Process : [result[r0][q] EXCEPT !.theirs = is_equal]
                              = [mine |-> result[r0][q].mine, theirs |-> is_equal]
      BY <2>1 DEF PatchesOf
    <2>3. result' = [result EXCEPT ![r0] =
                       [q \in Process |-> [mine |-> result[r0][q].mine, theirs |-> is_equal]]]
      BY <1>3, <2>2
    <2>4. [q \in Process |-> [mine |-> result[r0][q].mine, theirs |-> is_equal]]
             \in [Process -> PatchesOf(BOOLEAN)]
      BY <1>2, <2>1 DEF PatchesOf
    <2>5. QED
      BY <2>1, <2>3, <2>4
  <1>5. /\ \A m \in Machine : eqpc[r0][m] = "hash" /\ eqpc'[r0][m] = "g_result"
        /\ \A r \in Revealers : r # r0 => eqpc'[r] = eqpc[r]
        /\ UNCHANGED <<script, pc, ret, procVars, wants, labels, bools, value>>
    BY <1>1 DEF EqualityCheck, TypeOK
  <1>6. TypeOK'
    BY <1>1, <1>4 DEF EqualityCheck, TypeOK, procVars
  <1>7. ASSUME NEW m \in Machine
        PROVE  /\ Busy(garbler(m), r0) /\ Busy(nonGarbler(m), r0)
               /\ DoneAt(garbler(m), r0) = DoneAt(nonGarbler(m), r0)
    BY <1>1, <1>5 DEF CheckerInv, Served
  <1>8. ASSUME NEW m \in Machine
        PROVE  \E j \in 1..Len(script) : OpenAt(garbler(m), r0) = {j} /\ OpenAt(nonGarbler(m), r0) = {j}
    BY <1>7, UnderWay
  <1>9. "LEFT" \in Machine /\ "RIGHT" \in Machine
    BY DEF Machine
  <1>10. PICK j \in 1..Len(script) : OpenAt(garbler("LEFT"), r0) = {j} /\ OpenAt(nonGarbler("LEFT"), r0) = {j}
    BY <1>8, <1>9
  <1>11. PICK i \in 1..Len(script) : OpenAt(garbler("RIGHT"), r0) = {i} /\ OpenAt(nonGarbler("RIGHT"), r0) = {i}
    BY <1>8, <1>9
  <1>12. i = j
    <2>1. eqpc[r0]["LEFT"] = "hash" /\ eqpc[r0]["RIGHT"] = "hash"
      BY <1>5, <1>9
    <2>2. j \in OpenAt(nonGarbler("LEFT"), r0) /\ i \in OpenAt(nonGarbler("RIGHT"), r0)
      BY <1>10, <1>11
    <2>3. ~(j < i)
      BY <1>9, <2>1, <2>2, SameReveal
    <2>4. ~(i < j)
      BY <1>9, <2>1, <2>2, SameReveal
    <2>5. QED
      BY <2>3, <2>4
  <1>13. \A q \in Process : OpenAt(q, r0) = {j}
    <2>1. \A m \in Machine : OpenAt(garbler(m), r0) = {j} /\ OpenAt(nonGarbler(m), r0) = {j}
      BY <1>10, <1>11, <1>12 DEF Machine
    <2>2. QED
      BY <2>1, Processes
  <1>14. is_equal <=> script[j].val["LEFT"] = script[j].val["RIGHT"]
    <2>1. ASSUME NEW m \in Machine PROVE hashMe(r0, m) = Hashed(r0, j, BitsOf(m, j))
      <3>1. /\ labels[r0][garbler(m)].theirs = LabelsOf(garbler(m), j)
            /\ labels[r0][nonGarbler(m)].theirs = LabelsOf(nonGarbler(m), j)
            /\ bools[r0][m].theirs = BitsOf(m, j)
        BY <1>1, <1>5, <1>13, Processes DEF HeldInv, Held
      <3>2. QED
        BY <3>1, HashMe
    <2>2. is_equal <=> Hashed(r0, j, BitsOf("LEFT", j)) = Hashed(r0, j, BitsOf("RIGHT", j))
      BY <1>9, <2>1 DEF is_equal
    <2>3. QED
      BY <2>2, HashesMeet
  <1>15. /\ \A q \in Process : Now(q)' = Now(q) /\ (Equal(script, ret[q], Now(q), r0)' <=> is_equal)
         /\ \A q \in Process : SameView(q, r0) /\ (Busy(q, r0)' <=> Busy(q, r0))
    <2>1. \A q \in Process : Now(q)' = Now(q) /\ SameView(q, r0)
      BY <1>1, <1>5, StayHistory
    <2>2. \A q \in Process : Equal(script, ret[q], Now(q), r0) <=> is_equal
      BY <1>13, <1>14 DEF Equal, OpenAt
    <2>3. QED
      BY <1>5, <2>1, <2>2 DEF Busy, procVars
  <1>16. ASSUME NEW m \in Machine PROVE Held(r0, m)' /\ Verdict(r0, m)' /\ Served(r0, m)'
    <2>1. garbler(m) \in Process /\ nonGarbler(m) \in Process
      BY Processes
    <2>2. Held(r0, m)'
      BY <1>5 DEF Held
    <2>3. Verdict(r0, m)'
      BY <1>4, <1>5, <1>15, <2>1 DEF Verdict
    <2>4. Served(r0, m)'
      BY <1>5, <1>7, <1>15, <2>1 DEF Served, SameView
    <2>5. QED
      BY <2>2, <2>3, <2>4
  <1>17. ASSUME NEW m \in Machine
         PROVE  (eqpc[r0][m] \in {"g_result", "n_result"} =>
                    \A k \in OpenAt(nonGarbler(m), r0) : Settled(r0, k))'
    <2>1. \A q \in Process : j <= Len(ret[q])
      <3>1. \A q \in Process : j \in 1..Len(ret[q])
        BY <1>1, <1>13, KnownCalls
      <3>2. \A q \in Process : Len(ret[q]) \in Nat
        BY <1>1, Typed
      <3>3. QED
        BY <3>1, <3>2
    <2>2. Settled(r0, j)'
      BY <1>5, <2>1 DEF Settled
    <2>3. OpenAt(nonGarbler(m), r0)' = {j}
      BY <1>13, <1>15, Processes DEF SameView
    <2>4. QED
      BY <2>2, <2>3
  <1>18. /\ \A r \in Revealers : r # r0 => eqpc'[r] = eqpc[r] /\ result'[r] = result[r]
         /\ \A q \in Process : result'[r0][q].mine = result[r0][q].mine
         /\ \A m \in Machine : eqpc'[r0][m] # "hash" /\ Held(r0, m)' /\ Verdict(r0, m)' /\ Served(r0, m)'
    BY <1>4, <1>5, <1>16
  <1>19. QED
    BY <1>5, <1>6, <1>17, <1>18, CheckersKeep

-----------------------------------------------------------------------------
(* The program.                                                              *)

LEMMA DecideKeeps ==
  ASSUME IInv, NEW prog \in Programs, Decide(prog)
  PROVE  IInv'
  <1>1. /\ TypeOK /\ PlaceInv /\ FlagInv /\ ReplyInv /\ AgreeInv /\ NonceInv /\ SyncInv /\ ValueInv
        /\ OwnInv /\ SettledPast /\ OutputsMatch
    BY DEF IInv
  <1>2. UNCHANGED <<pc, ret, ready, in_progress, nonce, wants, labels, bools, result, value, eqpc>>
    BY DEF Decide, procVars, ramVars
  <1>3. script \in Seq(AllCalls) /\ Len(script) \in Nat
    BY <1>1 DEF TypeOK
  <1>4. PICK c \in AllCalls : script' = Append(script, c)
    <2>1. prog \in Seq(SUBSET AllCalls)
      BY RevealerAssumption
    <2>2. Len(script) + 1 \in 1..Len(prog)
      BY <1>3, <2>1 DEF Decide
    <2>3. prog[Len(script) + 1] \in SUBSET AllCalls
      BY <2>1, <2>2
    <2>4. QED
      BY <2>3 DEF Decide
  <1>5. /\ Len(script') = Len(script) + 1 /\ script' \in Seq(AllCalls) /\ Len(script') <= MaxCalls
        /\ \A k \in 1..Len(script) : script'[k] = script[k]
    <2>1. Len(script) < Len(prog) /\ Len(prog) <= MaxCalls /\ Len(prog) \in Nat /\ MaxCalls \in Nat
      BY RevealerAssumption DEF Decide
    <2>2. QED
      BY <1>3, <1>4, <2>1
  <1>6. TypeOK' /\ Kept
    <2>1. TypeOK'
      BY <1>1, <1>2, <1>5 DEF TypeOK
    <2>2. QED
      BY <1>3, <1>5, <2>1 DEF Kept
  <1>7. ASSUME NEW q \in Process
        PROVE  /\ Now(q)' = Now(q) /\ Len(ret[q]) \in Nat /\ Now(q) = Len(ret[q]) + 1
               /\ Len(ret[q]) <= Len(script) /\ ret[q] \in Seq(Answers)
               /\ pc[q] # "idle" =>
                     Now(q) \in 1..Len(script) /\ Call(q)' = Call(q) /\ Call(q) = script[Now(q)]
    BY <1>1, <1>2, <1>3, <1>5, Typed DEF Now, Call, PlaceInv, Place
  <1>8. ASSUME NEW q \in Process
        PROVE  /\ \A r \in Revealers : SameView(q, r)
               /\ pc[q] # "idle" => (GoesAt(q)' <=> GoesAt(q))
               /\ Replies(script', ret[q])
    <2>1. CallEffect(script, script', ret[q])
      BY <1>3, <1>4, <1>7, CallSame
    <2>2. SameBefore(script', ret[q], script, ret[q], Now(q)) /\ Now(q) \in Nat
      BY <1>7, <2>1 DEF CallEffect
    <2>3. \A r \in Revealers : SameView(q, r)
      BY <1>2, <1>7, <2>1, <2>2, OpenSame DEF SameView, OpenAt, HaltedAt, DoneAt, CallEffect
    <2>4. pc[q] # "idle" => (GoesAt(q)' <=> GoesAt(q))
      BY <1>2, <1>5, <1>7, <2>2, GoesSame DEF GoesAt
    <2>5. QED
      BY <1>1, <2>1, <2>3, <2>4 DEF ReplyInv, CallEffect
  <1>9. PlaceInv' /\ ReplyInv' /\ AgreeInv'
    <2>1. ASSUME NEW q \in Process PROVE Place(q)'
      <3>1. Place(q)
        BY <1>1 DEF PlaceInv
      <3>2. QED
        BY <1>2, <1>3, <1>5, <1>7, <1>8, <3>1 DEF Place, Outputs, Revealing
    <2>2. QED
      BY <1>1, <1>2, <1>8, <2>1 DEF PlaceInv, ReplyInv, AgreeInv
  <1>10. ASSUME NEW q \in Process, NEW r \in Revealers PROVE Flags(q, r)' /\ SameFor(q, r)
    <2>1. Flags(q, r) /\ SameView(q, r) /\ (Busy(q, r)' <=> Busy(q, r)) /\ ready'[r][q] = ready[r][q]
      BY <1>1, <1>2, <1>8 DEF FlagInv, Busy
    <2>2. /\ Wants(q, r)' <=> Wants(q, r)
          /\ Asked(q, r)' <=> Asked(q, r)
          /\ Asked(q, r) => pc'[q] = pc[q] /\ Now(q)' = Now(q)
      BY <1>2, <1>7 DEF Wants, Asked
    <2>3. QED
      BY <2>1, <2>2, FlagsFrame DEF SameFor
  <1>11. NonceInv'
    <2>1. ASSUME NEW q \in Process, NEW r \in Revealers
          PROVE  (nonce[r][q] = Count(script, IF pc[q] = "idle" THEN Len(ret[q]) ELSE Now(q), r))'
      <3> DEFINE k == IF pc[q] = "idle" THEN Len(ret[q]) ELSE Now(q)
      <3>1. k \in Nat /\ k <= Len(script)
        BY <1>3, <1>7
      <3>2. nonce[r][q] = Count(script, k, r)
        BY <1>1 DEF NonceInv
      <3>3. k' = k
        BY <1>2, <1>7
      <3> HIDE DEF k
      <3>4. \A i \in 1..k : script'[i] = script[i]
        BY <1>3, <1>5, <3>1
      <3>5. Count(script', k, r) = Count(script, k, r)
        BY <3>1, <3>4, CountSame
      <3>6. nonce'[r][q] = Count(script', k', r)
        BY <1>2, <3>2, <3>3, <3>5
      <3>7. QED
        BY <3>6 DEF k
    <2>2. QED
      BY <2>1 DEF NonceInv
  <1>12. ASSUME NEW q \in Process
         PROVE  /\ SyncLevel(q)' = SyncLevel(q) /\ ValueLevel(q)' = ValueLevel(q)
                /\ Now(q) \in Nat /\ Now(q) <= Len(script) + 1
    BY <1>2, <1>3, <1>7 DEF SyncLevel, ValueLevel, Outputs
  <1>13. /\ \A j \in 1..Len(script) : j \in Reveals <=> j \in Reveals'
         /\ 0 \notin Reveals /\ 0 \notin Reveals'
         /\ \A m \in Machine : /\ \A j \in 1..Len(script) : j \in RevealsTo(m) <=> j \in RevealsTo(m)'
                               /\ 0 \notin RevealsTo(m) /\ 0 \notin RevealsTo(m)'
    BY <1>3, <1>5 DEF Reveals, RevealsTo
  <1>14. SyncInv'
    <2>1. ASSUME NEW g \in Process, NEW n \in Process,
                 InStep(Now(g), Now(n), SyncLevel(g), SyncLevel(n), Reveals, 3)
          PROVE  InStep(Now(g), Now(n), SyncLevel(g), SyncLevel(n), Reveals, 3)'
      <3>1. InStep(Now(g), Now(n), SyncLevel(g), SyncLevel(n), Reveals', 3)
        BY <1>3, <1>12, <1>13, <2>1, InStepMore
      <3>2. QED
        BY <1>7, <1>12, <3>1
    <2>2. QED
      BY <1>1, <2>1, Processes DEF SyncInv
  <1>15. ValueInv'
    <2>1. ASSUME NEW g \in Process, NEW n \in Process, NEW m \in Machine,
                 InStep(Now(g), Now(n), ValueLevel(g), ValueLevel(n), RevealsTo(m), 1)
          PROVE  InStep(Now(g), Now(n), ValueLevel(g), ValueLevel(n), RevealsTo(m), 1)'
      <3>1. InStep(Now(g), Now(n), ValueLevel(g), ValueLevel(n), RevealsTo(m)', 1)
        BY <1>3, <1>12, <1>13, <2>1, InStepMore
      <3>2. QED
        BY <1>7, <1>12, <3>1
    <2>2. QED
      BY <1>1, <2>1, Processes DEF ValueInv
  <1>16. OwnInv'
    <2>1. ASSUME NEW q \in Process PROVE Own(q)'
      <3>1. Own(q) /\ pc'[q] = pc[q] /\ ret'[q] = ret[q]
        BY <1>1, <1>2 DEF OwnInv
      <3>2. QED
        BY <1>1, <1>2, <1>6, <3>1, OwnFrame
    <2>2. QED
      BY <2>1 DEF OwnInv
  <1>17. ASSUME NEW r \in Revealers, NEW m \in Machine PROVE SameHeld(r, m)
    BY <1>2 DEF SameHeld
  <1>18. \A q \in Process : Len(ret'[q]) \in Nat /\ Len(ret[q]) <= Len(ret'[q])
    BY <1>2, <1>7
  <1>19. /\ HeldInv' /\ VerdictInv' /\ CheckerInv' /\ SettledNow'
         /\ \A r \in Revealers : \A j \in Nat : Settled(r, j) => Settled(r, j)'
    BY <1>2, <1>6, <1>10, <1>17, <1>18, CheckersCalm
  <1>20. SettledPast'
    <2>1. ASSUME NEW p \in Process
          PROVE  (\A i \in Finished(p) : \A j \in 1..(i - 1) :
                    script[i].op = "results" /\ Is(script[j], "reveal", script[i].r) /\ ret[p][j].ok =>
                        Settled(script[i].r, j))'
      <3>1. ret'[p] = ret[p]
        BY <1>2
      <3>2. QED
        BY <1>1, <1>6, <1>19, <3>1, SettledPastFrame
    <2>2. QED
      BY <2>1 DEF SettledPast
  <1>21. OutputsMatch'
    BY <1>1, <1>2, <1>3, <1>5, <1>7 DEF OutputsMatch, Finished
  <1>22. FlagInv'
    BY <1>10 DEF FlagInv
  <1>23. QED
    BY <1>6, <1>9, <1>11, <1>14, <1>15, <1>16, <1>19, <1>20, <1>21, <1>22 DEF IInv

-----------------------------------------------------------------------------
(* Swaps of a process with the checker of its machine.                       *)

\* p and its checker write only what is theirs.
Written(p) ==
    LET r0 == Call(p).r
        m0 == p[1]
    IN
    /\ \A q \in Process \ {p} : pc'[q] = pc[q] /\ ret'[q] = ret[q]
    /\ \A r \in Revealers, q \in Process : r # r0 \/ q # p =>
          /\ ready'[r][q] = ready[r][q] /\ in_progress'[r][q] = in_progress[r][q]
          /\ wants'[r][q] = wants[r][q] /\ labels'[r][q] = labels[r][q] /\ result'[r][q] = result[r][q]
    /\ \A r \in Revealers, m \in Machine : r # r0 \/ m # m0 =>
          bools'[r][m] = bools[r][m] /\ eqpc'[r][m] = eqpc[r][m]
    /\ p[2] = "garbler" => bools' = bools
    /\ UNCHANGED <<script, nonce, value>>

\* What such a step leaves to its Revealer and its machine.
Ready(r, m) ==
    /\ Held(r, m)' /\ Verdict(r, m)' /\ Served(r, m)'
    /\ (eqpc[r][m] \in {"g_result", "n_result"} =>
           \A j \in OpenAt(nonGarbler(m), r) : Settled(r, j))'

LEMMA SwapKeeps ==
  ASSUME IInv, NEW p \in Process, NEW r0 \in Revealers, Now(p) <= Len(script), r0 = Call(p).r,
         Written(p), TypeOK',
         PlaceInv', ReplyInv', AgreeInv', NonceInv', SyncInv', ValueInv', OutputsMatch',
         pc'[p] = "idle" \/ ret'[p] = ret[p], Kept,
         \A q \in Process : Len(ret'[q]) \in Nat /\ Len(ret[q]) <= Len(ret'[q]),
         \A q \in Process, r \in Revealers : q # p \/ r # r0 => SameView(q, r),
         Flags(p, r0)', Own(p)',
         eqpc'[r0][p[1]] = "hash" =>
            OpenAt(nonGarbler(p[1]), r0)' \subseteq {Len(ret[nonGarbler(p[1])]) + 1},
         (\A r \in Revealers : \A j \in Nat : Settled(r, j) => Settled(r, j)')
            => Ready(r0, p[1]) /\ SettledPast'
  PROVE  IInv'
  <1> DEFINE m0 == p[1]
             E == {m0}
  <1>1. TypeOK /\ PlaceInv /\ FlagInv /\ OwnInv
    BY DEF IInv
  <1>2. m0 \in Machine /\ E \in SUBSET Machine
    BY Processes
  <1>3. /\ \A q \in Process \ {p} : pc'[q] = pc[q] /\ ret'[q] = ret[q]
        /\ \A r \in Revealers, q \in Process : r # r0 \/ q # p =>
              /\ ready'[r][q] = ready[r][q] /\ in_progress'[r][q] = in_progress[r][q]
              /\ wants'[r][q] = wants[r][q] /\ labels'[r][q] = labels[r][q]
              /\ result'[r][q] = result[r][q]
        /\ \A r \in Revealers, m \in Machine : r # r0 \/ m # m0 =>
              bools'[r][m] = bools[r][m] /\ eqpc'[r][m] = eqpc[r][m]
        /\ p[2] = "garbler" => bools' = bools
        /\ script' = script /\ nonce' = nonce /\ value' = value
    BY DEF Written, m0
  <1> HIDE DEF m0, E
  <1>4. ASSUME NEW q \in Process, NEW r \in Revealers, q # p \/ r # r0
        PROVE  Flags(q, r)' /\ SameFor(q, r)
    <2>1. Flags(q, r) /\ SameView(q, r) /\ (Busy(q, r)' <=> Busy(q, r)) /\ ready'[r][q] = ready[r][q]
      BY <1>1, <1>3, <1>4 DEF FlagInv, Busy
    <2>2. /\ Wants(q, r)' <=> Wants(q, r)
          /\ Asked(q, r)' <=> Asked(q, r)
          /\ Asked(q, r) => pc'[q] = pc[q] /\ Now(q)' = Now(q)
      <3>1. CASE q # p
        BY <1>3, <3>1 DEF Wants, Asked, Call, Now
      <3>2. CASE q = p
        BY <1>3, <1>4, <3>2 DEF Wants, Asked, Call, Now
      <3>3. QED
        BY <3>1, <3>2
    <2>3. QED
      BY <2>1, <2>2, FlagsFrame DEF SameFor
  <1>5. FlagInv'
    <2>1. ASSUME NEW q \in Process, NEW r \in Revealers PROVE Flags(q, r)'
      BY <1>4
    <2>2. QED
      BY <2>1 DEF FlagInv
  <1>6. OwnInv'
    <2>1. ASSUME NEW q \in Process, q # p PROVE Own(q)'
      <3>1. Own(q) /\ pc'[q] = pc[q] /\ ret'[q] = ret[q]
        BY <1>1, <1>3, <2>1 DEF OwnInv
      <3>2. q[2] = "non_garbler" => \A r \in Revealers : bools'[r][q[1]] = bools[r][q[1]]
        <4>1. q[2] = "non_garbler" /\ q[1] = m0 => p[2] = "garbler"
          BY <2>1, Processes DEF m0
        <4>2. QED
          BY <1>3, <4>1, Processes
      <3>3. \A r \in Revealers : labels'[r][q] = labels[r][q] /\ wants'[r][q] = wants[r][q]
        BY <1>3, <2>1
      <3>4. QED
        BY <1>1, <1>3, <3>1, <3>2, <3>3, OwnFrame
    <2>2. QED
      BY <2>1 DEF OwnInv
  <1>7. ASSUME NEW r \in Revealers, NEW m \in Machine, r # r0 \/ m \notin E
        PROVE  SameHeld(r, m) /\ eqpc'[r][m] = eqpc[r][m]
    <2>1. \A q \in {garbler(m), nonGarbler(m)} : q \in Process /\ (r # r0 \/ q # p)
      BY <1>7, Processes DEF E, m0
    <2>2. r # r0 \/ m # m0
      BY <1>7 DEF E
    <2>3. QED
      BY <1>3, <2>1, <2>2 DEF SameHeld
  <1>8. \A q \in Process, r \in Revealers : r # r0 \/ q[1] \notin E => SameFor(q, r)
    BY <1>4 DEF E, m0
  <1>9. \A m \in E : eqpc'[r0][m] = "hash" =>
             \/ eqpc[r0][m] = "hash" /\ OpenAt(nonGarbler(m), r0)' = OpenAt(nonGarbler(m), r0)
             \/ OpenAt(nonGarbler(m), r0)' \subseteq {Len(ret[nonGarbler(m)]) + 1}
    BY DEF E, m0
  <1>10. /\ \A r \in Revealers, m \in Machine : r # r0 \/ m \notin E =>
                /\ Held(r, m)' /\ Verdict(r, m)' /\ Served(r, m)'
                /\ (eqpc[r][m] \in {"g_result", "n_result"} =>
                       \A j \in OpenAt(nonGarbler(m), r) : Settled(r, j))'
         /\ \A r \in Revealers : \A j \in Nat : Settled(r, j) => Settled(r, j)'
    <2>1. \A r \in Revealers, m \in Machine : r # r0 \/ m \notin E =>
             SameHeld(r, m) /\ eqpc'[r][m] = eqpc[r][m]
      BY <1>7
    <2>2. QED
      BY <1>2, <1>8, <1>9, <2>1, CheckersElse
  <1>11. SettledPast' /\ Ready(r0, m0)
    BY <1>10 DEF m0
  <1>12. HeldInv' /\ VerdictInv' /\ CheckerInv' /\ SettledNow'
    <2>1. ASSUME NEW r \in Revealers, NEW m \in Machine
          PROVE  /\ Held(r, m)' /\ Verdict(r, m)' /\ Served(r, m)'
                 /\ (eqpc[r][m] \in {"g_result", "n_result"} =>
                        \A j \in OpenAt(nonGarbler(m), r) : Settled(r, j))'
      <3>1. CASE r = r0 /\ m = m0
        BY <1>11, <3>1 DEF Ready
      <3>2. CASE r # r0 \/ m # m0
        <4>1. r # r0 \/ m \notin E
          BY <3>2 DEF E
        <4>2. QED
          BY <1>10, <4>1
      <3>3. QED
        BY <3>1, <3>2
    <2>2. QED
      BY <2>1 DEF HeldInv, VerdictInv, CheckerInv, SettledNow
  <1>13. QED
    BY <1>5, <1>6, <1>11, <1>12 DEF IInv

\* A swap after which p returns.
LEMMA SwapReturns ==
  ASSUME IInv, NEW p \in Process, NEW r0 \in Revealers, r0 = Call(p).r,
         NEW ok, NEW out, Answered(p, ok, out), Written(p), TypeOK', Flags(p, r0)',
         eqpc'[r0][p[1]] = "hash" =>
            OpenAt(nonGarbler(p[1]), r0)' \subseteq {Len(ret[nonGarbler(p[1])]) + 1},
         Call(p).op = "results" => \A j \in OpenAt(p, r0) : Settled(r0, j),
         (\A r \in Revealers : \A j \in Nat : Settled(r, j) => Settled(r, j)') => Ready(r0, p[1])
  PROVE  IInv'
  <1>1. /\ TypeOK /\ PlaceInv /\ FlagInv /\ ReplyInv /\ AgreeInv /\ NonceInv /\ SyncInv /\ ValueInv
        /\ OwnInv /\ SettledPast /\ OutputsMatch
    BY DEF IInv
  <1>2. PlaceInv' /\ ReplyInv' /\ AgreeInv' /\ NonceInv' /\ SyncInv' /\ ValueInv' /\ OutputsMatch'
    BY <1>1, AnsweredPlace, AnsweredAgree, AnsweredNonce, AnsweredMeet, AnsweredOutputs
  <1>3. Kept /\ \A q \in Process : Len(ret'[q]) \in Nat /\ Len(ret[q]) <= Len(ret'[q])
    BY <1>1, AnsweredKept
  <1>4. ASSUME NEW q \in Process, NEW r \in Revealers, q # p \/ r # r0 PROVE SameView(q, r)
    BY <1>1, <1>4, AnsweredView
  <1>5. pc'[p] = "idle" /\ Now(p) <= Len(script)
    BY <1>1, AnsweredRet DEF Answered
  <1>6. Own(p)'
    BY <1>5 DEF Own, ValueLevel
  <1>7. (\A r \in Revealers : \A j \in Nat : Settled(r, j) => Settled(r, j)') => SettledPast'
    BY <1>1, SettledPastReturn
  <1>8. \A q \in Process, r \in Revealers : q # p \/ r # r0 => SameView(q, r)
    BY <1>4
  <1>9. (\A r \in Revealers : \A j \in Nat : Settled(r, j) => Settled(r, j)')
            => Ready(r0, p[1]) /\ SettledPast'
    BY <1>7
  <1>10. pc'[p] = "idle" \/ ret'[p] = ret[p]
    BY <1>5
  <1>11. QED
    BY <1>2, <1>3, <1>5, <1>6, <1>8, <1>9, <1>10, SwapKeeps

\* A swap after which p goes on to the next.
LEMMA SwapStays ==
  ASSUME IInv, NEW p \in Process, NEW r0 \in Revealers, r0 = Call(p).r, Call(p).op = "reveal",
         pc[p] \in {"want", "labels"}, pc'[p] \in {"labels", "bools_out"},
         pc'[p] = "bools_out" => p[2] = "non_garbler",
         Written(p), UNCHANGED <<ret, ready, in_progress>>, TypeOK', Own(p)',
         eqpc'[r0][p[1]] # "hash",
         (\A r \in Revealers : \A j \in Nat : Settled(r, j) => Settled(r, j)') => Ready(r0, p[1])
  PROVE  IInv'
  <1>1. /\ TypeOK /\ PlaceInv /\ FlagInv /\ ReplyInv /\ AgreeInv /\ NonceInv /\ SyncInv /\ ValueInv
        /\ OwnInv /\ SettledPast /\ OutputsMatch
    BY DEF IInv
  <1>2. script' = script /\ ret' = ret /\ nonce' = nonce /\ \A q \in Process \ {p} : pc'[q] = pc[q]
    BY DEF Written
  <1>3. /\ \A q \in Process : Now(q)' = Now(q) /\ Call(q)' = Call(q) /\ (GoesAt(q)' <=> GoesAt(q))
        /\ \A q \in Process, r \in Revealers : SameView(q, r)
        /\ \A q \in Process : Len(ret'[q]) \in Nat /\ Len(ret[q]) <= Len(ret'[q])
        /\ Kept /\ ReplyInv' /\ AgreeInv' /\ OutputsMatch'
        /\ (\A r \in Revealers : \A j \in Nat : Settled(r, j) => Settled(r, j)') => SettledPast'
    BY <1>1, <1>2, StayHistory
  <1>4. PlaceInv'
    <2>1. ASSUME NEW q \in Process PROVE Place(q)'
      <3>1. Place(q)
        BY <1>1 DEF PlaceInv
      <3>2. CASE q = p
        BY <1>2, <1>3, <3>1, <3>2 DEF Place, Revealing
      <3>3. CASE q # p
        BY <1>2, <1>3, <3>1, <3>3 DEF Place, Outputs
      <3>4. QED
        BY <3>2, <3>3
    <2>2. QED
      BY <2>1 DEF PlaceInv
  <1>5. NonceInv'
    <2>1. ASSUME NEW q \in Process, NEW r \in Revealers
          PROVE  (nonce[r][q] = Count(script, IF pc[q] = "idle" THEN Len(ret[q]) ELSE Now(q), r))'
      <3>1. pc'[q] = "idle" <=> pc[q] = "idle"
        BY <1>2
      <3>2. QED
        BY <1>1, <1>2, <1>3, <3>1 DEF NonceInv
    <2>2. QED
      BY <2>1 DEF NonceInv
  <1>6. SyncInv' /\ ValueInv'
    <2>1. ASSUME NEW q \in Process PROVE SyncLevel(q)' = SyncLevel(q) /\ ValueLevel(q)' = ValueLevel(q)
      <3>1. CASE q = p
        BY <1>3, <3>1 DEF SyncLevel, ValueLevel, Outputs
      <3>2. CASE q # p
        BY <1>2, <1>3, <3>2 DEF SyncLevel, ValueLevel, Outputs
      <3>3. QED
        BY <3>1, <3>2
    <2>2. QED
      BY <1>1, <1>2, <2>1, StayMeet
  <1>7. Flags(p, r0)'
    <2>1. Flags(p, r0) /\ SameView(p, r0) /\ (Busy(p, r0)' <=> Busy(p, r0)) /\ ready'[r0][p] = ready[r0][p]
      BY <1>1, <1>3 DEF FlagInv, Busy
    <2>2. Wants(p, r0)' <=> Wants(p, r0)
      BY <1>3 DEF Wants
    <2>3. QED
      BY <2>1, <2>2, FlagsFrame
  <1>8. Now(p) <= Len(script) /\ (pc'[p] = "idle" \/ ret'[p] = ret[p])
    BY <1>1, <1>2 DEF PlaceInv, Place
  <1>9. (\A r \in Revealers : \A j \in Nat : Settled(r, j) => Settled(r, j)')
            => Ready(r0, p[1]) /\ SettledPast'
    BY <1>3
  <1>10. \A q \in Process, r \in Revealers : q # p \/ r # r0 => SameView(q, r)
    BY <1>3
  <1>11. QED
    BY <1>3, <1>4, <1>5, <1>6, <1>7, <1>8, <1>9, <1>10, SwapKeeps

\* f2 is f with v at a, b.
ValueAt(A, B, T, f, f2, a, b, v) ==
    f2 \in [A -> [B -> T]] /\ f2[a][b] = v /\ Elsewhere(A, B, f, f2, a, b)

LEMMA PutAt ==
  ASSUME NEW A, NEW B, NEW T, NEW f \in [A -> [B -> T]], NEW a \in A, NEW b \in B, NEW v \in T,
         NEW f2, f2 = [f EXCEPT ![a][b] = v]
  PROVE  ValueAt(A, B, T, f, f2, a, b, v)
  BY DEF ValueAt, Elsewhere

\* A process that waits for its checker.
LEMMA Waiting ==
  ASSUME IInv, NEW p \in Process, pc[p] \in {"want", "labels", "bools_out"}
  PROVE  /\ Now(p) \in 1..Len(script) /\ Now(p) = Len(ret[p]) + 1 /\ Call(p) = script[Now(p)]
         /\ Call(p).r \in Revealers /\ Call(p).op \in {"reveal", "stop"}
         /\ pc[p] # "want" => Call(p).op = "reveal"
         /\ GoesAt(p) /\ ~Busy(p, Call(p).r) /\ ~HaltedAt(p, Call(p).r) /\ ~ready[Call(p).r][p]
         /\ Now(p) \notin DoneAt(p, Call(p).r)
  <1>1. TypeOK /\ PlaceInv /\ FlagInv
    BY DEF IInv
  <1>2. /\ Now(p) \in 1..Len(script) /\ Now(p) = Len(ret[p]) + 1 /\ Call(p) = script[Now(p)]
        /\ Call(p).r \in Revealers /\ Call(p).op \in {"reveal", "stop"}
        /\ pc[p] # "want" => Call(p).op = "reveal"
    BY <1>1, Called, Typed DEF PlaceInv, Place, Revealing
  <1>3. Flags(p, Call(p).r) /\ Wants(p, Call(p).r)
    BY <1>1, <1>2 DEF FlagInv, Wants
  <1>4. GoesAt(p)
    BY <1>2, <1>3 DEF Flags, GoesAt, Goes, OpenAt, HaltedAt
  <1>5. Now(p) \notin DoneAt(p, Call(p).r)
    BY <1>1, <1>2, Typed DEF DoneAt, Done
  <1>6. QED
    BY <1>2, <1>3, <1>4, <1>5 DEF Flags

\* The request of a process is what its checker gets.
LEMMA SwapWantWrites ==
  ASSUME IInv, NEW p \in Process, NEW r0 \in Revealers, r0 = Call(p).r, SwapWant(p)
  PROVE  /\ wants' \in [Revealers -> [Process -> PatchesOf(Request)]]
         /\ wants'[r0][p].theirs.want_reveal <=> Call(p).op = "reveal"
         /\ \A r \in Revealers, q \in Process : r # r0 \/ q # p => wants'[r][q] = wants[r][q]
         /\ UNCHANGED <<script, ready, in_progress, nonce, labels, bools, result, value>>
  <1>1. TypeOK /\ OwnInv
    BY DEF IInv
  <1>2. pc[p] = "want" /\ wants' = [wants EXCEPT ![r0][p] = Swapped(wants[r0][p])]
    BY DEF SwapWant
  <1>3. wants \in [Revealers -> [Process -> PatchesOf(Request)]]
    BY <1>1 DEF TypeOK
  <1>4. PatchesSwapped(Revealers, Process, Request, wants, wants', r0, p)
    BY <1>2, <1>3, PutSwapped
  <1>5. wants[r0][p].mine.want_reveal <=> Call(p).op = "reveal"
    BY <1>1, <1>2 DEF OwnInv, Own
  <1>6. QED
    BY <1>4, <1>5 DEF SwapWant, PatchesSwapped, Elsewhere, procVars

\* The step of the checker in a swap.
LEMMA CheckerMoves ==
  ASSUME TypeOK, NEW p \in Process, NEW r0 \in Revealers, r0 = Call(p).r,
         NEW l \in {"setup", "g_want", "n_want", "g_labels", "n_labels", "n_bools", "hash",
                    "g_result", "n_result", "done"}, CheckerTo(p, l)
  PROVE  /\ eqpc' \in [Revealers -> [Machine -> {"setup", "g_want", "n_want", "g_labels", "n_labels",
                          "n_bools", "hash", "g_result", "n_result", "done"}]]
         /\ eqpc'[r0][p[1]] = l
         /\ \A r \in Revealers, m \in Machine : r # r0 \/ m # p[1] => eqpc'[r][m] = eqpc[r][m]
  <1> DEFINE T == {"setup", "g_want", "n_want", "g_labels", "n_labels", "n_bools", "hash",
                   "g_result", "n_result", "done"}
  <1>1. /\ eqpc \in [Revealers -> [Machine -> T]] /\ l \in T /\ p[1] \in Machine
        /\ eqpc' = [eqpc EXCEPT ![r0][p[1]] = l]
    BY Processes DEF TypeOK, CheckerTo
  <1> HIDE DEF T
  <1>2. ValueAt(Revealers, Machine, T, eqpc, eqpc', r0, p[1], l)
    BY <1>1, PutAt
  <1>3. QED
    BY <1>2 DEF ValueAt, Elsewhere, T

\* The step of a process that returns or goes on.
LEMMA StopReturns ==
  ASSUME IInv, NEW p \in Process, NEW r0 \in Revealers, r0 = Call(p).r, SwapWant(p), Call(p).op = "stop"
  PROVE  /\ Answered(p, TRUE, None) /\ Flags(p, r0)' /\ ~Busy(p, r0)' /\ ~Asked(p, r0)'
         /\ DoneAt(p, r0)' = DoneAt(p, r0) \cup {Now(p)}
         /\ \A q \in Process \ {p} : SameView(q, r0)
  <1>1. TypeOK
    BY DEF IInv
  <1>2. pc[p] = "want"
    BY DEF SwapWant
  <1>3. /\ Now(p) \in 1..Len(script) /\ GoesAt(p) /\ ~Busy(p, r0) /\ ~ready[r0][p]
    BY <1>2, Waiting
  <1>4. Len(script) \in Nat /\ script' = script /\ ready' = ready /\ in_progress' = in_progress /\ nonce' = nonce
    BY <1>1 DEF SwapWant, TypeOK, procVars
  <1>5. Answered(p, TRUE, None)
    <2>1. Return(p, TRUE, None)
      BY DEF SwapWant
    <2>2. Now(p) <= Len(script)
      BY <1>3, <1>4
    <2>3. QED
      BY <1>3, <1>4, <2>1, <2>2 DEF Answered
  <1>6. pc'[p] = "idle"
    BY <1>1, <1>5, AnsweredRet
  <1>7. /\ DoneAt(p, r0)' = DoneAt(p, r0) \cup {Now(p)} /\ OpenAt(p, r0)' = {} /\ HaltedAt(p, r0)'
        /\ \A q \in Process \ {p} : SameView(q, r0)
    BY <1>1, <1>3, <1>5, AnsweredView
  <1>8. QED
    BY <1>3, <1>4, <1>5, <1>6, <1>7 DEF Flags, Busy, Wants, Asked

\* The garbler's request.
LEMMA GarblerWantKeeps ==
  ASSUME IInv, NEW p \in Process, NEW r0 \in Revealers, r0 = Call(p).r, SwapWant(p), p[2] = "garbler"
  PROVE  IInv'
  <1> DEFINE m0 == p[1]
             n == nonGarbler(p[1])
  <1>1. TypeOK /\ CheckerInv /\ OwnInv
    BY DEF IInv
  <1>2. /\ m0 \in Machine /\ p = garbler(m0) /\ n \in Process /\ n # p /\ n = nonGarbler(m0)
    BY Processes
  <1>3. pc[p] = "want" /\ eqpc[r0][m0] = "g_want" /\ CheckerTo(p, "n_want")
    BY DEF SwapWant, CheckerAt
  <1>4. /\ Now(p) \in 1..Len(script) /\ GoesAt(p) /\ ~Busy(p, r0) /\ Call(p).op \in {"reveal", "stop"}
        /\ Now(p) \notin DoneAt(p, r0) /\ Call(p) = script[Now(p)]
    BY <1>3, Waiting
  <1>5. /\ wants' \in [Revealers -> [Process -> PatchesOf(Request)]]
        /\ wants'[r0][p].theirs.want_reveal <=> Call(p).op = "reveal"
        /\ \A r \in Revealers, q \in Process : r # r0 \/ q # p => wants'[r][q] = wants[r][q]
        /\ UNCHANGED <<script, ready, in_progress, nonce, labels, bools, result, value>>
    BY SwapWantWrites
  <1>6. /\ eqpc' \in [Revealers -> [Machine -> {"setup", "g_want", "n_want", "g_labels", "n_labels",
                          "n_bools", "hash", "g_result", "n_result", "done"}]]
        /\ eqpc'[r0][m0] = "n_want"
        /\ \A r \in Revealers, m \in Machine : r # r0 \/ m # m0 => eqpc'[r][m] = eqpc[r][m]
    BY <1>1, <1>3, CheckerMoves
  <1>7. /\ ~Busy(n, r0) /\ ~Asked(n, r0) /\ DoneAt(p, r0) = DoneAt(n, r0)
    BY <1>1, <1>2, <1>3 DEF CheckerInv, Served
  <1> HIDE DEF n
  <1>8. CASE Call(p).op = "stop"
    <2>1. /\ Answered(p, TRUE, None) /\ Flags(p, r0)' /\ ~Busy(p, r0)' /\ ~Asked(p, r0)'
          /\ DoneAt(p, r0)' = DoneAt(p, r0) \cup {Now(p)} /\ SameView(n, r0)
      BY <1>2, <1>8, StopReturns
    <2>2. /\ ret' \in [Process -> Seq(Answers)] /\ pc' = [pc EXCEPT ![p] = "idle"] /\ pc'[p] = "idle"
          /\ \A q \in Process \ {p} : ret'[q] = ret[q] /\ pc'[q] = pc[q]
      BY <1>1, <2>1, AnsweredRet
    <2>3. TypeOK'
      BY <1>1, <1>5, <1>6, <2>2 DEF TypeOK, Answers
    <2>4. Written(p)
      BY <1>5, <1>6, <2>2 DEF Written
    <2>5. Served(r0, m0)'
      <3>1. ~Busy(n, r0)' /\ ~Asked(n, r0)' /\ DoneAt(n, r0)' = DoneAt(n, r0)
        BY <1>2, <1>5, <1>7, <2>1, <2>2 DEF Busy, Asked, Call, SameView
      <3>2. Now(p) \in Ahead(p, n, r0)' /\ script'[Now(p)].op = "stop"
        BY <1>4, <1>5, <1>7, <1>8, <2>1, <3>1 DEF Ahead
      <3>3. QED
        BY <1>2, <1>6, <2>1, <3>1, <3>2 DEF Served
    <2>6. Ready(r0, m0)
      <3>1. Held(r0, m0)'
        BY <1>2, <1>5, <1>6, <1>8, <2>1 DEF Held
      <3>2. Verdict(r0, m0)'
        BY <1>6 DEF Verdict
      <3>3. QED
        BY <1>6, <2>5, <3>1, <3>2 DEF Ready
    <2>7. QED
      BY <1>6, <1>8, <2>1, <2>3, <2>4, <2>6, SwapReturns
  <1>9. CASE Call(p).op = "reveal"
    <2>1. pc' = [pc EXCEPT ![p] = "labels"] /\ ret' = ret
      BY <1>9 DEF SwapWant, Goto
    <2>2. /\ pc' \in [Process -> pcs] /\ pc'[p] = "labels" /\ \A q \in Process \ {p} : pc'[q] = pc[q]
      BY <1>1, <2>1 DEF TypeOK, pcs
    <2>3. TypeOK'
      BY <1>1, <1>5, <1>6, <2>1, <2>2 DEF TypeOK, pcs
    <2>4. Written(p)
      BY <1>5, <1>6, <2>1, <2>2 DEF Written
    <2>5. /\ \A q \in Process : Now(q)' = Now(q) /\ Call(q)' = Call(q) /\ SameView(q, r0)
          /\ Kept
      BY <1>1, <1>5, <2>1, StayHistory
    <2>6. Own(p)'
      <3>1. LabelsOf(p, Now(p))' = LabelsOf(p, Now(p))
        BY <1>2, <1>5, <2>5, Processes DEF LabelsOf, GarblerLabels, Exec
      <3>2. Own(p)
        BY <1>1 DEF OwnInv
      <3>3. ValueLevel(p)' = ValueLevel(p)
        BY <1>3, <2>2, <2>5 DEF ValueLevel, Outputs
      <3>4. QED
        BY <1>3, <1>5, <2>2, <2>5, <3>1, <3>2, <3>3 DEF Own
    <2>7. Ready(r0, m0)
      <3>1. Asked(p, r0)'
        BY <2>2, <2>5 DEF Asked
      <3>2. ~Busy(p, r0)' /\ ~Busy(n, r0)' /\ ~Asked(n, r0)' /\ DoneAt(p, r0)' = DoneAt(n, r0)'
        BY <1>2, <1>4, <1>5, <1>7, <2>2, <2>5 DEF Busy, Asked, SameView
      <3>3. Held(r0, m0)'
        BY <1>2, <1>5, <1>6, <1>9, <3>1 DEF Held
      <3>4. Verdict(r0, m0)'
        BY <1>6 DEF Verdict
      <3>5. Served(r0, m0)'
        BY <1>2, <1>6, <3>1, <3>2 DEF Served
      <3>6. QED
        BY <1>6, <3>3, <3>4, <3>5 DEF Ready
    <2>8. QED
      BY <1>3, <1>5, <1>6, <1>9, <2>1, <2>2, <2>3, <2>4, <2>6, <2>7, SwapStays
  <1>10. QED
    BY <1>4, <1>8, <1>9

\* The checker has the same request from the garbler as the non-garbler makes.
LEMMA SameRequest ==
  ASSUME IInv, NEW r \in Revealers, NEW m \in Machine, eqpc[r][m] = "n_want",
         pc[nonGarbler(m)] = "want", Call(nonGarbler(m)).r = r
  PROVE  /\ wants[r][garbler(m)].theirs.want_reveal <=> Call(nonGarbler(m)).op = "reveal"
         /\ Asked(garbler(m), r) <=> Call(nonGarbler(m)).op = "reveal"
         /\ Asked(garbler(m), r) => /\ Now(garbler(m)) = Now(nonGarbler(m))
                                    /\ DoneAt(garbler(m), r) = DoneAt(nonGarbler(m), r)
         /\ ~Asked(garbler(m), r) =>
               DoneAt(garbler(m), r) = DoneAt(nonGarbler(m), r) \cup {Now(nonGarbler(m))}
         /\ ~Busy(garbler(m), r)
  <1> DEFINE g == garbler(m)
             n == nonGarbler(m)
  <1>1. TypeOK /\ CheckerInv /\ HeldInv /\ AgreeInv
    BY DEF IInv
  <1>2. g \in Process /\ n \in Process
    BY Processes
  <1>3. /\ wants[r][g].theirs.want_reveal <=> Asked(g, r)
        /\ ~Busy(g, r) /\ (Asked(g, r) => DoneAt(g, r) = DoneAt(n, r))
        /\ ~Asked(g, r) => \E j \in Ahead(g, n, r) : script[j].op = "stop"
    BY <1>1 DEF HeldInv, Held, CheckerInv, Served
  <1> HIDE DEF g, n
  <1>4. /\ Now(n) = Len(ret[n]) + 1 /\ Call(n) = script[Now(n)] /\ Call(n).r = r /\ GoesAt(n)
        /\ Agree(ret[g], ret[n]) /\ Agree(ret[n], ret[g]) /\ Len(ret[g]) \in Nat /\ Len(ret[n]) \in Nat
    BY <1>1, <1>2, Waiting, Typed DEF AgreeInv, n
  <1>5. script[Len(ret[n]) + 1].r = r /\ Goes(script, ret[n], Len(ret[n]) + 1)
    BY <1>4 DEF GoesAt
  <1>6. CASE Asked(g, r)
    <2>1. /\ Now(g) = Len(ret[g]) + 1 /\ Call(g) = script[Now(g)] /\ Call(g).r = r /\ GoesAt(g)
          /\ Call(g).op = "reveal"
      BY <1>2, <1>6, Waiting DEF Asked
    <2>2. script[Len(ret[g]) + 1].r = r /\ Goes(script, ret[g], Len(ret[g]) + 1)
      BY <2>1 DEF GoesAt
    <2>3. Done(script, ret[g], r) = Done(script, ret[n], r)
      BY <1>3, <1>6 DEF DoneAt
    <2>4. Len(ret[g]) = Len(ret[n])
      BY <1>4, <1>5, <2>2, <2>3, LevelMeet
    <2>5. Now(g) = Now(n) /\ Call(g) = Call(n)
      BY <1>4, <2>1, <2>4
    <2>6. QED
      BY <1>3, <1>6, <2>1, <2>5 DEF g, n
  <1>7. CASE ~Asked(g, r)
    <2>1. PICK j \in Ahead(g, n, r) : script[j].op = "stop"
      BY <1>3, <1>7
    <2>2. j \notin Done(script, ret[n], r) /\ Done(script, ret[g], r) = Done(script, ret[n], r) \cup {j}
      BY <2>1 DEF Ahead, DoneAt
    <2>3. j = Len(ret[n]) + 1
      BY <1>4, <1>5, <2>2, CatchUp
    <2>4. Call(n).op = "stop" /\ DoneAt(g, r) = DoneAt(n, r) \cup {Now(n)}
      BY <1>4, <2>1, <2>2, <2>3 DEF DoneAt
    <2>5. QED
      BY <1>3, <1>7, <2>4 DEF g, n
  <1>8. QED
    BY <1>6, <1>7

\* The non-garbler's request.
LEMMA NonGarblerWantKeeps ==
  ASSUME IInv, NEW p \in Process, NEW r0 \in Revealers, r0 = Call(p).r, SwapWant(p), p[2] # "garbler"
  PROVE  IInv'
  <1> DEFINE m0 == p[1]
             g == garbler(p[1])
  <1>1. TypeOK /\ CheckerInv /\ OwnInv
    BY DEF IInv
  <1>2. /\ m0 \in Machine /\ p = nonGarbler(m0) /\ g \in Process /\ g # p /\ g = garbler(m0)
    BY Processes
  <1>3. pc[p] = "want" /\ eqpc[r0][m0] = "n_want"
    BY DEF SwapWant, CheckerAt
  <1>4. /\ Now(p) \in 1..Len(script) /\ GoesAt(p) /\ ~Busy(p, r0) /\ Call(p).op \in {"reveal", "stop"}
        /\ Call(p) = script[Now(p)]
    BY <1>3, Waiting
  <1>5. /\ wants' \in [Revealers -> [Process -> PatchesOf(Request)]]
        /\ wants'[r0][p].theirs.want_reveal <=> Call(p).op = "reveal"
        /\ \A r \in Revealers, q \in Process : r # r0 \/ q # p => wants'[r][q] = wants[r][q]
        /\ UNCHANGED <<script, ready, in_progress, nonce, labels, bools, result, value>>
    BY SwapWantWrites
  <1>6. /\ wants[r0][g].theirs.want_reveal <=> Call(p).op = "reveal"
        /\ Asked(g, r0) <=> Call(p).op = "reveal"
        /\ Asked(g, r0) => Now(g) = Now(p) /\ DoneAt(g, r0) = DoneAt(p, r0)
        /\ ~Asked(g, r0) => DoneAt(g, r0) = DoneAt(p, r0) \cup {Now(p)}
        /\ ~Busy(g, r0)
    BY <1>2, <1>3, SameRequest
  <1>7. (\A q \in {garbler(p[1]), p} : wants'[r0][q].theirs.want_reveal) <=> Call(p).op = "reveal"
    BY <1>2, <1>5, <1>6
  <1> HIDE DEF g
  <1>8. CASE Call(p).op = "stop"
    <2>1. CheckerTo(p, "done")
      BY <1>7, <1>8 DEF SwapWant
    <2>2. /\ eqpc' \in [Revealers -> [Machine -> {"setup", "g_want", "n_want", "g_labels", "n_labels",
                          "n_bools", "hash", "g_result", "n_result", "done"}]]
          /\ eqpc'[r0][m0] = "done"
          /\ \A r \in Revealers, m \in Machine : r # r0 \/ m # m0 => eqpc'[r][m] = eqpc[r][m]
      BY <1>1, <2>1, CheckerMoves
    <2>3. /\ Answered(p, TRUE, None) /\ Flags(p, r0)' /\ ~Busy(p, r0)' /\ ~Asked(p, r0)'
          /\ DoneAt(p, r0)' = DoneAt(p, r0) \cup {Now(p)} /\ SameView(g, r0)
      BY <1>2, <1>8, StopReturns
    <2>4. /\ ret' \in [Process -> Seq(Answers)] /\ pc' = [pc EXCEPT ![p] = "idle"] /\ pc'[p] = "idle"
          /\ \A q \in Process \ {p} : ret'[q] = ret[q] /\ pc'[q] = pc[q]
      BY <1>1, <2>3, AnsweredRet
    <2>5. TypeOK'
      BY <1>1, <1>5, <2>2, <2>4 DEF TypeOK, Answers
    <2>6. Written(p)
      BY <1>5, <2>2, <2>4 DEF Written
    <2>7. Served(r0, m0)'
      <3>1. ~Busy(g, r0)' /\ ~Asked(g, r0)' /\ DoneAt(g, r0)' = DoneAt(g, r0)
        BY <1>2, <1>5, <1>6, <1>8, <2>3, <2>4 DEF Busy, Asked, Call, SameView
      <3>2. DoneAt(g, r0)' = DoneAt(p, r0)'
        BY <1>6, <1>8, <2>3, <3>1
      <3>3. QED
        BY <1>2, <2>2, <2>3, <3>1, <3>2 DEF Served
    <2>8. Ready(r0, m0)
      <3>1. Held(r0, m0)' /\ Verdict(r0, m0)'
        BY <2>2 DEF Held, Verdict
      <3>2. QED
        BY <2>2, <2>7, <3>1 DEF Ready
    <2>9. QED
      BY <1>8, <2>2, <2>3, <2>5, <2>6, <2>8, SwapReturns
  <1>9. CASE Call(p).op = "reveal"
    <2>1. pc' = [pc EXCEPT ![p] = "labels"] /\ ret' = ret /\ CheckerTo(p, "g_labels")
      BY <1>7, <1>9 DEF SwapWant, Goto
    <2>2. /\ eqpc' \in [Revealers -> [Machine -> {"setup", "g_want", "n_want", "g_labels", "n_labels",
                          "n_bools", "hash", "g_result", "n_result", "done"}]]
          /\ eqpc'[r0][m0] = "g_labels"
          /\ \A r \in Revealers, m \in Machine : r # r0 \/ m # m0 => eqpc'[r][m] = eqpc[r][m]
      BY <1>1, <2>1, CheckerMoves
    <2>3. /\ pc' \in [Process -> pcs] /\ pc'[p] = "labels" /\ \A q \in Process \ {p} : pc'[q] = pc[q]
      BY <1>1, <2>1 DEF TypeOK, pcs
    <2>4. TypeOK'
      BY <1>1, <1>5, <2>1, <2>2, <2>3 DEF TypeOK, pcs
    <2>5. Written(p)
      BY <1>5, <2>1, <2>2, <2>3 DEF Written
    <2>6. /\ \A q \in Process : Now(q)' = Now(q) /\ Call(q)' = Call(q) /\ SameView(q, r0)
          /\ Kept
      BY <1>1, <1>5, <2>1, StayHistory
    <2>7. Own(p)'
      <3>1. ASSUME NEW k \in 1..Len(script), k = Now(p)
            PROVE  LabelsOf(p, k)' = LabelsOf(p, k) /\ BitsOf(p[1], k)' = BitsOf(p[1], k)
        BY <1>1, <1>2, <2>6, BitsSame
      <3>2. /\ LabelsOf(p, Now(p))' = LabelsOf(p, Now(p))
            /\ BitsOf(p[1], Now(p))' = BitsOf(p[1], Now(p))
        BY <1>4, <2>6, <3>1 DEF LabelsOf, BitsOf
      <3>3. Own(p)
        BY <1>1 DEF OwnInv
      <3>4. ValueLevel(p)' = ValueLevel(p)
        BY <1>3, <2>3, <2>6 DEF ValueLevel, Outputs
      <3>5. QED
        BY <1>3, <1>5, <2>3, <2>6, <3>2, <3>3, <3>4 DEF Own
    <2>8. Ready(r0, m0)
      <3>1. Asked(p, r0)' /\ Asked(g, r0)'
        BY <1>2, <1>6, <1>9, <2>3, <2>6 DEF Asked
      <3>2. Now(g)' = Now(p)' /\ DoneAt(g, r0)' = DoneAt(p, r0)'
        BY <1>2, <1>6, <1>9, <2>6 DEF SameView
      <3>3. Held(r0, m0)' /\ Verdict(r0, m0)'
        BY <2>2 DEF Held, Verdict
      <3>4. Served(r0, m0)'
        BY <1>2, <2>2, <2>3, <3>1, <3>2 DEF Served
      <3>5. QED
        BY <2>2, <3>3, <3>4 DEF Ready
    <2>9. QED
      BY <1>2, <1>3, <1>5, <1>9, <2>1, <2>2, <2>3, <2>4, <2>5, <2>7, <2>8, SwapStays
  <1>10. QED
    BY <1>4, <1>8, <1>9

\* The reveal of a process succeeds.
LEMMA RequestReturns ==
  ASSUME IInv, NEW p \in Process, NEW r0 \in Revealers, r0 = Call(p).r, Requested(p),
         pc[p] \in {"labels", "bools_out"}, UNCHANGED <<script, ready, nonce>>
  PROVE  /\ Answered(p, TRUE, Output(p)) /\ Flags(p, r0)' /\ Busy(p, r0)' /\ OpenAt(p, r0)' = {Now(p)}
         /\ in_progress' \in [Revealers -> [Process -> BOOLEAN]]
         /\ \A r \in Revealers, q \in Process : r # r0 \/ q # p => in_progress'[r][q] = in_progress[r][q]
         /\ DoneAt(p, r0)' = DoneAt(p, r0) \cup {Now(p)}
         /\ \A q \in Process \ {p} : SameView(q, r0)
  <1>1. TypeOK
    BY DEF IInv
  <1>2. /\ Now(p) \in 1..Len(script) /\ GoesAt(p) /\ ~ready[r0][p] /\ Call(p).op = "reveal"
    BY Waiting
  <1>3. Output(p) \in Values \cup {None}
    BY <1>1, Processes DEF Output, TypeOK, PatchesOf
  <1>4. Answered(p, TRUE, Output(p))
    <2>1. Return(p, TRUE, Output(p))
      BY DEF Requested
    <2>2. Now(p) <= Len(script)
      BY <1>1, <1>2 DEF TypeOK
    <2>3. QED
      BY <1>2, <1>3, <2>1, <2>2 DEF Answered
  <1>5. in_progress \in [Revealers -> [Process -> BOOLEAN]] /\ in_progress' = [in_progress EXCEPT ![r0][p] = TRUE]
    BY <1>1 DEF TypeOK, Requested
  <1>6. ValueAt(Revealers, Process, BOOLEAN, in_progress, in_progress', r0, p, TRUE)
    BY <1>5, PutAt
  <1>7. /\ in_progress' \in [Revealers -> [Process -> BOOLEAN]] /\ in_progress'[r0][p] = TRUE
        /\ \A r \in Revealers, q \in Process : r # r0 \/ q # p => in_progress'[r][q] = in_progress[r][q]
    BY <1>6 DEF ValueAt, Elsewhere
  <1>8. pc'[p] = "idle"
    BY <1>1, <1>4, AnsweredRet
  <1>9. /\ DoneAt(p, r0)' = DoneAt(p, r0) \cup {Now(p)} /\ OpenAt(p, r0)' = {Now(p)} /\ ~HaltedAt(p, r0)'
        /\ \A q \in Process \ {p} : SameView(q, r0)
    BY <1>1, <1>2, <1>4, AnsweredView
  <1>10. Busy(p, r0)' /\ ~Wants(p, r0)'
    BY <1>7, <1>8 DEF Busy, Wants
  <1>11. Flags(p, r0)'
    BY <1>2, <1>9, <1>10 DEF Flags
  <1>12. QED
    BY <1>4, <1>7, <1>9, <1>10, <1>11

\* The labels of a process are what its checker gets.
LEMMA SwapLabelsWrites ==
  ASSUME IInv, NEW p \in Process, NEW r0 \in Revealers, r0 = Call(p).r, SwapLabels(p)
  PROVE  /\ labels' \in [Revealers -> [Process -> PatchesOf(Label \cup {None})]]
         /\ labels'[r0][p].theirs = LabelsOf(p, Now(p))
         /\ \A r \in Revealers, q \in Process : r # r0 \/ q # p => labels'[r][q] = labels[r][q]
         /\ UNCHANGED <<script, ready, nonce, wants, bools, result, value>>
  <1>1. TypeOK /\ OwnInv
    BY DEF IInv
  <1>2. pc[p] = "labels" /\ labels' = [labels EXCEPT ![r0][p] = Swapped(labels[r0][p])]
    BY DEF SwapLabels
  <1>3. labels \in [Revealers -> [Process -> PatchesOf(Label \cup {None})]]
    BY <1>1 DEF TypeOK
  <1>4. PatchesSwapped(Revealers, Process, Label \cup {None}, labels, labels', r0, p)
    BY <1>2, <1>3, PutSwapped
  <1>5. labels[r0][p].mine = LabelsOf(p, Now(p))
    BY <1>1, <1>2, Waiting DEF OwnInv, Own
  <1>6. QED
    BY <1>4, <1>5 DEF SwapLabels, PatchesSwapped, Elsewhere

\* The bits and labels of calls that were made stay.
LEMMA BitsStay ==
  ASSUME TypeOK, script' = script, NEW k \in 1..Len(script), NEW p \in Process
  PROVE  LabelsOf(p, k)' = LabelsOf(p, k) /\ BitsOf(p[1], k)' = BitsOf(p[1], k)
  <1>1. Kept
    BY Typed DEF Kept, TypeOK
  <1>2. QED
    BY <1>1, BitsSame, Processes

\* The garbler's labels; its reveal returns.
LEMMA GarblerLabelsKeeps ==
  ASSUME IInv, NEW p \in Process, NEW r0 \in Revealers, r0 = Call(p).r, SwapLabels(p), p[2] = "garbler"
  PROVE  IInv'
  <1> DEFINE m0 == p[1]
             n == nonGarbler(p[1])
  <1>1. TypeOK /\ CheckerInv
    BY DEF IInv
  <1>2. /\ m0 \in Machine /\ p = garbler(m0) /\ n \in Process /\ n # p /\ n = nonGarbler(m0)
    BY Processes
  <1>3. pc[p] = "labels" /\ eqpc[r0][m0] = "g_labels" /\ CheckerTo(p, "n_labels") /\ Requested(p)
    BY DEF SwapLabels, CheckerAt
  <1>4. /\ Now(p) \in 1..Len(script) /\ Now(p) \notin DoneAt(p, r0) /\ Call(p).op = "reveal"
    BY <1>3, Waiting
  <1>5. /\ labels' \in [Revealers -> [Process -> PatchesOf(Label \cup {None})]]
        /\ labels'[r0][p].theirs = LabelsOf(p, Now(p))
        /\ \A r \in Revealers, q \in Process : r # r0 \/ q # p => labels'[r][q] = labels[r][q]
        /\ UNCHANGED <<script, ready, nonce, wants, bools, result, value>>
    BY SwapLabelsWrites
  <1>6. /\ eqpc' \in [Revealers -> [Machine -> {"setup", "g_want", "n_want", "g_labels", "n_labels",
                          "n_bools", "hash", "g_result", "n_result", "done"}]]
        /\ eqpc'[r0][m0] = "n_labels"
        /\ \A r \in Revealers, m \in Machine : r # r0 \/ m # m0 => eqpc'[r][m] = eqpc[r][m]
    BY <1>1, <1>3, CheckerMoves
  <1>7. /\ Answered(p, TRUE, Output(p)) /\ Flags(p, r0)' /\ Busy(p, r0)' /\ OpenAt(p, r0)' = {Now(p)}
        /\ in_progress' \in [Revealers -> [Process -> BOOLEAN]]
        /\ \A r \in Revealers, q \in Process : r # r0 \/ q # p => in_progress'[r][q] = in_progress[r][q]
        /\ DoneAt(p, r0)' = DoneAt(p, r0) \cup {Now(p)}
        /\ \A q \in Process \ {p} : SameView(q, r0)
    BY <1>3, <1>5, RequestReturns
  <1>8. /\ Asked(n, r0) /\ pc[n] = "labels" /\ Now(p) = Now(n) /\ DoneAt(p, r0) = DoneAt(n, r0)
    BY <1>1, <1>2, <1>3 DEF CheckerInv, Served
  <1> HIDE DEF n
  <1>9. /\ ret' \in [Process -> Seq(Answers)] /\ pc' = [pc EXCEPT ![p] = "idle"]
        /\ \A q \in Process \ {p} : ret'[q] = ret[q] /\ pc'[q] = pc[q]
    BY <1>1, <1>7, AnsweredRet
  <1>10. TypeOK'
    BY <1>1, <1>5, <1>6, <1>7, <1>9 DEF TypeOK, Answers
  <1>11. Written(p)
    BY <1>5, <1>6, <1>7, <1>9 DEF Written
  <1>12. Ready(r0, m0)
    <2>1. Asked(n, r0)' /\ pc'[n] = "labels" /\ Now(n)' = Now(p) /\ DoneAt(n, r0)' = DoneAt(n, r0)
      BY <1>2, <1>5, <1>7, <1>8, <1>9 DEF Asked, Call, Now, SameView
    <2>2. Now(n)' \in Ahead(p, n, r0)'
      BY <1>4, <1>7, <1>8, <2>1 DEF Ahead
    <2>3. Served(r0, m0)'
      BY <1>2, <1>6, <1>7, <2>1, <2>2 DEF Served
    <2>4. \A k \in 1..Len(script) : LabelsOf(p, k)' = LabelsOf(p, k)
      BY <1>1, <1>5, BitsStay
    <2>5. \A j \in OpenAt(p, r0)' : labels'[r0][p].theirs = LabelsOf(p, j)'
      BY <1>4, <1>5, <1>7, <2>4
    <2>6. Held(r0, m0)'
      BY <1>2, <1>6, <2>5 DEF Held
    <2>7. Verdict(r0, m0)'
      BY <1>6 DEF Verdict
    <2>8. QED
      BY <1>6, <2>3, <2>6, <2>7 DEF Ready
  <1>13. QED
    BY <1>4, <1>6, <1>7, <1>10, <1>11, <1>12, SwapReturns

\* The non-garbler's labels.
LEMMA NonGarblerLabelsKeeps ==
  ASSUME IInv, NEW p \in Process, NEW r0 \in Revealers, r0 = Call(p).r, SwapLabels(p), p[2] # "garbler"
  PROVE  IInv'
  <1> DEFINE m0 == p[1]
             g == garbler(p[1])
  <1>1. TypeOK /\ PlaceInv /\ CheckerInv /\ OwnInv /\ HeldInv
    BY DEF IInv
  <1>2. /\ m0 \in Machine /\ p = nonGarbler(m0) /\ g \in Process /\ g # p /\ g = garbler(m0)
        /\ p[2] = "non_garbler"
    BY Processes
  <1>3. /\ pc[p] = "labels" /\ eqpc[r0][m0] = "n_labels" /\ CheckerTo(p, "n_bools")
        /\ pc' = [pc EXCEPT ![p] = "bools_out"] /\ ret' = ret /\ in_progress' = in_progress
    BY DEF SwapLabels, CheckerAt, Goto
  <1>4. Now(p) \in 1..Len(script) /\ Call(p).op = "reveal"
    BY <1>3, Waiting
  <1>5. /\ labels' \in [Revealers -> [Process -> PatchesOf(Label \cup {None})]]
        /\ labels'[r0][p].theirs = LabelsOf(p, Now(p))
        /\ \A r \in Revealers, q \in Process : r # r0 \/ q # p => labels'[r][q] = labels[r][q]
        /\ UNCHANGED <<script, ready, nonce, wants, bools, result, value>>
    BY SwapLabelsWrites
  <1>6. /\ eqpc' \in [Revealers -> [Machine -> {"setup", "g_want", "n_want", "g_labels", "n_labels",
                          "n_bools", "hash", "g_result", "n_result", "done"}]]
        /\ eqpc'[r0][m0] = "n_bools"
        /\ \A r \in Revealers, m \in Machine : r # r0 \/ m # m0 => eqpc'[r][m] = eqpc[r][m]
    BY <1>1, <1>3, CheckerMoves
  <1>7. pc' \in [Process -> pcs] /\ pc'[p] = "bools_out" /\ \A q \in Process \ {p} : pc'[q] = pc[q]
    BY <1>1, <1>3 DEF TypeOK, pcs
  <1>8. TypeOK'
    BY <1>1, <1>3, <1>5, <1>6, <1>7 DEF TypeOK, pcs
  <1>9. Written(p)
    BY <1>3, <1>5, <1>6, <1>7 DEF Written
  <1>10. \A q \in Process : Now(q)' = Now(q) /\ Call(q)' = Call(q) /\ SameView(q, r0)
    BY <1>1, <1>3, <1>5, StayHistory
  <1>11. Busy(g, r0) /\ Now(p) \in Ahead(g, p, r0)
    BY <1>1, <1>2, <1>3 DEF CheckerInv, Served
  <1> HIDE DEF g
  <1>12. \A k \in 1..Len(script), q \in Process : LabelsOf(q, k)' = LabelsOf(q, k) /\ BitsOf(q[1], k)' = BitsOf(q[1], k)
    BY <1>1, <1>5, BitsStay
  <1>13. LabelsOf(p, Now(p))' = LabelsOf(p, Now(p)) /\ BitsOf(p[1], Now(p))' = BitsOf(p[1], Now(p))
    BY <1>4, <1>10, <1>12 DEF LabelsOf, BitsOf
  <1>14. Own(p)'
    <2>1. Own(p)
      BY <1>1 DEF OwnInv
    <2>2. ValueLevel(p)' = ValueLevel(p)
      BY <1>3, <1>7, <1>10 DEF ValueLevel, Outputs
    <2>3. QED
      BY <1>3, <1>5, <1>7, <1>10, <1>13, <2>1, <2>2 DEF Own
  <1>15. Ready(r0, m0)
    <2>1. Busy(g, r0)' /\ Asked(p, r0)'
      BY <1>2, <1>3, <1>7, <1>10, <1>11 DEF Busy, Asked
    <2>2. Now(p)' \in Ahead(g, p, r0)'
      BY <1>2, <1>10, <1>11 DEF Ahead, SameView
    <2>3. Served(r0, m0)'
      BY <1>2, <1>6, <1>7, <2>1, <2>2 DEF Served
    <2>4. \A j \in OpenAt(g, r0) : labels[r0][g].theirs = LabelsOf(g, j) /\ j \in 1..Len(script)
      BY <1>1, <1>2, <1>3, KnownCalls DEF HeldInv, Held
    <2>5. \A j \in OpenAt(g, r0)' : labels'[r0][g].theirs = LabelsOf(g, j)'
      BY <1>2, <1>5, <1>10, <1>12, <2>4 DEF SameView
    <2>6. labels'[r0][p].theirs = LabelsOf(p, Now(p))'
      BY <1>5, <1>13
    <2>7. Held(r0, m0)'
      BY <1>2, <1>6, <2>5, <2>6 DEF Held
    <2>8. Verdict(r0, m0)'
      BY <1>6 DEF Verdict
    <2>9. QED
      BY <1>6, <2>3, <2>7, <2>8 DEF Ready
  <1>16. QED
    BY <1>2, <1>3, <1>4, <1>5, <1>6, <1>7, <1>8, <1>9, <1>14, <1>15, SwapStays

\* The non-garbler's bools; its reveal returns and the checker may compare.
LEMMA SwapBoolsKeeps ==
  ASSUME IInv, NEW p \in Process, NEW r0 \in Revealers, r0 = Call(p).r, SwapBools(p)
  PROVE  IInv'
  <1> DEFINE m0 == p[1]
             g == garbler(p[1])
  <1>1. TypeOK /\ PlaceInv /\ CheckerInv /\ OwnInv /\ HeldInv
    BY DEF IInv
  <1>2. /\ pc[p] = "bools_out" /\ eqpc[r0][m0] = "n_bools" /\ CheckerTo(p, "hash") /\ Requested(p)
        /\ bools' = [bools EXCEPT ![r0][m0] = Swapped(bools[r0][m0])]
        /\ UNCHANGED <<script, ready, nonce, wants, labels, result, value>>
    BY DEF SwapBools
  <1>3. /\ m0 \in Machine /\ p = nonGarbler(m0) /\ g \in Process /\ g # p /\ g = garbler(m0)
        /\ p[2] = "non_garbler"
    BY <1>1, <1>2, Processes DEF PlaceInv, Place
  <1>4. /\ Now(p) \in 1..Len(script) /\ Call(p).op = "reveal" /\ Now(p) = Len(ret[p]) + 1
    BY <1>2, Waiting
  <1>5. /\ bools' \in [Revealers -> [Machine -> PatchesOf(Bits \cup {None})]]
        /\ bools'[r0][m0].theirs = BitsOf(m0, Now(p))
        /\ \A r \in Revealers, m \in Machine : r # r0 \/ m # m0 => bools'[r][m] = bools[r][m]
    <2>1. bools \in [Revealers -> [Machine -> PatchesOf(Bits \cup {None})]]
      BY <1>1 DEF TypeOK
    <2>2. PatchesSwapped(Revealers, Machine, Bits \cup {None}, bools, bools', r0, m0)
      BY <1>2, <1>3, <2>1, PutSwapped
    <2>3. bools[r0][m0].mine = BitsOf(m0, Now(p))
      BY <1>1, <1>2, <1>3, <1>4 DEF OwnInv, Own
    <2>4. QED
      BY <2>2, <2>3 DEF PatchesSwapped, Elsewhere
  <1>6. /\ eqpc' \in [Revealers -> [Machine -> {"setup", "g_want", "n_want", "g_labels", "n_labels",
                          "n_bools", "hash", "g_result", "n_result", "done"}]]
        /\ eqpc'[r0][m0] = "hash"
        /\ \A r \in Revealers, m \in Machine : r # r0 \/ m # m0 => eqpc'[r][m] = eqpc[r][m]
    BY <1>1, <1>2, CheckerMoves
  <1>7. /\ Answered(p, TRUE, Output(p)) /\ Flags(p, r0)' /\ Busy(p, r0)' /\ OpenAt(p, r0)' = {Now(p)}
        /\ in_progress' \in [Revealers -> [Process -> BOOLEAN]]
        /\ \A r \in Revealers, q \in Process : r # r0 \/ q # p => in_progress'[r][q] = in_progress[r][q]
        /\ DoneAt(p, r0)' = DoneAt(p, r0) \cup {Now(p)}
        /\ \A q \in Process \ {p} : SameView(q, r0)
    BY <1>2, RequestReturns
  <1>8. Busy(g, r0) /\ Now(p) \in Ahead(g, p, r0)
    BY <1>1, <1>2, <1>3 DEF CheckerInv, Served
  <1>9. /\ ret' \in [Process -> Seq(Answers)] /\ pc' = [pc EXCEPT ![p] = "idle"]
        /\ \A q \in Process \ {p} : ret'[q] = ret[q] /\ pc'[q] = pc[q]
    BY <1>1, <1>7, AnsweredRet
  <1>10. TypeOK'
    BY <1>1, <1>2, <1>5, <1>6, <1>7, <1>9 DEF TypeOK, Answers
  <1>11. Written(p)
    BY <1>2, <1>3, <1>5, <1>6, <1>7, <1>9 DEF Written
  <1>12. \A k \in 1..Len(script), q \in Process : LabelsOf(q, k)' = LabelsOf(q, k) /\ BitsOf(q[1], k)' = BitsOf(q[1], k)
    BY <1>1, <1>2, BitsStay
  <1> HIDE DEF g
  <1>13. Ready(r0, m0)
    <2>1. /\ Busy(g, r0)' /\ DoneAt(g, r0)' = DoneAt(g, r0) /\ OpenAt(g, r0)' = OpenAt(g, r0)
      BY <1>3, <1>7, <1>8 DEF Busy, SameView
    <2>2. DoneAt(g, r0)' = DoneAt(p, r0)'
      BY <1>7, <1>8, <2>1 DEF Ahead
    <2>3. Served(r0, m0)'
      BY <1>3, <1>6, <1>7, <2>1, <2>2 DEF Served
    <2>4. /\ \A j \in OpenAt(g, r0) : labels[r0][g].theirs = LabelsOf(g, j) /\ j \in 1..Len(script)
          /\ labels[r0][p].theirs = LabelsOf(p, Now(p))
      BY <1>1, <1>2, <1>3, KnownCalls DEF HeldInv, Held
    <2>5. \A j \in OpenAt(g, r0)' : labels'[r0][g].theirs = LabelsOf(g, j)'
      BY <1>2, <1>3, <1>12, <2>1, <2>4
    <2>6. \A j \in OpenAt(p, r0)' : labels'[r0][p].theirs = LabelsOf(p, j)' /\ bools'[r0][m0].theirs = BitsOf(m0, j)'
      BY <1>2, <1>4, <1>5, <1>7, <1>12, <2>4
    <2>7. Held(r0, m0)'
      BY <1>3, <1>6, <2>5, <2>6 DEF Held
    <2>8. Verdict(r0, m0)'
      BY <1>6 DEF Verdict
    <2>9. QED
      BY <1>6, <2>3, <2>7, <2>8 DEF Ready
  <1>14. OpenAt(nonGarbler(p[1]), r0)' \subseteq {Len(ret[nonGarbler(p[1])]) + 1}
    BY <1>3, <1>4, <1>7
  <1>15. QED
    BY <1>4, <1>7, <1>10, <1>11, <1>13, <1>14, SwapReturns

\* A process takes its verdict.
LEMMA ResultReturns ==
  ASSUME IInv, NEW p \in Process, NEW r0 \in Revealers, r0 = Call(p).r, SwapResult(p)
  PROVE  /\ \E ok \in BOOLEAN : Answered(p, ok, None)
         /\ Flags(p, r0)' /\ ~Busy(p, r0)' /\ ~Asked(p, r0)' /\ Call(p).op = "results"
         /\ ready' \in [Revealers -> [Process -> BOOLEAN]]
         /\ in_progress' \in [Revealers -> [Process -> BOOLEAN]]
         /\ result' \in [Revealers -> [Process -> PatchesOf(BOOLEAN)]]
         /\ \A r \in Revealers, q \in Process : r # r0 \/ q # p =>
               /\ ready'[r][q] = ready[r][q] /\ in_progress'[r][q] = in_progress[r][q]
               /\ result'[r][q] = result[r][q]
         /\ DoneAt(p, r0)' = DoneAt(p, r0) \cup {Now(p)} /\ Now(p) \notin DoneAt(p, r0)
         /\ GoesAt(p) /\ Now(p) = Len(ret[p]) + 1 /\ Call(p) = script[Now(p)]
         /\ \A q \in Process \ {p} : SameView(q, r0)
  <1>1. TypeOK /\ PlaceInv /\ FlagInv /\ VerdictInv /\ ReplyInv
    BY DEF IInv
  <1>2. /\ pc[p] = "result" /\ CheckerAt(p, "g_result", "n_result")
        /\ result' = [result EXCEPT ![r0][p] = Swapped(result[r0][p])]
        /\ in_progress' = [in_progress EXCEPT ![r0][p] = FALSE]
        /\ ready' = [ready EXCEPT ![r0][p] = TRUE]
        /\ Return(p, result'[r0][p].mine, None)
        /\ UNCHANGED <<script, nonce, wants, labels, bools, value>>
    BY DEF SwapResult
  <1>3. /\ Now(p) \in 1..Len(script) /\ Now(p) = Len(ret[p]) + 1 /\ Call(p) = script[Now(p)]
        /\ Call(p).op = "results" /\ GoesAt(p) /\ Len(ret[p]) \in Nat /\ Len(script) \in Nat
    BY <1>1, <1>2, Called, Typed DEF PlaceInv, Place
  <1>4. PatchesSwapped(Revealers, Process, BOOLEAN, result, result', r0, p)
    <2>1. result \in [Revealers -> [Process -> PatchesOf(BOOLEAN)]]
      BY <1>1 DEF TypeOK
    <2>2. QED
      BY <1>2, <2>1, PutSwapped
  <1>5. ValueAt(Revealers, Process, BOOLEAN, in_progress, in_progress', r0, p, FALSE)
    <2>1. in_progress \in [Revealers -> [Process -> BOOLEAN]] /\ FALSE \in BOOLEAN
      BY <1>1 DEF TypeOK
    <2>2. QED
      BY <1>2, <2>1, PutAt
  <1>6. ValueAt(Revealers, Process, BOOLEAN, ready, ready', r0, p, TRUE)
    <2>1. ready \in [Revealers -> [Process -> BOOLEAN]] /\ TRUE \in BOOLEAN
      BY <1>1 DEF TypeOK
    <2>2. QED
      BY <1>2, <2>1, PutAt
  <1>7. /\ ready' \in [Revealers -> [Process -> BOOLEAN]] /\ ready'[r0][p] = TRUE
        /\ in_progress' \in [Revealers -> [Process -> BOOLEAN]] /\ in_progress'[r0][p] = FALSE
        /\ result' \in [Revealers -> [Process -> PatchesOf(BOOLEAN)]]
        /\ \A r \in Revealers, q \in Process : r # r0 \/ q # p =>
              /\ ready'[r][q] = ready[r][q] /\ in_progress'[r][q] = in_progress[r][q]
              /\ result'[r][q] = result[r][q]
    BY <1>4, <1>5, <1>6 DEF PatchesSwapped, ValueAt, Elsewhere
  <1>8. PICK ok \in BOOLEAN : ok = result[r0][p].theirs
    BY <1>1 DEF TypeOK, PatchesOf
  <1>9. Answered(p, ok, None)
    <2>1. result'[r0][p].mine = ok
      BY <1>4, <1>8 DEF PatchesSwapped
    <2>2. Return(p, ok, None)
      BY <1>2, <2>1
    <2>3. ok <=> Equal(script, ret[p], Now(p), r0)
      <3>1. eqpc[r0][p[1]] = IF p[2] = "garbler" THEN "g_result" ELSE "n_result"
        BY <1>2 DEF CheckerAt
      <3>2. Verdict(r0, p[1])
        BY <1>1, Processes DEF VerdictInv
      <3>3. CASE p[2] = "garbler"
        BY <1>8, <3>1, <3>2, <3>3, Processes DEF Verdict
      <3>4. CASE p[2] # "garbler"
        BY <1>8, <3>1, <3>2, <3>4, Processes DEF Verdict
      <3>5. QED
        BY <3>3, <3>4
    <2>4. Now(p) <= Len(script)
      BY <1>3
    <2>5. QED
      BY <1>2, <1>3, <2>2, <2>3, <2>4 DEF Answered
  <1>10. pc'[p] = "idle"
    BY <1>1, <1>9, AnsweredRet
  <1>11. /\ DoneAt(p, r0)' = DoneAt(p, r0) \cup {Now(p)} /\ OpenAt(p, r0)' = {}
         /\ HaltedAt(p, r0)' <=> HaltedAt(p, r0)
         /\ \A q \in Process \ {p} : SameView(q, r0)
    BY <1>1, <1>3, <1>9, AnsweredView
  <1>12. ~HaltedAt(p, r0)
    <2>1. Open(script, ret[p], Now(p), r0) # {}
      BY <1>3 DEF GoesAt, Goes
    <2>2. Replies(script, ret[p]) /\ Now(p) \in 1..(Len(ret[p]) + 1)
      BY <1>1, <1>3 DEF ReplyInv
    <2>3. ~Halted(script, ret[p], Now(p), r0)
      BY <1>3, <2>1, <2>2, OpenNotHalted
    <2>4. QED
      BY <2>3 DEF HaltedAt
  <1>13. ~Busy(p, r0)' /\ ~Wants(p, r0)' /\ ~Asked(p, r0)'
    BY <1>7, <1>10 DEF Busy, Wants, Asked
  <1>14. Flags(p, r0)'
    BY <1>7, <1>11, <1>12, <1>13 DEF Flags
  <1>15. Now(p) \notin DoneAt(p, r0)
    BY <1>3 DEF DoneAt, Done
  <1>16. QED
    BY <1>3, <1>7, <1>9, <1>11, <1>13, <1>14, <1>15

\* The garbler's verdict: the other machine is done with this reveal.
LEMMA GarblerResultKeeps ==
  ASSUME IInv, NEW p \in Process, NEW r0 \in Revealers, r0 = Call(p).r, SwapResult(p), p[2] = "garbler"
  PROVE  IInv'
  <1> DEFINE m0 == p[1]
             n == nonGarbler(p[1])
  <1>1. TypeOK /\ CheckerInv /\ VerdictInv /\ SettledNow
    BY DEF IInv
  <1>2. /\ m0 \in Machine /\ p = garbler(m0) /\ n \in Process /\ n # p /\ n = nonGarbler(m0)
    BY Processes
  <1>3. /\ eqpc[r0][m0] = "g_result" /\ CheckerTo(p, "n_result")
        /\ UNCHANGED <<script, nonce, wants, labels, bools, value>>
    BY DEF SwapResult, CheckerAt
  <1>4. PICK ok \in BOOLEAN : Answered(p, ok, None)
    BY ResultReturns
  <1>5. /\ Flags(p, r0)' /\ ~Busy(p, r0)' /\ ~Asked(p, r0)' /\ Call(p).op = "results"
        /\ ready' \in [Revealers -> [Process -> BOOLEAN]]
        /\ in_progress' \in [Revealers -> [Process -> BOOLEAN]]
        /\ result' \in [Revealers -> [Process -> PatchesOf(BOOLEAN)]]
        /\ \A r \in Revealers, q \in Process : r # r0 \/ q # p =>
              /\ ready'[r][q] = ready[r][q] /\ in_progress'[r][q] = in_progress[r][q]
              /\ result'[r][q] = result[r][q]
        /\ DoneAt(p, r0)' = DoneAt(p, r0) \cup {Now(p)} /\ Now(p) \notin DoneAt(p, r0)
        /\ \A q \in Process \ {p} : SameView(q, r0)
    BY ResultReturns
  <1>6. /\ eqpc' \in [Revealers -> [Machine -> {"setup", "g_want", "n_want", "g_labels", "n_labels",
                          "n_bools", "hash", "g_result", "n_result", "done"}]]
        /\ eqpc'[r0][m0] = "n_result"
        /\ \A r \in Revealers, m \in Machine : r # r0 \/ m # m0 => eqpc'[r][m] = eqpc[r][m]
    BY <1>1, <1>3, CheckerMoves
  <1>7. /\ ret' \in [Process -> Seq(Answers)] /\ pc' = [pc EXCEPT ![p] = "idle"]
        /\ \A q \in Process \ {p} : ret'[q] = ret[q] /\ pc'[q] = pc[q]
    BY <1>1, <1>4, AnsweredRet
  <1>8. TypeOK'
    BY <1>1, <1>3, <1>5, <1>6, <1>7 DEF TypeOK, Answers
  <1>9. Written(p)
    BY <1>3, <1>5, <1>6, <1>7 DEF Written
  <1>10. Busy(p, r0) /\ Busy(n, r0) /\ DoneAt(p, r0) = DoneAt(n, r0)
    BY <1>1, <1>2, <1>3 DEF CheckerInv, Served
  <1>11. OpenAt(p, r0) = OpenAt(n, r0)
    BY <1>2, <1>10, UnderWay
  <1>12. \A j \in OpenAt(n, r0) : Settled(r0, j) /\ j \in Nat
    BY <1>1, <1>2, <1>3 DEF SettledNow, OpenAt, Open
  <1>13. Call(p).op = "results" => \A j \in OpenAt(p, r0) : Settled(r0, j)
    BY <1>11, <1>12
  <1> HIDE DEF n
  <1>14. ASSUME \A r \in Revealers : \A j \in Nat : Settled(r, j) => Settled(r, j)'
         PROVE  Ready(r0, m0)
    <2>1. /\ Busy(n, r0)' /\ DoneAt(n, r0)' = DoneAt(n, r0) /\ OpenAt(n, r0)' = OpenAt(n, r0)
          /\ Now(n)' = Now(n) /\ ret'[n] = ret[n] /\ result'[r0][n] = result[r0][n]
      BY <1>2, <1>5, <1>7, <1>10 DEF Busy, SameView, Now
    <2>2. Now(p) \in Ahead(p, n, r0)'
      BY <1>5, <1>10, <2>1 DEF Ahead
    <2>3. Served(r0, m0)'
      BY <1>2, <1>5, <1>6, <2>1, <2>2 DEF Served
    <2>4. Held(r0, m0)'
      BY <1>6 DEF Held
    <2>5. Verdict(r0, m0)'
      BY <1>1, <1>2, <1>3, <1>6, <2>1 DEF VerdictInv, Verdict
    <2>6. \A j \in OpenAt(n, r0)' : Settled(r0, j)'
      BY <1>12, <1>14, <2>1
    <2>7. QED
      BY <1>2, <2>3, <2>4, <2>5, <2>6 DEF Ready
  <1>15. QED
    BY <1>4, <1>5, <1>6, <1>8, <1>9, <1>13, <1>14, SwapReturns

\* The non-garbler's verdict; the checker waits for the next request.
LEMMA NonGarblerResultKeeps ==
  ASSUME IInv, NEW p \in Process, NEW r0 \in Revealers, r0 = Call(p).r, SwapResult(p), p[2] # "garbler"
  PROVE  IInv'
  <1> DEFINE m0 == p[1]
             g == garbler(p[1])
  <1>1. TypeOK /\ CheckerInv /\ AgreeInv /\ SettledNow
    BY DEF IInv
  <1>2. /\ m0 \in Machine /\ p = nonGarbler(m0) /\ g \in Process /\ g # p /\ g = garbler(m0)
    BY Processes
  <1>3. /\ eqpc[r0][m0] = "n_result" /\ CheckerTo(p, "g_want")
        /\ UNCHANGED <<script, nonce, wants, labels, bools, value>>
    BY DEF SwapResult, CheckerAt
  <1>4. PICK ok \in BOOLEAN : Answered(p, ok, None)
    BY ResultReturns
  <1>5. /\ Flags(p, r0)' /\ ~Busy(p, r0)' /\ ~Asked(p, r0)' /\ Call(p).op = "results"
        /\ ready' \in [Revealers -> [Process -> BOOLEAN]]
        /\ in_progress' \in [Revealers -> [Process -> BOOLEAN]]
        /\ result' \in [Revealers -> [Process -> PatchesOf(BOOLEAN)]]
        /\ \A r \in Revealers, q \in Process : r # r0 \/ q # p =>
              /\ ready'[r][q] = ready[r][q] /\ in_progress'[r][q] = in_progress[r][q]
              /\ result'[r][q] = result[r][q]
        /\ DoneAt(p, r0)' = DoneAt(p, r0) \cup {Now(p)}
        /\ GoesAt(p) /\ Now(p) = Len(ret[p]) + 1 /\ Call(p) = script[Now(p)]
        /\ \A q \in Process \ {p} : SameView(q, r0)
    BY ResultReturns
  <1>6. /\ eqpc' \in [Revealers -> [Machine -> {"setup", "g_want", "n_want", "g_labels", "n_labels",
                          "n_bools", "hash", "g_result", "n_result", "done"}]]
        /\ eqpc'[r0][m0] = "g_want"
        /\ \A r \in Revealers, m \in Machine : r # r0 \/ m # m0 => eqpc'[r][m] = eqpc[r][m]
    BY <1>1, <1>3, CheckerMoves
  <1>7. /\ ret' \in [Process -> Seq(Answers)] /\ pc' = [pc EXCEPT ![p] = "idle"]
        /\ \A q \in Process \ {p} : ret'[q] = ret[q] /\ pc'[q] = pc[q]
    BY <1>1, <1>4, AnsweredRet
  <1>8. TypeOK'
    BY <1>1, <1>3, <1>5, <1>6, <1>7 DEF TypeOK, Answers
  <1>9. Written(p)
    BY <1>2, <1>3, <1>5, <1>6, <1>7 DEF Written
  <1>10. ~Busy(g, r0) /\ ~Asked(g, r0) /\ Ahead(g, p, r0) # {}
    BY <1>1, <1>2, <1>3 DEF CheckerInv, Served
  <1>11. Call(p).op = "results" => \A j \in OpenAt(p, r0) : Settled(r0, j)
    BY <1>1, <1>2, <1>3 DEF SettledNow
  <1> HIDE DEF g
  <1>12. DoneAt(g, r0) = DoneAt(p, r0) \cup {Now(p)}
    <2>1. PICK j \in Ahead(g, p, r0) : TRUE
      BY <1>10
    <2>2. j \notin Done(script, ret[p], r0) /\ Done(script, ret[g], r0) = Done(script, ret[p], r0) \cup {j}
      BY <2>1 DEF Ahead, DoneAt
    <2>3. /\ Agree(ret[g], ret[p]) /\ Len(ret[g]) \in Nat /\ Len(ret[p]) \in Nat
          /\ script[Len(ret[p]) + 1].r = r0 /\ Goes(script, ret[p], Len(ret[p]) + 1)
      BY <1>1, <1>2, <1>5, Typed DEF AgreeInv, GoesAt
    <2>4. j = Len(ret[p]) + 1
      BY <2>2, <2>3, CatchUp
    <2>5. QED
      BY <1>5, <2>2, <2>4 DEF DoneAt
  <1>13. Ready(r0, m0)
    <2>1. ~Busy(g, r0)' /\ ~Asked(g, r0)' /\ DoneAt(g, r0)' = DoneAt(g, r0)
      <3>1. ~Busy(g, r0)'
        BY <1>2, <1>5, <1>10 DEF Busy
      <3>2. ~Asked(g, r0)'
        BY <1>2, <1>3, <1>7, <1>10 DEF Asked, Call
      <3>3. DoneAt(g, r0)' = DoneAt(g, r0)
        BY <1>2, <1>5 DEF SameView
      <3>4. QED
        BY <3>1, <3>2, <3>3
    <2>2. DoneAt(g, r0)' = DoneAt(p, r0)'
      BY <1>5, <1>12, <2>1
    <2>3. Served(r0, m0)'
      BY <1>2, <1>5, <1>6, <2>1, <2>2 DEF Served
    <2>4. Held(r0, m0)' /\ Verdict(r0, m0)'
      BY <1>6 DEF Held, Verdict
    <2>5. QED
      BY <1>6, <2>3, <2>4 DEF Ready
  <1>14. QED
    BY <1>4, <1>5, <1>6, <1>8, <1>9, <1>11, <1>13, SwapReturns

-----------------------------------------------------------------------------
(* The specification.                                                        *)

LEMMA InitHolds == Init => IInv
  <1> SUFFICES ASSUME Init PROVE IInv
    OBVIOUS
  <1>1. TypeOK
    BY RevealerAssumption, Processes DEF Init, TypeOK, Patches, PatchesOf, NoRequest, Request
  <1>2. /\ script = <<>> /\ Len(script) = 0
        /\ \A p \in Process : pc[p] = "idle" /\ ret[p] = <<>> /\ Len(ret[p]) = 0 /\ Now(p) = 1
    BY DEF Init, Now
  <1>3. ASSUME NEW p \in Process, NEW r \in Revealers
        PROVE  /\ OpenAt(p, r) = {} /\ ~HaltedAt(p, r) /\ DoneAt(p, r) = {}
               /\ ~Busy(p, r) /\ ~Asked(p, r) /\ ~Wants(p, r)
    BY <1>2 DEF Init, OpenAt, HaltedAt, DoneAt, Open, Halted, Done, Busy, Asked, Wants
  <1>4. PlaceInv
    BY <1>2 DEF PlaceInv, Place, Revealing
  <1>5. FlagInv
    BY <1>3 DEF FlagInv, Flags, Init
  <1>6. ReplyInv /\ AgreeInv /\ OutputsMatch /\ SettledPast
    BY <1>2 DEF ReplyInv, AgreeInv, OutputsMatch, SettledPast, Replies, Agree, Finished
  <1>7. NonceInv
    <2>1. \A r \in Revealers : Count(script, 0, r) = 0
      <3>1. \A r \in Revealers : {i \in 1..0 : ToOne(script[i], r)} = {}
        OBVIOUS
      <3>2. Cardinality({}) = 0
        BY FS_EmptySet
      <3>3. QED
        BY <3>1, <3>2 DEF Count
    <2>2. QED
      BY <1>2, <2>1 DEF NonceInv, Init
  <1>8. SyncInv /\ ValueInv
    <2>1. \A p \in Process : Now(p) = 1 /\ SyncLevel(p) = 0 /\ ValueLevel(p) = 0
      BY <1>2 DEF SyncLevel, ValueLevel
    <2>2. QED
      BY <2>1, Processes DEF SyncInv, ValueInv, InStep
  <1>9. OwnInv
    BY <1>2 DEF OwnInv, Own, ValueLevel
  <1>10. \A r \in Revealers, m \in Machine : eqpc[r][m] = "setup"
    BY DEF Init
  <1>11. HeldInv /\ VerdictInv /\ SettledNow
    BY <1>10 DEF HeldInv, Held, VerdictInv, Verdict, SettledNow
  <1>12. CheckerInv
    <2>1. ASSUME NEW r \in Revealers, NEW m \in Machine PROVE Served(r, m)
      <3>1. garbler(m) \in Process /\ nonGarbler(m) \in Process /\ eqpc[r][m] = "setup"
        BY <1>10, Processes
      <3>2. /\ ~Busy(garbler(m), r) /\ ~Busy(nonGarbler(m), r)
            /\ ~Asked(garbler(m), r) /\ ~Asked(nonGarbler(m), r)
            /\ DoneAt(garbler(m), r) = DoneAt(nonGarbler(m), r)
        BY <1>3, <3>1
      <3>3. QED
        BY <3>1, <3>2 DEF Served
    <2>2. QED
      BY <2>1 DEF CheckerInv
  <1>13. QED
    BY <1>1, <1>4, <1>5, <1>6, <1>7, <1>8, <1>9, <1>11, <1>12 DEF IInv

LEMMA StutterKeeps ==
  ASSUME IInv, UNCHANGED vars
  PROVE  IInv'
  <1>1. /\ TypeOK /\ PlaceInv /\ FlagInv /\ ReplyInv /\ AgreeInv /\ NonceInv /\ SyncInv /\ ValueInv
        /\ OwnInv /\ HeldInv /\ VerdictInv /\ CheckerInv /\ SettledNow /\ SettledPast /\ OutputsMatch
    BY DEF IInv
  <1>2. UNCHANGED <<script, pc, ret, ready, in_progress, nonce, wants, labels, bools, result, value, eqpc>>
    BY DEF vars
  <1>3. TypeOK'
    BY <1>1, <1>2 DEF TypeOK
  <1>4. /\ \A q \in Process : Now(q)' = Now(q) /\ Call(q)' = Call(q) /\ (GoesAt(q)' <=> GoesAt(q))
        /\ \A q \in Process, r \in Revealers : SameView(q, r)
        /\ \A q \in Process : Len(ret'[q]) \in Nat /\ Len(ret[q]) <= Len(ret'[q])
        /\ Kept /\ ReplyInv' /\ AgreeInv' /\ OutputsMatch'
    BY <1>1, <1>2, StayHistory
  <1>5. PlaceInv' /\ NonceInv'
    BY <1>1, <1>2, <1>4 DEF PlaceInv, Place, NonceInv, Outputs
  <1>6. ASSUME NEW q \in Process, NEW r \in Revealers PROVE Flags(q, r)' /\ SameFor(q, r)
    <2>1. Flags(q, r) /\ SameView(q, r) /\ (Busy(q, r)' <=> Busy(q, r)) /\ ready'[r][q] = ready[r][q]
      BY <1>1, <1>2, <1>4 DEF FlagInv, Busy
    <2>2. /\ Wants(q, r)' <=> Wants(q, r)
          /\ Asked(q, r)' <=> Asked(q, r)
          /\ Asked(q, r) => pc'[q] = pc[q] /\ Now(q)' = Now(q)
      BY <1>2, <1>4 DEF Wants, Asked
    <2>3. QED
      BY <2>1, <2>2, FlagsFrame DEF SameFor
  <1>7. SyncInv' /\ ValueInv'
    <2>1. \A q \in Process : SyncLevel(q)' = SyncLevel(q) /\ ValueLevel(q)' = ValueLevel(q)
      BY <1>2, <1>4 DEF SyncLevel, ValueLevel, Outputs
    <2>2. QED
      BY <1>1, <1>2, <2>1, StayMeet
  <1>8. OwnInv'
    <2>1. ASSUME NEW q \in Process PROVE Own(q)'
      <3>1. Own(q) /\ pc'[q] = pc[q] /\ ret'[q] = ret[q]
        BY <1>1, <1>2 DEF OwnInv
      <3>2. QED
        BY <1>1, <1>2, <1>4, <3>1, OwnFrame
    <2>2. QED
      BY <2>1 DEF OwnInv
  <1>9. ASSUME NEW r \in Revealers, NEW m \in Machine PROVE SameHeld(r, m)
    BY <1>2 DEF SameHeld
  <1>10. /\ HeldInv' /\ VerdictInv' /\ CheckerInv' /\ SettledNow'
         /\ \A r \in Revealers : \A j \in Nat : Settled(r, j) => Settled(r, j)'
    BY <1>2, <1>4, <1>6, <1>9, CheckersCalm
  <1>11. SettledPast'
    BY <1>1, <1>2, <1>10, StayHistory
  <1>12. FlagInv'
    BY <1>6 DEF FlagInv
  <1>13. QED
    BY <1>3, <1>4, <1>5, <1>7, <1>8, <1>10, <1>11, <1>12 DEF IInv

LEMMA ProcessKeeps ==
  ASSUME IInv, NEW p \in Process, ProcessStep(p)
  PROVE  IInv'
  <1>1. CASE Begin(p)
    <2>1. pc[p] = "idle" /\ Len(ret[p]) < Len(script) /\ UNCHANGED <<script, eqpc>>
      BY <1>1 DEF Begin
    <2>2. reveal(p) \/ get_eq_check_results(p) \/ stop_eq_checker(p)
      BY <1>1 DEF Begin
    <2>3. QED
      BY <2>1, <2>2, revealKeeps, get_eq_check_resultsKeeps, stop_eq_checkerKeeps
  <1>2. CASE request_eq_check(p)
    BY <1>2, request_eq_checkKeeps
  <1>3. CASE SwapWant(p) \/ SwapLabels(p) \/ SwapBools(p) \/ SwapResult(p)
    <2>1. pc[p] \in {"want", "labels", "bools_out", "result"}
      BY <1>3 DEF SwapWant, SwapLabels, SwapBools, SwapResult
    <2>2. PICK r0 \in Revealers : r0 = Call(p).r
      BY <2>1, Called DEF IInv, PlaceInv, Place
    <2>3. CASE SwapWant(p)
      BY <2>2, <2>3, GarblerWantKeeps, NonGarblerWantKeeps
    <2>4. CASE SwapLabels(p)
      BY <2>2, <2>4, GarblerLabelsKeeps, NonGarblerLabelsKeeps
    <2>5. CASE SwapBools(p)
      BY <2>2, <2>5, SwapBoolsKeeps
    <2>6. CASE SwapResult(p)
      BY <2>2, <2>6, GarblerResultKeeps, NonGarblerResultKeeps
    <2>7. QED
      BY <1>3, <2>3, <2>4, <2>5, <2>6
  <1>4. QED
    BY <1>1, <1>2, <1>3 DEF ProcessStep

LEMMA Inductive == Spec => []IInv
  <1>1. Init => IInv
    BY InitHolds
  <1>2. IInv /\ [Next]_vars => IInv'
    <2> SUFFICES ASSUME IInv, [Next]_vars PROVE IInv'
      OBVIOUS
    <2>1. ASSUME NEW p \in Process, ProcessStep(p) PROVE IInv'
      BY <2>1, ProcessKeeps
    <2>2. ASSUME NEW m \in Machine, Sync(m) \/ SwapValue(m) PROVE IInv'
      BY <2>2, SyncKeeps, SwapValueKeeps
    <2>3. ASSUME NEW r \in Revealers, Setup(r) \/ EqualityCheck(r) PROVE IInv'
      BY <2>3, SetupKeeps, EqualityCheckKeeps
    <2>4. ASSUME NEW prog \in Programs, Decide(prog) PROVE IInv'
      BY <2>4, DecideKeeps
    <2>5. CASE UNCHANGED vars
      BY <2>5, StutterKeeps
    <2>6. QED
      BY <2>1, <2>2, <2>3, <2>4, <2>5 DEF Next, Step
  <1>3. QED
    BY <1>1, <1>2, PTL DEF Spec

-----------------------------------------------------------------------------
(* What follows.                                                             *)

\* Every process, patch and checker holds what it is for; labels and nonces are
\* those of calls that a program can make.
THEOREM TypesAlways == Spec => []TypeOK
  <1>1. IInv => TypeOK
    BY DEF IInv
  <1>2. QED
    BY <1>1, Inductive, PTL

\* io->sync() pairs the same sync of the same reveal in both processes of an
\* execution, whatever reveals, refused or not, the program makes between.
THEOREM SyncAlignedAlways == Spec => []SyncAligned
  <1>1. IInv => SyncAligned
    <2> SUFFICES ASSUME IInv, NEW e \in Machine, AtSync(garbler(e)), AtSync(nonGarbler(Other(e)))
                 PROVE  /\ Len(ret[garbler(e)]) = Len(ret[nonGarbler(Other(e))])
                        /\ pc[garbler(e)] = pc[nonGarbler(Other(e))]
      BY DEF SyncAligned
    <2>1. TypeOK /\ PlaceInv /\ SyncInv
      BY DEF IInv
    <2>2. /\ Now(garbler(e)) = Now(nonGarbler(Other(e)))
          /\ pc[garbler(e)] = pc[nonGarbler(Other(e))]
      BY <2>1, SyncPair
    <2>3. /\ Now(garbler(e)) = Len(ret[garbler(e)]) + 1 /\ Len(ret[garbler(e)]) \in Nat
          /\ Now(nonGarbler(Other(e))) = Len(ret[nonGarbler(Other(e))]) + 1
          /\ Len(ret[nonGarbler(Other(e))]) \in Nat
      BY <2>1, Processes, Typed
    <2> DEFINE k == Len(ret[garbler(e)])
               l == Len(ret[nonGarbler(Other(e))])
    <2>4. k \in Nat /\ l \in Nat /\ k + 1 = l + 1
      BY <2>2, <2>3
    <2> HIDE DEF k, l
    <2>5. k = l
      BY <2>4
    <2>6. QED
      BY <2>2, <2>5 DEF k, l
  <1>2. QED
    BY <1>1, Inductive, PTL

\* The answers, in the words of the properties of Revealer.
LEMMA AnswersKnown ==
  ASSUME IInv, NEW p \in Process, NEW k \in Finished(p)
  PROVE  /\ k \in 1..Len(ret[p]) /\ ret[p][k].ok \in BOOLEAN /\ script[k].r \in Revealers
         /\ \A r : Unchecked(p, k, r) = Open(script, ret[p], k, r)
         /\ script[k].op # "results" => (ret[p][k].ok <=> Goes(script, ret[p], k))
         /\ script[k].op = "results" => (ret[p][k].ok <=> Equal(script, ret[p], k, script[k].r))
  <1>1. TypeOK /\ PlaceInv /\ Replies(script, ret[p])
    BY DEF IInv, ReplyInv
  <1>2. k \in 1..Len(ret[p]) /\ ret[p][k].ok \in BOOLEAN
    BY <1>1, Typed DEF Finished
  <1>3. script[k].r \in Revealers
    BY <1>1, <1>2, Typed, Calls DEF PlaceInv, Place
  <1>4. \A r : Unchecked(p, k, r) = Open(script, ret[p], k, r)
    BY DEF Unchecked, Open, IsCall, Is
  <1>5. QED
    BY <1>1, <1>2, <1>3, <1>4 DEF Replies

\* get_eq_check_results() answers for the reveal just before it, the same
\* Revealer's, whether both executions computed the same value.
THEOREM VerdictMatchesAlways == Spec => []VerdictMatches
  <1>1. IInv => VerdictMatches
    <2> SUFFICES ASSUME IInv, NEW p \in Process, NEW k \in Finished(p), script[k].op = "results"
                 PROVE  ret[p][k].ok = \E j \in Unchecked(p, k, script[k].r) :
                                          script[j].val["LEFT"] = script[j].val["RIGHT"]
      BY DEF VerdictMatches
    <2>1. /\ ret[p][k].ok \in BOOLEAN
          /\ Unchecked(p, k, script[k].r) = Open(script, ret[p], k, script[k].r)
          /\ ret[p][k].ok <=> Equal(script, ret[p], k, script[k].r)
      BY AnswersKnown
    <2>2. QED
      BY <2>1 DEF Equal
  <1>2. QED
    BY <1>1, Inductive, PTL

\* What a reveal writes to the caller is the value of this reveal, in both
\* processes of each machine it is revealed to.
THEOREM OutputsMatchAlways == Spec => []OutputsMatch
  <1>1. IInv => OutputsMatch
    BY DEF IInv
  <1>2. QED
    BY <1>1, Inductive, PTL

\* A call returns the same in all four processes: a program that branches on
\* what a Revealer answers stays one program.
THEOREM SameReturnsAlways == Spec => []SameReturns
  <1>1. IInv => SameReturns
    BY DEF IInv, AgreeInv, Agree, SameReturns, Finished
  <1>2. QED
    BY <1>1, Inductive, PTL

\* No reveal succeeds before the check of the last one was asked for.
THEOREM CheckedBetweenAlways == Spec => []CheckedBetween
  <1>1. IInv => CheckedBetween
    <2> SUFFICES ASSUME IInv, NEW p \in Process, NEW k \in Finished(p),
                        script[k].op = "reveal", ret[p][k].ok
                 PROVE  Unchecked(p, k, script[k].r) = {}
      BY DEF CheckedBetween
    <2>1. Goes(script, ret[p], k) /\ Unchecked(p, k, script[k].r) = Open(script, ret[p], k, script[k].r)
      BY AnswersKnown
    <2>2. QED
      BY <2>1 DEF Goes
  <1>2. QED
    BY <1>1, Inductive, PTL
=============================================================================
