-------------------------- MODULE TileStoreProofs ---------------------------
(* What TLAPS proves of TileStore, for every number of repetitions, of tiles *)
(* and of connections that fail.                                            *)
EXTENDS TileStore, SequenceTheorems, TLAPS

\* ingress_gv has written key k of its current repetition, or has given it up.
Past(p, k) ==
    \/ ingress[p] \in {"setup", "end", "exited"}
    \/ k = "eid" /\ ingress[p] \in {"tile", "sick"}
    \/ k = "tile" /\ ingress[p] = "sick"

\* The last repetition that is over for key k.
Over(p, k) == IF Past(p, k) THEN rep[p] ELSE rep[p] - 1

\* Where the programs are says which of their values are there.
Progress ==
    \A p \in Parties :
        /\ ingress[p] \in {"connect"} \cup Keys => rep[p] \in Values
        /\ mapper[p] \in {"setup", "connect", "get_sick", "retry_sick"} =>
              sick[p] = Missing /\ tiles[p] = <<>> /\ mapped[p] = 0
        /\ mapper[p] \in {"get_tile", "retry_tile", "map"} => sick[p] # Missing /\ mapped[p] < Tiles

\* Garble is a step of both.
SameRep == rep[ALICE] = rep[BOB]

\* What Redis has under a key is of the last repetition whose write reached it.
StoreInv ==
    \A p \in Parties, k \in Keys :
        /\ store[p][k] <= Over(p, k)
        /\ \A r \in (store[p][k] + 1)..Over(p, k) : <<r, k>> \in unstored[p]

\* A label that was read is in Redis, or was.
SickInv == \A p \in Parties : sick[p] <= Over(p, "sick")

TileInv ==
    \A p \in Parties : \A i \in 1..Len(tiles[p]) :
        tiles[p][i] # ErrorText =>
            \A r \in (tiles[p][i] + 1)..sick[p] : <<r, "tile">> \in unstored[p]

\* On a connection that is still authenticated every write so far has been answered.
AuthInv ==
    \A p \in Parties : requires =>
        /\ store[p]["eid"] >= store[p]["tile"] /\ store[p]["tile"] >= store[p]["sick"]
        /\ ingress_conn[p] = "authenticated" =>
              /\ ingress[p] \in {"tile", "sick"} => store[p]["eid"] = rep[p]
              /\ ingress[p] = "sick" => store[p]["tile"] = rep[p]

\* While it is quiet, what the mappers have read is what Redis has.
QuietInv ==
    quiet =>
        \A p \in Parties :
            /\ ingress[p] \in {"setup", "end", "exited"}
            /\ sick[p] \in Values => sick[p] = store[p]["sick"]
            /\ \A i \in 1..Len(tiles[p]) : tiles[p][i] \in Values => tiles[p][i] = store[p]["tile"]

IInv == TypeOK /\ Progress /\ SameRep /\ StoreInv /\ SickInv /\ TileInv /\ AuthInv /\ QuietInv

-----------------------------------------------------------------------------
(* The connections.                                                          *)

\* A command leaves a connection behind, and one that is answered has been
\* executed just if the server accepts what comes on it.
LEMMA CommandOutcome ==
  ASSUME NEW c \in Conns, NEW required \in BOOLEAN, NEW o \in redisCommand(c, required)
  PROVE  /\ o.conn \in Conns /\ o.reply \in {"null", "ok", "error"}
         /\ o.executed => c = "authenticated" \/ ~required
         /\ o.reply # "null" => o.conn = c /\ c \in Live
         /\ o.reply = "null" => o.conn \notin Live
         /\ c = "authenticated" /\ o.reply # "null" => o.executed
  <1> DEFINE accepted == c = "authenticated" \/ ~required
  <1>1. accepted \in BOOLEAN
    OBVIOUS
  <1>2. CASE c \in Live /\ o = [conn |-> c, executed |-> accepted,
                               reply |-> IF accepted THEN "ok" ELSE "error"]
    BY <1>1, <1>2 DEF Conns, Live
  <1>3. CASE c \in Live /\ \E e \in {"io", "broken"}, x \in {FALSE, accepted} :
                o = [conn |-> e, executed |-> x, reply |-> "null"]
    <2>1. PICK e \in {"io", "broken"}, x \in {FALSE, accepted} :
             o = [conn |-> e, executed |-> x, reply |-> "null"]
      BY <1>3
    <2>2. CASE o = [conn |-> e, executed |-> FALSE, reply |-> "null"]
      BY <1>3, <2>2 DEF Conns, Live
    <2>3. CASE o = [conn |-> e, executed |-> accepted, reply |-> "null"]
      BY <1>3, <2>3 DEF Conns, Live
    <2>4. QED
      BY <2>1, <2>2, <2>3
  <1>4. CASE c \notin Live /\ o = [conn |-> c, executed |-> FALSE, reply |-> "null"]
    BY <1>4 DEF Conns, Live
  <1>5. QED
    BY <1>2, <1>3, <1>4 DEF redisCommand

\* So does the attempt to repair it, which never ends in an authenticated one.
LEMMA HandledOutcome ==
  ASSUME NEW c \in Conns, c \notin Live, NEW h \in try_handle_error(c)
  PROVE  h.conn \in Conns /\ h.conn # "authenticated"
  BY DEF try_handle_error, Conns, Live

\* set() can leave an authenticated connection only after it has stored the value.
LEMMA SetOutcome ==
  ASSUME NEW c \in Conns, NEW required \in BOOLEAN, NEW r \in set(c, required)
  PROVE  /\ r.conn \in Conns
         /\ r.executed => c = "authenticated" \/ ~required
         /\ r.conn = "authenticated" => c = "authenticated" /\ r.executed
  <1>1. PICK o \in redisCommand(c, required) :
           \/ /\ o.reply # "null"
              /\ r = [conn |-> o.conn, executed |-> o.executed, null |-> FALSE]
           \/ /\ o.reply = "null"
              /\ \E h \in try_handle_error(o.conn) :
                    r = [conn |-> h.conn, executed |-> o.executed, null |-> TRUE]
    BY DEF set
  <1>2. CASE o.reply # "null"
    BY <1>1, <1>2, CommandOutcome
  <1>3. CASE o.reply = "null"
    <2>1. PICK h \in try_handle_error(o.conn) :
             r = [conn |-> h.conn, executed |-> o.executed, null |-> TRUE]
      BY <1>1, <1>3
    <2>2. h.conn \in Conns /\ h.conn # "authenticated"
      BY <1>3, CommandOutcome, HandledOutcome
    <2>3. QED
      BY <2>1, <2>2, CommandOutcome
  <1>4. QED
    BY <1>2, <1>3

-----------------------------------------------------------------------------
(* What a step of a mapper's get() does: it ends the program, tries again, or *)
(* has read what Redis has under its key, or the text of an error.           *)

\* The mapper of p waits for key k.
Waits(p, k) == mapper[p] \in (IF k = "sick" THEN {"get_sick", "retry_sick"}
                                             ELSE {"get_tile", "retry_tile"})

Stops(p) ==
    /\ UNCHANGED <<sick, tiles>>
    /\ \/ mapper' = [mapper EXCEPT ![p] = "exited"]
       \/ mapper[p] = "get_sick" /\ mapper' = [mapper EXCEPT ![p] = "retry_sick"]
       \/ mapper[p] = "get_tile" /\ mapper' = [mapper EXCEPT ![p] = "retry_tile"]

ReadsSick(p, v) ==
    /\ Waits(p, "sick")
    /\ sick' = [sick EXCEPT ![p] = v] /\ UNCHANGED tiles
    /\ mapper' = [mapper EXCEPT ![p] = "get_tile"]

ReadsTile(p, v) ==
    /\ Waits(p, "tile")
    /\ tiles' = [tiles EXCEPT ![p] = Append(@, v)] /\ UNCHANGED sick
    /\ mapper' = [mapper EXCEPT ![p] = "map"]

LEMMA ReplyUsed ==
  ASSUME NEW p \in Parties, NEW k \in {"sick", "tile"}, NEW value, Waits(p, k), TypeOK,
         UseReply(p, k, value)
  PROVE  /\ mapper_conn' \in [Parties -> Conns]
         /\ \/ Stops(p)
            \/ value # Missing /\ k = "sick" /\ ReadsSick(p, value)
            \/ value # Missing /\ k = "tile" /\ ReadsTile(p, value)
  <1>1. CASE value = Missing
    BY <1>1 DEF UseReply, Exit, Stops, TypeOK, Conns
  <1>2. CASE value # Missing /\ k = "sick"
    BY <1>2 DEF UseReply, ReadsSick, TypeOK
  <1>3. CASE value # Missing /\ k = "tile"
    BY <1>3 DEF UseReply, ReadsTile, TypeOK
  <1>4. QED
    BY <1>1, <1>2, <1>3

\* The count of failures stays within its bound.
LEMMA FaultsCounted ==
  ASSUME TypeOK, NEW c, NEW null, Count(c, null)
  PROVE  faults' \in 0..MaxFaults
  <1>1. faults' = faults \/ faults' = faults + 1
    BY DEF Count, TypeOK
  <1>2. QED
    BY <1>1, TileStoreAssumption DEF Count, TypeOK

\* One more repetition that Redis never got.
LEMMA UnstoredType ==
  ASSUME TypeOK, NEW p \in Parties, NEW K \in SUBSET Keys, rep[p] \in Values,
         unstored' = [unstored EXCEPT ![p] = @ \cup {<<rep[p], k>> : k \in K}]
  PROVE  unstored' \in [Parties -> SUBSET (Values \X Keys)]
  <1>1. {<<rep[p], k>> : k \in K} \in SUBSET (Values \X Keys)
    OBVIOUS
  <1>2. QED
    BY <1>1 DEF TypeOK

LEMMA GetStep ==
  ASSUME NEW p \in Parties, TypeOK, Get(p) \/ Retry(p)
  PROVE  /\ UNCHANGED <<store, requires, ingress_vars, mapped, quiet, unstored>>
         /\ mapper_conn' \in [Parties -> Conns] /\ faults' \in 0..MaxFaults
         /\ mapper[p] \in {"get_sick", "get_tile", "retry_sick", "retry_tile"}
         /\ \/ Stops(p)
            \/ \E v \in {store[p]["sick"], ErrorText} : v # Missing /\ ReadsSick(p, v)
            \/ \E v \in {store[p]["tile"], ErrorText} : v # Missing /\ ReadsTile(p, v)
  <1> DEFINE k == Reading[mapper[p]]
  <1>1. /\ UNCHANGED <<store, requires, ingress_vars, mapped, quiet, unstored>>
        /\ mapper[p] \in {"get_sick", "get_tile", "retry_sick", "retry_tile"}
    BY DEF Get, Retry
  <1>2. k \in {"sick", "tile"} /\ Waits(p, k)
    BY <1>1 DEF Reading, Waits
  <1>3. PICK o \in redisCommand(mapper_conn[p], requires) :
           /\ Count(mapper_conn[p], o.reply = "null")
           /\ IF o.reply # "null"
              THEN UseReply(p, k, IF o.reply = "ok" THEN store[p][k] ELSE ErrorText)
              ELSE \/ Exit(p)
                   \/ \E h \in try_handle_error(o.conn) :
                        /\ mapper[p] \in {"get_sick", "get_tile"}
                        /\ mapper_conn' = [mapper_conn EXCEPT ![p] = h.conn]
                        /\ mapper' = [mapper EXCEPT ![p] = IF k = "sick" THEN "retry_sick"
                                                                      ELSE "retry_tile"]
                        /\ UNCHANGED <<sick, tiles>>
    <2>1. CASE Get(p)
      BY <2>1 DEF Get
    <2>2. CASE Retry(p)
      BY <2>2 DEF Retry
    <2>3. QED
      BY <2>1, <2>2
  <1>4. faults' \in 0..MaxFaults
    BY <1>3, FaultsCounted
  <1>5. mapper_conn[p] \in Conns /\ requires \in BOOLEAN
    BY DEF TypeOK
  <1>6. CASE o.reply # "null"
    <2> DEFINE v == IF o.reply = "ok" THEN store[p][k] ELSE ErrorText
    <2>1. /\ mapper_conn' \in [Parties -> Conns]
          /\ \/ Stops(p)
             \/ v # Missing /\ k = "sick" /\ ReadsSick(p, v)
             \/ v # Missing /\ k = "tile" /\ ReadsTile(p, v)
      BY <1>2, <1>3, <1>6, ReplyUsed
    <2>2. QED
      BY <1>1, <1>4, <2>1
  <1>7. CASE o.reply = "null"
    <2>1. CASE Exit(p)
      BY <1>1, <1>4, <2>1 DEF Exit, Stops, TypeOK, Conns
    <2>2. ASSUME NEW h \in try_handle_error(o.conn), mapper[p] \in {"get_sick", "get_tile"},
                 mapper_conn' = [mapper_conn EXCEPT ![p] = h.conn],
                 mapper' = [mapper EXCEPT ![p] = IF k = "sick" THEN "retry_sick"
                                                               ELSE "retry_tile"],
                 UNCHANGED <<sick, tiles>>
          PROVE  mapper_conn' \in [Parties -> Conns] /\ Stops(p)
      <3>1. h.conn \in Conns
        BY <1>5, <1>7, CommandOutcome, HandledOutcome
      <3>2. mapper_conn' \in [Parties -> Conns]
        BY <2>2, <3>1 DEF TypeOK
      <3>3. \/ mapper[p] = "get_sick" /\ mapper' = [mapper EXCEPT ![p] = "retry_sick"]
            \/ mapper[p] = "get_tile" /\ mapper' = [mapper EXCEPT ![p] = "retry_tile"]
        <4>1. CASE mapper[p] = "get_sick"
          BY <2>2, <4>1 DEF Reading
        <4>2. CASE mapper[p] = "get_tile"
          BY <2>2, <4>2 DEF Reading
        <4>3. QED
          BY <2>2, <4>1, <4>2
      <3>4. QED
        BY <2>2, <3>2, <3>3 DEF Stops
    <2>3. QED
      BY <1>1, <1>3, <1>4, <1>7, <2>1, <2>2
  <1>8. QED
    BY <1>6, <1>7

-----------------------------------------------------------------------------
(* Types, and what the places of the programs say.                           *)

LEMMA InitInv == Init => IInv
  <1> SUFFICES ASSUME Init PROVE IInv
    OBVIOUS
  <1> USE TileStoreAssumption DEF Init, Parties, ALICE, BOB, Missing, ErrorText, Values, Keys
  <1>1. TypeOK
    BY EmptySeq DEF TypeOK, Conns
  <1>2. Progress /\ SameRep
    BY DEF Progress, SameRep
  <1>3. StoreInv /\ SickInv
    BY DEF StoreInv, SickInv, Over, Past
  <1>4. TileInv /\ AuthInv /\ QuietInv
    BY DEF TileInv, AuthInv, QuietInv
  <1>5. QED
    BY <1>1, <1>2, <1>3, <1>4 DEF IInv

\* Every step keeps the types, and a program where its values are there.
LEMMA StepType == TypeOK /\ Progress /\ [Next]_vars => TypeOK' /\ Progress'
  <1> SUFFICES ASSUME TypeOK, Progress, [Next]_vars PROVE TypeOK' /\ Progress'
    OBVIOUS
  <1> USE TileStoreAssumption DEF ingress_vars, mapper_vars, Missing, ErrorText
  <1> DEFINE Places == {"setup", "connect", "get_sick", "retry_sick", "get_tile",
                        "retry_tile", "map", "end", "exited"}
             Counted(q) == /\ mapper[q] \in {"get_tile", "map"} => sick[q] # Missing
                           /\ mapped[q] = Len(tiles[q]) - (IF mapper[q] = "map" THEN 1 ELSE 0)
  <1>1. CASE Garble
    <2>1. \A p \in Parties : rep[p] \in 0..Reps /\ rep[p] < Reps /\ ingress[p] = "setup"
      BY <1>1 DEF Garble, TypeOK
    <2>2. rep' \in [Parties -> 0..Reps] /\ \A p \in Parties : rep'[p] \in Values
      BY <1>1, <2>1 DEF Garble, Values
    <2>3. ingress' \in [Parties -> {"setup", "connect", "end", "exited"} \cup Keys]
      BY <1>1 DEF Garble
    <2>4. Progress'
      BY <1>1, <2>2 DEF Garble, Progress
    <2>5. \A q \in Parties : Counted(q)'
      BY <1>1 DEF Garble, TypeOK
    <2>6. QED
      BY <1>1, <2>2, <2>3, <2>4, <2>5 DEF Garble, TypeOK
  <1>2. CASE MapperSetup
    <2>1. mapper' \in [Parties -> Places] /\ quiet' \in BOOLEAN
      BY <1>2 DEF MapperSetup
    <2>2. \A q \in Parties : Counted(q)'
      BY <1>2 DEF MapperSetup, TypeOK
    <2>3. Progress'
      BY <1>2 DEF MapperSetup, Progress
    <2>4. QED
      BY <1>2, <2>1, <2>2, <2>3 DEF MapperSetup, TypeOK
  <1>3. ASSUME NEW p \in Parties, IngressConnects(p) PROVE TypeOK' /\ Progress'
    <2>1. faults' \in 0..MaxFaults /\ ingress_conn' \in [Parties -> Conns]
      BY <1>3, FaultsCounted DEF IngressConnects, TypeOK, Conns, Live
    <2>2. unstored' \in [Parties -> SUBSET (Values \X Keys)]
      <3>1. rep[p] \in Values
        BY <1>3 DEF IngressConnects, Progress
      <3>2. QED
        BY <1>3, <3>1, UnstoredType DEF IngressConnects, TypeOK
    <2>3. ingress' \in [Parties -> {"setup", "connect", "end", "exited"} \cup Keys]
      BY <1>3 DEF IngressConnects, TypeOK, Keys
    <2>4. QED
      BY <1>3, <2>1, <2>2, <2>3 DEF IngressConnects, TypeOK, Progress, Keys
  <1>4. ASSUME NEW p \in Parties, NEW k \in Keys, Stores(p, k) PROVE TypeOK' /\ Progress'
    <2>1. rep[p] \in Values /\ ingress_conn[p] \in Conns /\ requires \in BOOLEAN
      BY <1>4 DEF Stores, TypeOK, Progress
    <2>2. PICK r \in set(ingress_conn[p], requires) :
             /\ Count(ingress_conn[p], r.null)
             /\ IF r.executed
                THEN store' = [store EXCEPT ![p][k] = rep[p]] /\ UNCHANGED unstored
                ELSE unstored' = [unstored EXCEPT ![p] = @ \cup {<<rep[p], k>>}] /\ UNCHANGED store
             /\ IF NextKey(k) # "done"
                THEN /\ ingress' = [ingress EXCEPT ![p] = NextKey(k)]
                     /\ ingress_conn' = [ingress_conn EXCEPT ![p] = r.conn]
                ELSE /\ ingress' = [ingress EXCEPT ![p] = IF rep[p] < Reps THEN "setup" ELSE "end"]
                     /\ ingress_conn' = [ingress_conn EXCEPT ![p] = "none"]
      BY <1>4 DEF Stores
    <2>3. r.conn \in Conns
      BY <2>1, SetOutcome
    <2>4. faults' \in 0..MaxFaults
      BY <2>2, FaultsCounted
    <2>5. /\ store' \in [Parties -> [Keys -> {Missing} \cup Values]]
          /\ unstored' \in [Parties -> SUBSET (Values \X Keys)]
      <3>1. {k} \in SUBSET Keys /\ {<<rep[p], x>> : x \in {k}} = {<<rep[p], k>>}
        OBVIOUS
      <3>2. CASE r.executed
        <4>1. store' = [store EXCEPT ![p][k] = rep[p]] /\ UNCHANGED unstored
          BY <2>2, <3>2
        <4>2. [store[p] EXCEPT ![k] = rep[p]] \in [Keys -> {Missing} \cup Values]
          BY <2>1 DEF TypeOK
        <4>3. QED
          BY <4>1, <4>2 DEF TypeOK
      <3>3. CASE ~r.executed
        <4>1. unstored' = [unstored EXCEPT ![p] = @ \cup {<<rep[p], x>> : x \in {k}}]
          BY <2>2, <3>1, <3>3
        <4>2. unstored' \in [Parties -> SUBSET (Values \X Keys)]
          BY <2>1, <3>1, <4>1, UnstoredType
        <4>3. QED
          BY <2>2, <3>3, <4>2 DEF TypeOK
      <3>4. QED
        BY <3>2, <3>3
    <2>6. /\ ingress' \in [Parties -> {"setup", "connect", "end", "exited"} \cup Keys]
          /\ ingress_conn' \in [Parties -> Conns]
      BY <2>2, <2>3 DEF TypeOK, NextKey, Keys, Conns
    <2>7. UNCHANGED <<requires, rep, mapper_vars, quiet>>
      BY <1>4 DEF Stores
    <2>8. TypeOK'
      BY <2>4, <2>5, <2>6, <2>7 DEF TypeOK
    <2>9. Progress'
      BY <2>1, <2>2, <2>7 DEF TypeOK, Progress, NextKey, Keys
    <2>10. QED
      BY <2>8, <2>9
  <1>5. ASSUME NEW p \in Parties, MapperConnects(p) PROVE TypeOK' /\ Progress'
    <2>1. faults' \in 0..MaxFaults /\ mapper_conn' \in [Parties -> Conns]
      BY <1>5, FaultsCounted DEF MapperConnects, TypeOK, Conns, Live
    <2>2. QED
      BY <1>5, <2>1 DEF MapperConnects, TypeOK, Progress
  <1>6. ASSUME NEW p \in Parties, Get(p) \/ Retry(p) PROVE TypeOK' /\ Progress'
    <2>1. /\ UNCHANGED <<store, requires, ingress_vars, mapped, quiet, unstored>>
          /\ mapper_conn' \in [Parties -> Conns] /\ faults' \in 0..MaxFaults
      BY <1>6, GetStep
    <2>2. CASE Stops(p)
      <3>1. mapper' \in [Parties -> Places]
        BY <2>2 DEF Stops, TypeOK
      <3>2. \A q \in Parties : Counted(q)'
        BY <1>6, <2>1, <2>2 DEF Stops, TypeOK, Get, Retry
      <3>3. Progress'
        BY <2>1, <2>2 DEF Stops, TypeOK, Progress
      <3>4. QED
        BY <2>1, <2>2, <3>1, <3>2, <3>3 DEF Stops, TypeOK
    <2>3. ASSUME NEW v \in {store[p]["sick"], ErrorText}, v # Missing, ReadsSick(p, v)
          PROVE  TypeOK' /\ Progress'
      <3>1. v \in {Missing, ErrorText} \cup Values
        BY DEF TypeOK, Keys
      <3>2. mapper' \in [Parties -> Places] /\ sick' \in [Parties -> {Missing, ErrorText} \cup Values]
        BY <2>3, <3>1 DEF ReadsSick, TypeOK
      <3>3. \A q \in Parties : Counted(q)'
        BY <2>1, <2>3 DEF ReadsSick, Waits, TypeOK
      <3>4. mapped[p] < Tiles
        BY <2>3 DEF ReadsSick, Waits, Progress
      <3>5. Progress'
        BY <2>1, <2>3, <3>4 DEF ReadsSick, TypeOK, Progress
      <3>6. QED
        BY <2>1, <2>3, <3>2, <3>3, <3>5 DEF ReadsSick, TypeOK
    <2>4. ASSUME NEW v \in {store[p]["tile"], ErrorText}, v # Missing, ReadsTile(p, v)
          PROVE  TypeOK' /\ Progress'
      <3>1. v \in {ErrorText} \cup Values
        BY <2>4 DEF TypeOK, Keys
      <3>2. /\ tiles'[p] \in Seq({ErrorText} \cup Values) /\ Len(tiles'[p]) = Len(tiles[p]) + 1
            /\ \A q \in Parties \ {p} : tiles'[q] = tiles[q]
        BY <2>4, <3>1, AppendProperties DEF ReadsTile, TypeOK
      <3>3. mapper' \in [Parties -> Places] /\ tiles' \in [Parties -> Seq({ErrorText} \cup Values)]
        BY <2>4, <3>2 DEF ReadsTile, TypeOK
      <3>4. sick[p] # Missing /\ mapped[p] < Tiles /\ mapped[p] = Len(tiles[p])
        BY <2>4 DEF ReadsTile, Waits, TypeOK, Progress
      <3>5. \A q \in Parties : Counted(q)'
        <4>1. Counted(p)'
          BY <2>1, <2>4, <3>2, <3>4 DEF ReadsTile, TypeOK
        <4>2. ASSUME NEW q \in Parties \ {p} PROVE Counted(q)'
          BY <2>1, <2>4, <3>2 DEF ReadsTile, TypeOK
        <4>3. QED
          BY <4>1, <4>2
      <3>6. Progress'
        BY <2>1, <2>4, <3>2, <3>4 DEF ReadsTile, TypeOK, Progress
      <3>7. QED
        BY <2>1, <2>4, <3>3, <3>5, <3>6 DEF ReadsTile, TypeOK
    <2>5. QED
      BY <1>6, <2>2, <2>3, <2>4, GetStep
  <1>7. ASSUME NEW p \in Parties, Map(p) PROVE TypeOK' /\ Progress'
    <2>1. mapped[p] < Tiles /\ mapped[p] \in 0..Tiles /\ mapped[p] = Len(tiles[p]) - 1
      BY <1>7 DEF Map, TypeOK, Progress
    <2>2. mapped' \in [Parties -> 0..Tiles] /\ mapped'[p] = Len(tiles[p])
      BY <1>7, <2>1 DEF Map, TypeOK
    <2>3. mapper_conn' \in [Parties -> Conns]
      BY <1>7 DEF Map, TypeOK, Conns
    <2>4. \/ mapper' = [mapper EXCEPT ![p] = "get_tile"] /\ mapped'[p] < Tiles
          \/ mapper' = [mapper EXCEPT ![p] = "end"]
      BY <1>7 DEF Map
    <2>5. mapper' \in [Parties -> Places]
      BY <2>4 DEF TypeOK
    <2>6. /\ UNCHANGED <<store, requires, ingress_vars, sick, tiles, faults, quiet, unstored>>
          /\ mapper[p] = "map" /\ mapped' = [mapped EXCEPT ![p] = @ + 1]
      BY <1>7 DEF Map
    <2>7. \A q \in Parties : Counted(q)'
      <3>1. Counted(p)'
        BY <2>2, <2>4, <2>6 DEF TypeOK
      <3>2. ASSUME NEW q \in Parties \ {p} PROVE Counted(q)'
        BY <2>4, <2>6 DEF TypeOK
      <3>3. QED
        BY <3>1, <3>2
    <2>8. Progress'
      BY <2>4, <2>6 DEF TypeOK, Progress
    <2>9. QED
      BY <2>2, <2>3, <2>5, <2>6, <2>7, <2>8 DEF TypeOK
  <1>8. CASE UNCHANGED vars
    BY <1>8 DEF vars, TypeOK, Progress
  <1>9. QED
    BY <1>1, <1>2, <1>3, <1>4, <1>5, <1>6, <1>7, <1>8 DEF Next, IngressStep, MapperStep

-----------------------------------------------------------------------------
(* What Redis has, and never got.                                            *)

\* The place of ingress_gv of p after it has tried to store key k.
After(p, k) == IF k # "sick" THEN NextKey(k) ELSE IF rep[p] < Reps THEN "setup" ELSE "end"

\* One write: it reaches Redis, or is never repeated.  Only a connection on which it
\* was answered stays authenticated.
StoredOrLost(p, k) ==
    /\ ingress[p] = k /\ UNCHANGED <<requires, rep, mapper_vars, quiet>>
    /\ ingress' = [ingress EXCEPT ![p] = After(p, k)]
    /\ \A q \in Parties \ {p} : ingress_conn'[q] = ingress_conn[q]
    /\ \/ /\ store' = [store EXCEPT ![p][k] = rep[p]] /\ UNCHANGED unstored
          /\ requires => ingress_conn[p] = "authenticated"
       \/ /\ unstored' = [unstored EXCEPT ![p] = @ \cup {<<rep[p], k>>}] /\ UNCHANGED store
          /\ ingress_conn'[p] # "authenticated"
    /\ ingress_conn'[p] = "authenticated" => ingress_conn[p] = "authenticated"

LEMMA StoresStep ==
  ASSUME TypeOK, NEW p \in Parties, NEW k \in Keys, Stores(p, k)
  PROVE  StoredOrLost(p, k)
  <1>1. ingress_conn[p] \in Conns /\ requires \in BOOLEAN
    BY DEF TypeOK
  <1>2. /\ ingress[p] = k /\ UNCHANGED <<requires, rep, mapper_vars, quiet>>
        /\ \E r \in set(ingress_conn[p], requires) :
             /\ IF r.executed
                THEN store' = [store EXCEPT ![p][k] = rep[p]] /\ UNCHANGED unstored
                ELSE unstored' = [unstored EXCEPT ![p] = @ \cup {<<rep[p], k>>}] /\ UNCHANGED store
             /\ IF NextKey(k) # "done"
                THEN /\ ingress' = [ingress EXCEPT ![p] = NextKey(k)]
                     /\ ingress_conn' = [ingress_conn EXCEPT ![p] = r.conn]
                ELSE /\ ingress' = [ingress EXCEPT ![p] = IF rep[p] < Reps THEN "setup" ELSE "end"]
                     /\ ingress_conn' = [ingress_conn EXCEPT ![p] = "none"]
    BY DEF Stores
  <1>3. PICK r \in set(ingress_conn[p], requires) :
             /\ IF r.executed
                THEN store' = [store EXCEPT ![p][k] = rep[p]] /\ UNCHANGED unstored
                ELSE unstored' = [unstored EXCEPT ![p] = @ \cup {<<rep[p], k>>}] /\ UNCHANGED store
             /\ IF NextKey(k) # "done"
                THEN /\ ingress' = [ingress EXCEPT ![p] = NextKey(k)]
                     /\ ingress_conn' = [ingress_conn EXCEPT ![p] = r.conn]
                ELSE /\ ingress' = [ingress EXCEPT ![p] = IF rep[p] < Reps THEN "setup" ELSE "end"]
                     /\ ingress_conn' = [ingress_conn EXCEPT ![p] = "none"]
    BY <1>2
  <1>4. /\ r.executed => ingress_conn[p] = "authenticated" \/ ~requires
        /\ r.conn = "authenticated" => ingress_conn[p] = "authenticated" /\ r.executed
    BY <1>1, SetOutcome
  <1>5. ingress' = [ingress EXCEPT ![p] = After(p, k)]
    BY <1>3 DEF After, NextKey, Keys
  <1>6. /\ \A q \in Parties \ {p} : ingress_conn'[q] = ingress_conn[q]
        /\ ingress_conn'[p] \in {r.conn, "none"}
    BY <1>3 DEF TypeOK
  <1>7. QED
    BY <1>2, <1>3, <1>4, <1>5, <1>6 DEF StoredOrLost

\* The steps that leave Redis and ingress_gv alone.
StoreFrame == UNCHANGED <<store, requires, ingress_vars, unstored>>

LEMMA MapperFrame ==
  ASSUME TypeOK, NEW p \in Parties, MapperStep(p)
  PROVE  StoreFrame /\ quiet' = quiet
  BY GetStep DEF MapperStep, MapperConnects, Map, StoreFrame

\* What is over stays over, and what Redis never got it does not get later.
LEMMA OverGrows ==
  ASSUME TypeOK, Progress, [Next]_vars, NEW p \in Parties
  PROVE  /\ \A k \in Keys : Over(p, k) \in Int /\ Over(p, k) <= Over(p, k)'
         /\ unstored[p] \subseteq unstored'[p]
  <1> USE DEF Over, Past, Keys, TypeOK, ingress_vars
  <1>0. rep[p] \in Int
    BY TileStoreAssumption
  <1>1. CASE Garble
    BY <1>0, <1>1 DEF Garble
  <1>2. CASE MapperSetup
    BY <1>0, <1>2 DEF MapperSetup
  <1>3. ASSUME NEW q \in Parties, IngressConnects(q)
        PROVE  /\ \A k \in Keys : Over(p, k) \in Int /\ Over(p, k) <= Over(p, k)'
               /\ unstored[p] \subseteq unstored'[p]
    <2>1. rep' = rep /\ unstored[p] \subseteq unstored'[p]
      <3> HIDE DEF Keys, TypeOK
      <3>1. rep' = rep /\ (unstored' = unstored
                           \/ unstored' = [unstored EXCEPT ![q] = @ \cup {<<rep[q], k>> : k \in Keys}])
        BY <1>3 DEF IngressConnects
      <3>2. unstored \in [Parties -> SUBSET (Values \X Keys)]
        BY DEF TypeOK
      <3>3. QED
        BY <3>1, <3>2
    <2>2. ingress[q] = "connect" /\ (ingress' = [ingress EXCEPT ![q] = "eid"]
                                    \/ ingress' = [ingress EXCEPT ![q] = "exited"])
      BY <1>3 DEF IngressConnects
    <2>3. \A k \in Keys : Past(p, k) => Past(p, k)'
      BY <2>2
    <2>4. QED
      BY <1>0, <2>1, <2>3
  <1>4. ASSUME NEW q \in Parties, NEW x \in Keys, Stores(q, x)
        PROVE  /\ \A k \in Keys : Over(p, k) \in Int /\ Over(p, k) <= Over(p, k)'
               /\ unstored[p] \subseteq unstored'[p]
    <2>1. StoredOrLost(q, x)
      BY <1>4, StoresStep
    <2>2. unstored[p] \subseteq unstored'[p]
      BY <2>1 DEF StoredOrLost
    <2>3. rep'[p] = rep[p] /\ (Past(p, "eid") => Past(p, "eid")')
          /\ (Past(p, "tile") => Past(p, "tile")') /\ (Past(p, "sick") => Past(p, "sick")')
      BY <2>1 DEF StoredOrLost, After, NextKey
    <2>4. QED
      BY <1>0, <2>2, <2>3
  <1>5. ASSUME NEW q \in Parties, MapperStep(q)
        PROVE  /\ \A k \in Keys : Over(p, k) \in Int /\ Over(p, k) <= Over(p, k)'
               /\ unstored[p] \subseteq unstored'[p]
    BY <1>0, <1>5, MapperFrame DEF StoreFrame
  <1>6. CASE UNCHANGED vars
    BY <1>0, <1>6 DEF vars
  <1>7. QED
    BY <1>1, <1>2, <1>3, <1>4, <1>5, <1>6 DEF Next, IngressStep

\* Every step keeps what is known of Redis.
LEMMA StepStore == TypeOK /\ Progress /\ SameRep /\ StoreInv /\ [Next]_vars => SameRep' /\ StoreInv'
  <1> SUFFICES ASSUME TypeOK, Progress, SameRep, StoreInv, [Next]_vars PROVE SameRep' /\ StoreInv'
    OBVIOUS
  <1>0. \A p \in Parties : rep[p] \in Int /\ \A k \in Keys : store[p][k] \in Int
    BY TileStoreAssumption DEF TypeOK, Values, Missing
  <1>1. CASE Garble
    <2>1. \A p \in Parties : rep'[p] = rep[p] + 1
      BY <1>1 DEF Garble
    <2>2. \A p \in Parties, k \in Keys : Over(p, k) = rep[p] /\ Over(p, k)' = rep'[p] - 1
      BY <1>1 DEF Garble, Over, Past, Keys
    <2>3. \A p \in Parties, k \in Keys : Over(p, k)' = Over(p, k)
      BY <1>0, <2>1, <2>2
    <2>4. UNCHANGED <<store, unstored>> /\ SameRep'
      BY <1>1, <2>1 DEF Garble, SameRep, Parties
    <2>5. QED
      BY <2>3, <2>4 DEF StoreInv
  <1>2. ASSUME NEW p \in Parties, IngressConnects(p) PROVE SameRep' /\ StoreInv'
    <2>1. SameRep' /\ store' = store /\ rep' = rep
      BY <1>2 DEF IngressConnects, SameRep
    <2>2. ASSUME NEW q \in Parties, NEW k \in Keys
          PROVE  /\ store'[q][k] <= Over(q, k)'
                 /\ \A r \in (store'[q][k] + 1)..Over(q, k)' : <<r, k>> \in unstored'[q]
      <3>1. store[q][k] <= Over(q, k)'
        <4>1. Over(q, k) \in Int /\ Over(q, k) <= Over(q, k)'
          BY OverGrows
        <4>2. Over(q, k)' \in Int
          BY <1>0, <2>1 DEF Over
        <4>3. QED
          BY <1>0, <4>1, <4>2 DEF StoreInv
      <3>2. CASE q # p \/ ingress'[q] = "eid"
        <4>1. Over(q, k)' = Over(q, k)
          BY <1>2, <3>2 DEF IngressConnects, TypeOK, Over, Past
        <4>2. QED
          BY <2>1, <3>1, <4>1, OverGrows DEF StoreInv
      <3>3. CASE q = p /\ unstored' = [unstored EXCEPT ![p] = @ \cup {<<rep[p], x>> : x \in Keys}]
        <4>1. Over(q, k) = rep[q] - 1 /\ Over(q, k)' \in {rep[q], rep[q] - 1}
          BY <1>2, <3>3 DEF IngressConnects, TypeOK, Over, Past
        <4>2. <<rep[q], k>> \in unstored'[q] /\ unstored[q] \subseteq unstored'[q]
          BY <3>3 DEF TypeOK
        <4>3. QED
          BY <1>0, <2>1, <3>1, <4>1, <4>2 DEF StoreInv
      <3>4. QED
        BY <1>2, <3>2, <3>3 DEF IngressConnects, TypeOK
    <2>3. QED
      BY <2>1, <2>2 DEF StoreInv
  <1>3. ASSUME NEW p \in Parties, NEW x \in Keys, Stores(p, x) PROVE SameRep' /\ StoreInv'
    <2>1. StoredOrLost(p, x)
      BY <1>3, StoresStep
    <2>2. SameRep' /\ rep' = rep
      BY <2>1 DEF StoredOrLost, SameRep
    <2>3. ASSUME NEW q \in Parties, NEW k \in Keys
          PROVE  /\ store'[q][k] <= Over(q, k)'
                 /\ \A r \in (store'[q][k] + 1)..Over(q, k)' : <<r, k>> \in unstored'[q]
      <3>1. CASE q # p \/ k # x
        <4>1. Over(q, k)' = Over(q, k)
          BY <2>1, <3>1 DEF StoredOrLost, After, NextKey, TypeOK, Over, Past, Keys
        <4>2. store'[q][k] = store[q][k] /\ unstored[q] \subseteq unstored'[q]
          BY <2>1, <3>1 DEF StoredOrLost, TypeOK
        <4>3. QED
          BY <4>1, <4>2 DEF StoreInv
      <3>2. CASE q = p /\ k = x
        <4>1. Over(q, k) = rep[q] - 1 /\ Over(q, k)' = rep[q]
          BY <2>1, <3>2 DEF StoredOrLost, After, NextKey, TypeOK, Over, Past, Keys
        <4>2. \/ store'[q][k] = rep[q]
              \/ /\ store'[q][k] = store[q][k] /\ unstored[q] \subseteq unstored'[q]
                 /\ <<rep[q], k>> \in unstored'[q]
          BY <2>1, <3>2 DEF StoredOrLost, TypeOK
        <4>3. QED
          BY <1>0, <4>1, <4>2 DEF StoreInv
      <3>3. QED
        BY <3>1, <3>2
    <2>4. QED
      BY <2>2, <2>3 DEF StoreInv
  <1>4. CASE StoreFrame
    BY <1>4 DEF StoreFrame, ingress_vars, SameRep, StoreInv, Over, Past
  <1>5. QED
    BY <1>1, <1>2, <1>3, <1>4, MapperFrame
       DEF Next, IngressStep, MapperSetup, StoreFrame, vars

-----------------------------------------------------------------------------
(* What the mappers have read.                                               *)

\* No mapper has a sick id of a repetition that is not over.
LEMMA StepSick == TypeOK /\ Progress /\ StoreInv /\ SickInv /\ [Next]_vars => SickInv'
  <1> SUFFICES ASSUME TypeOK, Progress, StoreInv, SickInv, [Next]_vars, NEW p \in Parties
               PROVE  sick'[p] <= Over(p, "sick")'
    BY DEF SickInv
  <1>1. /\ Over(p, "sick") \in Int /\ Over(p, "sick") <= Over(p, "sick")'
        /\ sick[p] \in Int /\ store[p]["sick"] \in Int /\ Over(p, "sick") >= -1
    <2>1. Over(p, "sick") \in Int /\ Over(p, "sick") <= Over(p, "sick")'
      BY OverGrows DEF Keys
    <2>2. sick[p] \in Int /\ store[p]["sick"] \in Int /\ rep[p] \in Nat
      BY TileStoreAssumption DEF TypeOK, Keys, Values, Missing, ErrorText
    <2>3. QED
      BY <2>1, <2>2 DEF Over
  <1>2. Over(p, "sick")' \in Int
    <2>1. rep'[p] \in Int
      <3>1. TypeOK'
        BY StepType
      <3>2. QED
        BY <3>1, TileStoreAssumption DEF TypeOK
    <2>2. QED
      BY <2>1 DEF Over
  <1>3. sick[p] <= Over(p, "sick") /\ store[p]["sick"] <= Over(p, "sick")
    BY DEF SickInv, StoreInv, Keys
  <1>4. sick'[p] \in {sick[p], store[p]["sick"], ErrorText}
    <2>1. ASSUME NEW q \in Parties, Get(q) \/ Retry(q)
          PROVE  sick'[p] \in {sick[p], store[p]["sick"], ErrorText}
      <3>1. \/ sick' = sick
            \/ \E v \in {store[q]["sick"], ErrorText} : sick' = [sick EXCEPT ![q] = v]
        BY <2>1, GetStep DEF Stops, ReadsSick, ReadsTile
      <3>2. QED
        BY <3>1 DEF TypeOK
    <2>2. ASSUME NEW q \in Parties, NEW k \in Keys, Stores(q, k) PROVE sick' = sick
      BY <2>2 DEF Stores, mapper_vars
    <2>3. QED
      BY <2>1, <2>2 DEF Next, IngressStep, MapperStep, Garble, MapperSetup, IngressConnects,
                        MapperConnects, Map, vars, mapper_vars
  <1>5. QED
    BY <1>1, <1>2, <1>3, <1>4 DEF ErrorText

\* The tile is written before the sick id and read after it.
LEMMA StepTile == IInv /\ [Next]_vars => TileInv'
  <1> SUFFICES ASSUME IInv, [Next]_vars, NEW p \in Parties PROVE
                 \A i \in 1..Len(tiles'[p]) :
                    tiles'[p][i] # ErrorText =>
                       \A r \in (tiles'[p][i] + 1)..sick'[p] : <<r, "tile">> \in unstored'[p]
    BY DEF TileInv
  <1>0. TypeOK /\ Progress /\ StoreInv /\ SickInv /\ TileInv
    BY DEF IInv
  <1>1. unstored[p] \subseteq unstored'[p]
    BY <1>0, OverGrows
  <1>2. CASE UNCHANGED <<sick, tiles>>
    BY <1>0, <1>1, <1>2 DEF TileInv
  <1>3. ASSUME NEW q \in Parties, Get(q) \/ Retry(q)
        PROVE  \A i \in 1..Len(tiles'[p]) :
                  tiles'[p][i] # ErrorText =>
                     \A r \in (tiles'[p][i] + 1)..sick'[p] : <<r, "tile">> \in unstored'[p]
    <2>1. CASE Stops(q)
      BY <1>2, <2>1 DEF Stops
    <2>2. ASSUME NEW v, ReadsSick(q, v)
          PROVE  \A i \in 1..Len(tiles'[p]) :
                    tiles'[p][i] # ErrorText =>
                       \A r \in (tiles'[p][i] + 1)..sick'[p] : <<r, "tile">> \in unstored'[p]
      <3>1. CASE p = q
        <4>1. tiles'[p] = <<>>
          BY <1>0, <2>2, <3>1 DEF ReadsSick, Waits, Progress
        <4>2. QED
          BY <4>1
      <3>2. CASE p # q
        <4>1. tiles'[p] = tiles[p] /\ sick'[p] = sick[p]
          BY <1>0, <2>2, <3>2 DEF ReadsSick, TypeOK
        <4>2. QED
          BY <1>0, <1>1, <4>1 DEF TileInv
      <3>3. QED
        BY <3>1, <3>2
    <2>3. ASSUME NEW v \in {store[q]["tile"], ErrorText}, ReadsTile(q, v)
          PROVE  \A i \in 1..Len(tiles'[p]) :
                    tiles'[p][i] # ErrorText =>
                       \A r \in (tiles'[p][i] + 1)..sick'[p] : <<r, "tile">> \in unstored'[p]
      <3>1. CASE p # q
        <4>1. tiles'[p] = tiles[p] /\ sick' = sick
          BY <1>0, <2>3, <3>1 DEF ReadsTile, TypeOK
        <4>2. QED
          BY <1>0, <1>1, <4>1 DEF TileInv
      <3>2. CASE p = q
        <4>1. tiles'[p] = Append(tiles[p], v) /\ sick' = sick /\ tiles[p] \in Seq({ErrorText} \cup Values)
          BY <1>0, <2>3, <3>2 DEF ReadsTile, TypeOK
        <4>2. /\ Len(tiles'[p]) = Len(tiles[p]) + 1 /\ tiles'[p][Len(tiles[p]) + 1] = v
              /\ \A i \in 1..Len(tiles[p]) : tiles'[p][i] = tiles[p][i]
              /\ Len(tiles[p]) \in Nat
          BY <4>1
        <4>3. v # ErrorText => \A r \in (v + 1)..sick[p] : <<r, "tile">> \in unstored[p]
          <5>1. sick[p] <= Over(p, "tile") /\ sick[p] \in Int /\ Over(p, "tile") \in Int
            <6>1. sick[p] <= Over(p, "sick") /\ rep[p] \in Int
              BY <1>0, TileStoreAssumption DEF SickInv, TypeOK
            <6>2. Over(p, "sick") = Over(p, "tile") \/ Over(p, "sick") = rep[p] - 1
              BY DEF Over, Past
            <6>3. QED
              BY <1>0, <6>1, <6>2, TileStoreAssumption DEF Over, TypeOK, Values, Missing, ErrorText
          <5>2. \A r \in (store[p]["tile"] + 1)..Over(p, "tile") : <<r, "tile">> \in unstored[p]
            BY <1>0 DEF StoreInv, Keys
          <5>3. store[p]["tile"] \in Int
            BY <1>0, TileStoreAssumption DEF TypeOK, Keys, Values, Missing
          <5>4. \A r \in (store[p]["tile"] + 1)..sick[p] : <<r, "tile">> \in unstored[p]
            <6> SUFFICES ASSUME NEW r \in (store[p]["tile"] + 1)..sick[p]
                         PROVE  r \in (store[p]["tile"] + 1)..Over(p, "tile")
              BY <5>2
            <6>1. QED
              BY <5>1, <5>3
          <5>5. QED
            BY <2>3, <3>2, <5>4
        <4>4. ASSUME NEW i \in 1..Len(tiles'[p]), tiles'[p][i] # ErrorText,
                     NEW r \in (tiles'[p][i] + 1)..sick'[p]
              PROVE  <<r, "tile">> \in unstored'[p]
          <5>1. CASE i \in 1..Len(tiles[p])
            BY <1>0, <1>1, <4>1, <4>2, <4>4, <5>1 DEF TileInv
          <5>2. CASE i = Len(tiles[p]) + 1
            BY <1>1, <4>1, <4>2, <4>3, <4>4, <5>2
          <5>3. QED
            BY <4>2, <5>1, <5>2
        <4>5. QED
          BY <4>4
      <3>3. QED
        BY <3>1, <3>2
    <2>4. QED
      BY <1>0, <1>3, <2>1, <2>2, <2>3, GetStep
  <1>4. ASSUME NEW q \in Parties, NEW k \in Keys, Stores(q, k) PROVE UNCHANGED <<sick, tiles>>
    BY <1>4 DEF Stores, mapper_vars
  <1>5. QED
    BY <1>2, <1>3, <1>4 DEF Next, IngressStep, MapperStep, Garble, MapperSetup, IngressConnects,
                            MapperConnects, Map, vars, mapper_vars

\* After a connection is lost, a Redis that wants AUTH stores no more of the repetition.
LEMMA StepAuth == IInv /\ [Next]_vars => AuthInv'
  <1> SUFFICES ASSUME IInv, [Next]_vars PROVE AuthInv'
    OBVIOUS
  <1>0. /\ TypeOK /\ StoreInv /\ AuthInv
        /\ \A p \in Parties : rep[p] \in Int /\ \A k \in Keys : store[p][k] \in Int
    BY TileStoreAssumption DEF IInv, TypeOK, Values, Missing
  <1>1. CASE Garble
    BY <1>0, <1>1 DEF Garble, AuthInv
  <1>2. ASSUME NEW p \in Parties, IngressConnects(p) PROVE AuthInv'
    BY <1>0, <1>2 DEF IngressConnects, AuthInv, TypeOK
  <1>3. ASSUME NEW p \in Parties, NEW x \in Keys, Stores(p, x) PROVE AuthInv'
    <2>1. StoredOrLost(p, x)
      BY <1>0, <1>3, StoresStep
    <2>2. ASSUME NEW q \in Parties, q # p
          PROVE  /\ store'[q] = store[q] /\ ingress_conn'[q] = ingress_conn[q]
                 /\ ingress'[q] = ingress[q] /\ rep'[q] = rep[q] /\ requires' = requires
      BY <1>0, <2>1, <2>2 DEF StoredOrLost, TypeOK
    <2>3. ASSUME requires
          PROVE  /\ store'[p]["eid"] >= store'[p]["tile"] /\ store'[p]["tile"] >= store'[p]["sick"]
                 /\ ingress_conn'[p] = "authenticated" =>
                       /\ ingress'[p] \in {"tile", "sick"} => store'[p]["eid"] = rep'[p]
                       /\ ingress'[p] = "sick" => store'[p]["tile"] = rep'[p]
      <3>1. /\ ingress[p] = x /\ rep' = rep /\ ingress'[p] = After(p, x)
            /\ ingress_conn'[p] = "authenticated" => ingress_conn[p] = "authenticated"
        BY <1>0, <2>1 DEF StoredOrLost, TypeOK
      <3>2. /\ store[p]["eid"] <= rep[p] /\ store[p]["tile"] <= rep[p] /\ store[p]["sick"] <= rep[p]
            /\ store[p]["eid"] \in Int /\ store[p]["tile"] \in Int /\ store[p]["sick"] \in Int
        BY <1>0 DEF StoreInv, Over, Keys
      <3>3. CASE store' = store /\ ingress_conn'[p] # "authenticated"
        BY <1>0, <2>3, <3>3 DEF AuthInv
      <3>4. CASE store' = [store EXCEPT ![p][x] = rep[p]] /\ ingress_conn[p] = "authenticated"
        <4>1. store'[p][x] = rep[p] /\ \A k \in Keys : k # x => store'[p][k] = store[p][k]
          BY <1>0, <3>4 DEF TypeOK
        <4>2. CASE x = "eid"
          BY <1>0, <2>3, <3>1, <3>2, <4>1, <4>2 DEF AuthInv, After, NextKey, Keys
        <4>3. CASE x = "tile"
          BY <1>0, <2>3, <3>1, <3>2, <3>4, <4>1, <4>3 DEF AuthInv, After, NextKey, Keys
        <4>4. CASE x = "sick"
          BY <1>0, <2>3, <3>1, <3>2, <3>4, <4>1, <4>4 DEF AuthInv, After, Keys
        <4>5. QED
          BY <4>2, <4>3, <4>4 DEF Keys
      <3>5. QED
        BY <2>1, <2>3, <3>3, <3>4 DEF StoredOrLost
    <2>4. requires' = requires
      BY <2>1 DEF StoredOrLost
    <2>5. QED
      BY <1>0, <2>2, <2>3, <2>4 DEF AuthInv
  <1>4. CASE StoreFrame
    BY <1>0, <1>4 DEF StoreFrame, ingress_vars, AuthInv
  <1>5. QED
    BY <1>0, <1>1, <1>2, <1>3, <1>4, MapperFrame DEF Next, IngressStep, MapperSetup, StoreFrame, vars

\* While ingress_gv rests, nothing changes under what the mappers have read.
LEMMA StepQuiet == IInv /\ [Next]_vars => QuietInv'
  <1> SUFFICES ASSUME IInv, [Next]_vars, quiet' PROVE QuietInv'
    BY DEF QuietInv
  <1>0. TypeOK /\ Progress /\ QuietInv
    BY DEF IInv
  <1> DEFINE Rests(p) == ingress[p] \in {"setup", "end", "exited"}
             Has(p) == /\ sick[p] \in Values => sick[p] = store[p]["sick"]
                       /\ \A i \in 1..Len(tiles[p]) :
                             tiles[p][i] \in Values => tiles[p][i] = store[p]["tile"]
  <1>1. ~Garble
    BY DEF Garble
  <1>2. ASSUME NEW p \in Parties, IngressStep(p) PROVE FALSE
    <2>1. quiet /\ ingress[p] \in {"connect"} \cup Keys
      BY <1>2, StoresStep DEF IngressStep, IngressConnects, Stores
    <2>2. QED
      BY <1>0, <2>1 DEF QuietInv, Keys
  <1>3. CASE MapperSetup
    <2>1. \A p \in Parties : sick[p] = 0 /\ tiles[p] = <<>> /\ ingress'[p] \in {"setup", "end", "exited"}
      BY <1>0, <1>3 DEF MapperSetup, Progress, Missing, ingress_vars
    <2>2. UNCHANGED <<sick, tiles>> /\ 0 \notin Values
      BY <1>3 DEF MapperSetup, Values
    <2>3. QED
      BY <2>1, <2>2 DEF QuietInv
  <1>4. ASSUME NEW q \in Parties, Get(q) \/ Retry(q) PROVE QuietInv'
    <2>0. UNCHANGED <<store, ingress_vars, quiet>>
      BY <1>0, <1>4, GetStep
    <2>1. UNCHANGED <<store, ingress, quiet>> /\ ErrorText \notin Values
      <3>1. ErrorText \notin Values
        BY TileStoreAssumption DEF ErrorText, Values
      <3>2. QED
        BY <2>0, <3>1 DEF ingress_vars
    <2>2. \A p \in Parties : Rests(p) /\ Has(p)
      BY <1>0, <2>1 DEF QuietInv
    <2>3. CASE Stops(q)
      BY <2>1, <2>2, <2>3 DEF Stops, QuietInv
    <2>4. ASSUME NEW v \in {store[q]["sick"], ErrorText}, ReadsSick(q, v) PROVE QuietInv'
      <3>1. \A p \in Parties : Has(p)'
        BY <1>0, <2>1, <2>2, <2>4 DEF ReadsSick, TypeOK
      <3>2. QED
        BY <2>1, <2>2, <3>1 DEF QuietInv
    <2>5. ASSUME NEW v \in {store[q]["tile"], ErrorText}, ReadsTile(q, v) PROVE QuietInv'
      <3>1. /\ tiles' = [tiles EXCEPT ![q] = Append(@, v)] /\ sick' = sick
            /\ tiles \in [Parties -> Seq({ErrorText} \cup Values)]
        BY <1>0, <2>5 DEF ReadsTile, TypeOK
      <3>2. Has(q)'
        <4>1. /\ Len(tiles'[q]) = Len(tiles[q]) + 1 /\ tiles'[q][Len(tiles[q]) + 1] = v
              /\ \A i \in 1..Len(tiles[q]) : tiles'[q][i] = tiles[q][i]
              /\ Len(tiles[q]) \in Nat
          BY <3>1
        <4>2. QED
          BY <2>1, <2>2, <3>1, <4>1
      <3>3. ASSUME NEW p \in Parties, p # q PROVE Has(p)'
        BY <2>1, <2>2, <3>1, <3>3
      <3>4. QED
        BY <2>1, <2>2, <3>2, <3>3 DEF QuietInv
    <2>6. QED
      BY <1>0, <1>4, <2>3, <2>4, <2>5, GetStep
  <1>5. CASE UNCHANGED <<store, ingress, sick, tiles, quiet>>
    BY <1>0, <1>5 DEF QuietInv
  <1>6. QED
    BY <1>1, <1>2, <1>3, <1>4, <1>5
       DEF Next, MapperStep, MapperConnects, Map, vars, ingress_vars, mapper_vars

-----------------------------------------------------------------------------
(* The theorems.                                                             *)

LEMMA StepInv == IInv /\ [Next]_vars => IInv'
  BY StepType, StepStore, StepSick, StepTile, StepAuth, StepQuiet DEF IInv

\* The invariant holds of every state of every run.
LEMMA Inductive == Spec => []IInv
  <1>1. QED
    BY InitInv, StepInv, PTL DEF Spec

\* Types; no mapper goes on with a key that Redis does not have.
THEOREM TypesAlways == Spec => []TypeOK
  <1>1. IInv => TypeOK
    BY DEF IInv
  <1>2. QED
    BY Inductive, <1>1, PTL

\* A mapper that runs while ingress_gv overwrites the keys never gets a tile
\* that is older than its sick id, unless Redis never got the newer tile.
THEOREM TilesNotOlderAlways == Spec => []TilesNotOlder
  <1>1. IInv => TilesNotOlder
    BY DEF IInv, TileInv, TilesNotOlder
  <1>2. QED
    BY Inductive, <1>1, PTL

\* In a Redis that wants AUTH a lost value is never followed by a stored one.
THEOREM AuthKeepsOrderAlways == Spec => []AuthKeepsOrder
  <1>1. IInv => AuthKeepsOrder
    BY DEF IInv, AuthInv, AuthKeepsOrder
  <1>2. QED
    BY Inductive, <1>1, PTL

\* Labels that do not fit, read while no ingress_gv stores, were lost on the
\* way to the Redis of the party with the older ones.
THEOREM LabelsFitAlways == Spec => []LabelsFit
  <1>1. IInv => LabelsFit
    <2> SUFFICES ASSUME IInv, quiet, NEW p \in Parties, NEW q \in Parties
                 PROVE  /\ sick[p] \in Values /\ sick[q] \in Values =>
                              \A r \in (sick[p] + 1)..sick[q] : <<r, "sick">> \in unstored[p]
                        /\ \A i \in 1..Len(tiles[p]), j \in 1..Len(tiles[q]) :
                              tiles[p][i] \in Values /\ tiles[q][j] \in Values =>
                                 \A r \in (tiles[p][i] + 1)..tiles[q][j] : <<r, "tile">> \in unstored[p]
      BY DEF LabelsFit
    <2>1. /\ ingress[p] \in {"setup", "end", "exited"} /\ ingress[q] \in {"setup", "end", "exited"}
          /\ rep[p] = rep[q]
      BY DEF IInv, QuietInv, SameRep, Parties
    <2>2. \A k \in Keys : Over(p, k) = rep[p] /\ Over(q, k) = rep[p]
      BY <2>1 DEF Over, Past
    <2>3. \A k \in Keys : /\ store[q][k] <= rep[p]
                          /\ \A r \in (store[p][k] + 1)..rep[p] : <<r, k>> \in unstored[p]
      <3>1. StoreInv
        BY DEF IInv
      <3>2. ASSUME NEW k \in Keys
            PROVE  /\ store[q][k] <= rep[p]
                   /\ \A r \in (store[p][k] + 1)..rep[p] : <<r, k>> \in unstored[p]
        <4>1. Over(p, k) = rep[p] /\ Over(q, k) = rep[p]
          BY <2>2
        <4>2. QED
          BY <3>1, <4>1 DEF StoreInv
      <3>3. QED
        BY <3>2
    <2>4. rep[p] \in Int /\ \A k \in Keys : store[p][k] \in Int /\ store[q][k] \in Int
      BY TileStoreAssumption DEF IInv, TypeOK, Values, Missing
    <2>5. \A k \in Keys : \A r \in (store[p][k] + 1)..store[q][k] : <<r, k>> \in unstored[p]
      <3> SUFFICES ASSUME NEW k \in Keys, NEW r \in (store[p][k] + 1)..store[q][k]
                   PROVE  r \in (store[p][k] + 1)..rep[p]
        BY <2>3
      <3>1. QED
        BY <2>3, <2>4
    <2>6. QED
      BY <2>5 DEF IInv, QuietInv, Keys
  <1>2. QED
    BY Inductive, <1>1, PTL
=============================================================================
