---------------------------- MODULE TileStore ------------------------------
(* The garbled tiles in Redis.  ingress_gv of both parties garbles a tile of  *)
(* encounters together, then each of them stores its labels in its own Redis *)
(* under three keys, one after the other, and does so again in its next      *)
(* repetition, under the same keys.  mapper_gv of both parties reads the     *)
(* labels of the sick id and those of a tile and computes on them together.  *)
(* Only labels of one repetition fit together.                               *)
(*                                                                           *)
(* A value is the number of the repetition that garbled it.  Between a       *)
(* program and its Redis is class Redis over hiredis: every command may lose *)
(* its connection, whether or not the server has executed it.                *)
EXTENDS Integers, Sequences

CONSTANTS Reps,     \* n_reps of ingress_gv
          Tiles,    \* n_tiles of mapper_gv
          MaxFaults \* bound: how many connections fail

ASSUME TileStoreAssumption ==
    Reps \in Nat \ {0} /\ Tiles \in Nat \ {0} /\ MaxFaults \in Nat

ALICE == 1
BOB   == 2
Parties == {ALICE, BOB}

Keys == {"eid", "tile", "sick"}     \* eid_gv_N, tile_gv_N, sick_gv_N
Missing   == 0                      \* the key is not in Redis
ErrorText == -1                     \* the text of an error reply, read as labels
Values == 1..Reps

\* An operational connection is authenticated or not; a failed one has err 1
\* (REDIS_ERR_IO) or another error, which the client takes for irrecoverable.
Live == {"authenticated", "plain"}
Conns == Live \cup {"none", "io", "broken"}

VARIABLES store,        \* store[p][k]: what the Redis of party p has under k
          requires,     \* the Redis servers refuse commands before AUTH (one redis.conf)
          rep,          \* rep[p]: the repetition ingress_gv of p is in
          ingress,      \* ingress[p]: what it does next
          ingress_conn,
          mapper,       \* mapper[p]: what mapper_gv of p does next
          mapper_conn,
          sick,         \* sick[p]: the sick id its mapper works with
          tiles,        \* tiles[p]: the tiles it has read
          mapped,       \* mapped[p]: how many of them it has sent to the reducer
          faults,       \* how many connections have failed
          quiet,        \* history: no ingress was storing when the mappers began, or since
          unstored      \* history: unstored[p]: the <<repetition, key>> Redis never got

ingress_vars == <<rep, ingress, ingress_conn>>
mapper_vars  == <<mapper, mapper_conn, sick, tiles, mapped>>
vars == <<store, requires, ingress_vars, mapper_vars, faults, quiet, unstored>>

-----------------------------------------------------------------------------
(* class Redis *)

\* redisCommand on connection c, the server requiring authentication or not: the
\* connection afterwards, whether the server executed it, and the reply it gave.  A
\* server that wants AUTH answers, with an error, which is a reply too.
redisCommand(c, required) ==
    LET accepted == c = "authenticated" \/ ~required
        lost == {[conn |-> e, executed |-> x, reply |-> "null"] :
                    e \in {"io", "broken"}, x \in {FALSE, accepted}}
        answered == [conn |-> c, executed |-> accepted,
                     reply |-> IF accepted THEN "ok" ELSE "error"]
    IN  IF c \in Live THEN {answered} \cup lost
                      ELSE {[conn |-> c, executed |-> FALSE, reply |-> "null"]}

ConnectsWithAuth(c) ==     \* mutant: the new connection is as good as the old one
    IF c = "io" THEN {[conn |-> "authenticated", handled |-> TRUE], [conn |-> "io", handled |-> FALSE]}
                ELSE {[conn |-> c, handled |-> FALSE]}

\* After err 1 it connects again, without AUTH; all else is irrecoverable.
try_handle_error(c) ==
    IF c = "io" THEN {[conn |-> "plain", handled |-> TRUE], [conn |-> "io", handled |-> FALSE]}
                ELSE {[conn |-> c, handled |-> FALSE]}

\* set(): the connection it leaves behind and whether the value is stored.  The caller
\* ignores the result, and a handled error does not send the value again.
set(c, required) ==
    UNION {IF o.reply # "null"
           THEN {[conn |-> o.conn, executed |-> o.executed, null |-> FALSE]}
           ELSE {[conn |-> h.conn, executed |-> o.executed, null |-> TRUE] : h \in try_handle_error(o.conn)} :
              o \in redisCommand(c, required)}

\* Connection c fails in this step, if it is live and the command got no reply.
Count(c, null) ==
    /\ faults' = faults + IF c \in Live /\ null THEN 1 ELSE 0
    /\ faults' <= MaxFaults

-----------------------------------------------------------------------------
(* ingress_gv *)

SickBeforeTile(k) ==       \* mutant: two keys change places
    CASE k = "eid" -> "sick" [] k = "sick" -> "tile" [] k = "tile" -> "done"

\* store_garbled_data() writes the keys in this order.
NextKey(k) == CASE k = "eid" -> "tile" [] k = "tile" -> "sick" [] k = "sick" -> "done"

GarbleAlone ==             \* mutant: no party waits for the other one's repetition
    /\ \E p \in Parties :
          /\ ingress[p] = "setup" /\ rep[p] < Reps
          /\ rep' = [rep EXCEPT ![p] = @ + 1]
          /\ ingress' = [ingress EXCEPT ![p] = "connect"]
    /\ quiet' = FALSE
    /\ UNCHANGED <<store, requires, ingress_conn, mapper_vars, faults, unstored>>

\* Setup, garbling, sort and confirmation are one computation of both parties.
Garble ==
    /\ \A p \in Parties : ingress[p] = "setup" /\ rep[p] < Reps
    /\ rep' = [p \in Parties |-> rep[p] + 1]
    /\ ingress' = [p \in Parties |-> "connect"]
    /\ quiet' = FALSE
    /\ UNCHANGED <<store, requires, ingress_conn, mapper_vars, faults, unstored>>

\* store_garbled_data() opens a connection, and the program ends if that fails.
IngressConnects(p) ==
    /\ ingress[p] = "connect"
    /\ \/ /\ ingress' = [ingress EXCEPT ![p] = "eid"]
          /\ ingress_conn' = [ingress_conn EXCEPT ![p] = "authenticated"]
          /\ UNCHANGED <<unstored, faults>>
       \/ /\ Count("plain", TRUE)
          /\ ingress' = [ingress EXCEPT ![p] = "exited"]
          /\ unstored' = [unstored EXCEPT ![p] = @ \cup {<<rep[p], k>> : k \in Keys}]
          /\ UNCHANGED ingress_conn
    /\ UNCHANGED <<store, requires, rep, mapper_vars, quiet>>

Stores(p, k) ==
    /\ ingress[p] = k
    /\ \E r \in set(ingress_conn[p], requires) :
          /\ Count(ingress_conn[p], r.null)
          /\ IF r.executed
             THEN store' = [store EXCEPT ![p][k] = rep[p]] /\ UNCHANGED unstored
             ELSE unstored' = [unstored EXCEPT ![p] = @ \cup {<<rep[p], k>>}] /\ UNCHANGED store
          /\ IF NextKey(k) # "done"
             THEN /\ ingress' = [ingress EXCEPT ![p] = NextKey(k)]
                  /\ ingress_conn' = [ingress_conn EXCEPT ![p] = r.conn]
             ELSE /\ ingress' = [ingress EXCEPT ![p] = IF rep[p] < Reps THEN "setup" ELSE "end"]
                  /\ ingress_conn' = [ingress_conn EXCEPT ![p] = "none"]
    /\ UNCHANGED <<requires, rep, mapper_vars, quiet>>

-----------------------------------------------------------------------------
(* mapper_gv *)

\* One repetition, which may begin at any time.
MapperSetup ==
    /\ \A p \in Parties : mapper[p] = "setup"
    /\ mapper' = [p \in Parties |-> "connect"]
    /\ quiet' = \A p \in Parties : ingress[p] \in {"setup", "end", "exited"}
    /\ UNCHANGED <<store, requires, ingress_vars, mapper_conn, sick, tiles, mapped, faults, unstored>>

MapperConnects(p) ==
    /\ mapper[p] = "connect"
    /\ \/ /\ mapper' = [mapper EXCEPT ![p] = "get_sick"]
          /\ mapper_conn' = [mapper_conn EXCEPT ![p] = "authenticated"]
          /\ UNCHANGED faults
       \/ /\ Count("plain", TRUE)
          /\ mapper' = [mapper EXCEPT ![p] = "exited"]
          /\ UNCHANGED mapper_conn
    /\ UNCHANGED <<store, requires, ingress_vars, sick, tiles, mapped, quiet, unstored>>

ExitForgotten(p) ==        \* mutant: an error is printed, and get() called again
    UNCHANGED <<mapper, mapper_conn, sick, tiles>>

\* std::exit(-1).
Exit(p) ==
    /\ mapper' = [mapper EXCEPT ![p] = "exited"]
    /\ mapper_conn' = [mapper_conn EXCEPT ![p] = "none"]
    /\ UNCHANGED <<sick, tiles>>

SizeUnchecked(p, k, value) ==     \* mutant: no test of size()
    IF k = "sick"
    THEN /\ sick' = [sick EXCEPT ![p] = value]
         /\ mapper' = [mapper EXCEPT ![p] = "get_tile"]
         /\ UNCHANGED <<tiles, mapper_conn>>
    ELSE /\ tiles' = [tiles EXCEPT ![p] = Append(@, value)]
         /\ mapper' = [mapper EXCEPT ![p] = "map"]
         /\ UNCHANGED <<sick, mapper_conn>>

\* What the callers of get() do with the reply: nothing under the key ends the program,
\* all else is taken for labels, the text of an error included.
UseReply(p, k, value) ==
    IF value = Missing THEN Exit(p)
    ELSE IF k = "sick"
    THEN /\ sick' = [sick EXCEPT ![p] = value]
         /\ mapper' = [mapper EXCEPT ![p] = "get_tile"]
         /\ UNCHANGED <<tiles, mapper_conn>>
    ELSE /\ tiles' = [tiles EXCEPT ![p] = Append(@, value)]
         /\ mapper' = [mapper EXCEPT ![p] = "map"]
         /\ UNCHANGED <<sick, mapper_conn>>

Reading == [get_sick |-> "sick", get_tile |-> "tile", retry_sick |-> "sick", retry_tile |-> "tile"]

\* get() of class Redis, its first command; one that got no reply is sent once more if
\* the error was handled.
Get(p) ==
    /\ mapper[p] \in {"get_sick", "get_tile"}
    /\ LET k == Reading[mapper[p]] IN
       \E o \in redisCommand(mapper_conn[p], requires) :
          /\ Count(mapper_conn[p], o.reply = "null")
          /\ IF o.reply # "null"
             THEN UseReply(p, k, IF o.reply = "ok" THEN store[p][k] ELSE ErrorText)
             ELSE \E h \in try_handle_error(o.conn) :
                  IF ~h.handled THEN Exit(p)
                  ELSE /\ mapper_conn' = [mapper_conn EXCEPT ![p] = h.conn]
                       /\ mapper' = [mapper EXCEPT ![p] = IF k = "sick" THEN "retry_sick"
                                                                     ELSE "retry_tile"]
                       /\ UNCHANGED <<sick, tiles>>
    /\ UNCHANGED <<store, requires, ingress_vars, mapped, quiet, unstored>>

\* Its second command; when there is no reply again the program ends.
Retry(p) ==
    /\ mapper[p] \in {"retry_sick", "retry_tile"}
    /\ LET k == Reading[mapper[p]] IN
       \E o \in redisCommand(mapper_conn[p], requires) :
          /\ Count(mapper_conn[p], o.reply = "null")
          /\ IF o.reply # "null"
             THEN UseReply(p, k, IF o.reply = "ok" THEN store[p][k] ELSE ErrorText)
             ELSE Exit(p)
    /\ UNCHANGED <<store, requires, ingress_vars, mapped, quiet, unstored>>

\* run_query_unique_devices() in circuit and the sending to the reducer: the evaluator
\* needs the gates that the garbler sends for this tile.
Map(p) ==
    /\ mapper[p] = "map"
    /\ p = BOB => mapped[ALICE] > mapped[BOB]
    /\ mapped' = [mapped EXCEPT ![p] = @ + 1]
    /\ IF mapped'[p] < Tiles
       THEN mapper' = [mapper EXCEPT ![p] = "get_tile"] /\ UNCHANGED mapper_conn
       ELSE /\ mapper' = [mapper EXCEPT ![p] = "end"]
            /\ mapper_conn' = [mapper_conn EXCEPT ![p] = "none"]
    /\ UNCHANGED <<store, requires, ingress_vars, sick, tiles, faults, quiet, unstored>>

-----------------------------------------------------------------------------
Init ==
    /\ store = [p \in Parties |-> [k \in Keys |-> Missing]]
    /\ requires \in BOOLEAN
    /\ rep = [p \in Parties |-> 0]
    /\ ingress = [p \in Parties |-> "setup"]
    /\ ingress_conn = [p \in Parties |-> "none"]
    /\ mapper = [p \in Parties |-> "setup"]
    /\ mapper_conn = [p \in Parties |-> "none"]
    /\ sick = [p \in Parties |-> Missing]
    /\ tiles = [p \in Parties |-> <<>>]
    /\ mapped = [p \in Parties |-> 0]
    /\ faults = 0
    /\ quiet = TRUE
    /\ unstored = [p \in Parties |-> {}]

IngressStep(p) == IngressConnects(p) \/ \E k \in Keys : Stores(p, k)
MapperStep(p) == MapperConnects(p) \/ Get(p) \/ Retry(p) \/ Map(p)

Next == Garble \/ MapperSetup \/ \E p \in Parties : IngressStep(p) \/ MapperStep(p)

\* Connections fail or answer, so nothing but its peer holds a program up for ever.  That
\* the whole goes on while some program can is enough: none of them goes in a circle.
Fairness == WF_vars(Next)

Spec == Init /\ [][Next]_vars /\ Fairness

-----------------------------------------------------------------------------
(* Properties *)

\* Types.  That no mapper goes on with a value Redis does not have is part of it: sick
\* and tiles hold labels, or the text of an error, and Missing only before they are read.
TypeOK ==
    /\ store \in [Parties -> [Keys -> {Missing} \cup Values]]
    /\ requires \in BOOLEAN
    /\ rep \in [Parties -> 0..Reps]
    /\ ingress \in [Parties -> {"setup", "connect", "end", "exited"} \cup Keys]
    /\ mapper \in [Parties -> {"setup", "connect", "get_sick", "retry_sick", "get_tile",
                               "retry_tile", "map", "end", "exited"}]
    /\ ingress_conn \in [Parties -> Conns]
    /\ mapper_conn \in [Parties -> Conns]
    /\ sick \in [Parties -> {Missing, ErrorText} \cup Values]
    /\ tiles \in [Parties -> Seq({ErrorText} \cup Values)]
    /\ \A p \in Parties :
          /\ mapper[p] \in {"get_tile", "map"} => sick[p] # Missing
          /\ mapped[p] = Len(tiles[p]) - (IF mapper[p] = "map" THEN 1 ELSE 0)
    /\ mapped \in [Parties -> 0..Tiles]
    /\ faults \in 0..MaxFaults
    /\ quiet \in BOOLEAN
    /\ unstored \in [Parties -> SUBSET (Values \X Keys)]

\* What writing the sick id last (ingress.hpp) and reading it first (mapper_gv.cpp) gives
\* a mapper that runs while ingress overwrites the keys: its tiles are never older than
\* its sick id, but for repetitions whose tile did not reach this Redis.
TilesNotOlder ==
    \A p \in Parties : \A i \in 1..Len(tiles[p]) :
       sick[p] # ErrorText /\ tiles[p][i] # ErrorText =>
          \A r \in (tiles[p][i] + 1)..sick[p] : <<r, "tile">> \in unstored[p]

\* Between a Redis that wants AUTH and a client that connects again without it nothing is
\* stored any more until the next repetition: what arrived of a repetition is then a
\* beginning of eid, tile, sick, and a lost value is never followed by a stored one.
AuthKeepsOrder ==
    \A p \in Parties : requires =>
       /\ store[p]["eid"] >= store[p]["tile"]
       /\ store[p]["tile"] >= store[p]["sick"]

\* While no ingress stores, the labels that the two mappers compute on are of one
\* repetition, unless the party with the older ones lost all the newer ones: the only
\* way to labels that do not fit is a write whose failure ingress ignored.
LabelsFit ==
    quiet =>
       \A p, q \in Parties :
          /\ sick[p] \in Values /\ sick[q] \in Values =>
                \A r \in (sick[p] + 1)..sick[q] : <<r, "sick">> \in unstored[p]
          /\ \A i \in 1..Len(tiles[p]), j \in 1..Len(tiles[q]) :
                tiles[p][i] \in Values /\ tiles[q][j] \in Values =>
                   \A r \in (tiles[p][i] + 1)..tiles[q][j] : <<r, "tile">> \in unstored[p]

\* Both programs end at both parties, unless one of them ends early at a party: no lost
\* connection makes a program wait or try for ever.
AllEnd ==
    <>(/\ \/ \A p \in Parties : ingress[p] = "end"
          \/ \E p \in Parties : ingress[p] = "exited"
       /\ \/ \A p \in Parties : mapper[p] = "end"
          \/ \E p \in Parties : mapper[p] = "exited")
=============================================================================
