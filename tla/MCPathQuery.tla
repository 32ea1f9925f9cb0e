---------------------------- MODULE MCPathQuery -----------------------------
(* Two shuffles of two times each.  contact(): sources 1, 2 and sinks 3, 4, 5; *)
(* flow(): source 1, sinks 3 and 4, others 2.                                  *)
EXTENDS PathQuery

Contact == [kind |-> "contact", source |-> <<1, 2>>, sink |-> <<3, 4, 5>>, direct |-> FALSE,
            meetings |-> {{}, {1, 3}, {2, 3}, {2, 4}, {1, 2}}]
Flow    == [kind |-> "flow", source |-> <<1>>, sink |-> <<3, 4>>, direct |-> FALSE,
            meetings |-> {{1, 2}, {2, 3}, {2, 4}, {1, 3}, {3, 4}}]
Direct  == [Flow EXCEPT !.direct = TRUE, !.meetings = {{1, 2}, {2, 3}, {2, 4}, {1, 3}}]

\* Every device on a place of its own, but for some 2 and 3 share theirs.
Apart  == [d \in 0..5 |-> {d, d + 10}]
Shared == [Apart EXCEPT ![2] = {3, 13}]

MCQueries == {Contact, Flow, Direct}
Equal   == [Contact EXCEPT !.sink = <<3, 4>>]
EqualLists == {Equal}
Usual == [budget |-> 2, start_time |-> 0, end_time |-> 4, salt |-> 91,
          unconfirmed |-> {}, short |-> {}, positions |-> Apart]
MCSettings ==
    {Usual,
     [Usual EXCEPT !.start_time = 1, !.end_time = 5, !.salt = 200, !.unconfirmed = {3}, !.short = {2}],
     [Usual EXCEPT !.budget = 1, !.salt = 57],
     [Usual EXCEPT !.salt = 133, !.short = {3}, !.positions = Shared]}
MCStarts == <<2, 0>>

\* What the theorems ask of queries.
ASSUME MCQueriesFit == EnoughDummies /\ DistinctDevices

MCHash(salt, key) ==
    LET origin == key[2][2] IN ((32 * origin[1] + origin[2]) * salt) % 257
=============================================================================
