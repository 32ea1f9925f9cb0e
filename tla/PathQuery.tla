----------------------------- MODULE PathQuery ------------------------------
(***************************************************************************)
(* contact() and flow() of include/contact_path_query.hpp and               *)
(* include/flow_path_query.hpp, over a store that was filled shuffle by     *)
(* shuffle (module EncounterStore).  Both walk back through the encounters  *)
(* of each listed device, a fixed number of fetches per device and shuffle, *)
(* and fetch a dummy when the device has no more in the shuffle.            *)
(*                                                                          *)
(* The two machines run the same circuit, so they step together, until      *)
(* RIGHT does not find a key: then its query returns false, while LEFT goes *)
(* on and waits for RIGHT's input ("split").                                *)
(***************************************************************************)
EXTENDS EncounterStore

CONSTANTS
    Queries,              \* [kind, source, sink, direct, meetings], the ids as sequences
    Settings,             \* [budget, start_time, end_time, salt, unconfirmed, short, positions]
    T,                    \* the latest time
    shuffle_start_times,  \* newest shuffle first
    dummies               \* in each shuffle

\* A setting has the query's arguments budget (encounters_per_device_per_shuffle)
\* and start_time and end_time (source_start_time and sink_end_time of flow()),
\* the order of the hashes, the times of encounters that are unconfirmed or too
\* short, and the positions of devices in the Bloom filters.
minimum_duration == 1
Times == 1..T

Ids(list) == {list[k] : k \in DOMAIN list}

ASSUME QueryAssumption ==
    \A q \in Queries :
        /\ q.kind \in {"contact", "flow"} /\ q.direct \in BOOLEAN
        /\ \A ids \in {q.source, q.sink} : ids \in Seq(Nat) /\ ids # <<>> /\ nobody \notin Ids(ids)
        /\ \A both \in q.meetings :
              both = {} \/ \E d, e \in both : d # e /\ both = {d, e} /\ both \subseteq Nat \ {nobody}

ASSUME StoreAssumption ==
    /\ T \in Nat /\ dummies \in Nat
    /\ shuffle_start_times \in Seq(Nat) /\ shuffle_start_times # <<>>
    /\ \A new, old \in DOMAIN shuffle_start_times :
           new < old => shuffle_start_times[old] < shuffle_start_times[new]

\* What the keys of a store are made of.
Origins == {mac(d, t) : d \in UNION {UNION q.meetings : q \in Queries}, t \in Times} \cup
           {Dummy(n) : n \in 0..dummies - 1}
StoredKey(origin) == sha3("RIGHT", sha3("LEFT", origin))

\* Hashes do not collide.
ASSUME SettingAssumption ==
    \A x \in Settings :
        /\ x.budget \in Nat \ {0} /\ x.start_time \in Nat /\ x.end_time \in Nat
        /\ \A o \in Origins : Hash(x.salt, StoredKey(o)) \in Int
        /\ \A o1, o2 \in Origins :
              Hash(x.salt, StoredKey(o1)) = Hash(x.salt, StoredKey(o2)) => o1 = o2

VARIABLES
    query, setting,   \* parameters of this run
    hist,             \* hist[t]: the two devices that met at t, or {}
    alice, wire,      \* LEFT's array of the shuffle, and what it sends
    shuffle_store,    \* RIGHT's
    pc,
    at,               \* the loops: <<pass, s, i, j>>
    walk_previous,    \* of each list; source_previous and sink_previous in flow()
    dummy_nonce,
    filter,           \* the Bloom filters, as sets of positions
    this_device_had_contact,
    encounter_list,
    output_count,
    looked, again     \* history: the keys looked up, those looked up again

store_vars == <<alice, wire, shuffle_store>>
run_vars   == <<query, setting, hist>>
vars == <<run_vars, store_vars, pc, at, walk_previous, dummy_nonce, filter,
          this_device_had_contact, encounter_list, output_count, looked, again>>

Shuffles == 1..Len(shuffle_start_times)
Covered(s) == {t \in Times : /\ shuffle_start_times[s] < t
                             /\ s > 1 => t <= shuffle_start_times[s - 1]}

Devices == (UNION query.meetings) \cup Ids(query.source) \cup Ids(query.sink)

\* What a device has recorded (as the tests make it): whom it met at t, and
\* when it met somebody before.
Partner(d, t)  == CHOOSE e \in hist[t] : e # d
Previous(d, t) == CHOOSE u \in 0..t - 1 :
                     /\ u > 0 => d \in hist[u]
                     /\ \A v \in u + 1..t - 1 : d \notin hist[v]
Recorded(d, t) == [device |-> d, time |-> t,
                   payload |-> [encountered |-> Partner(d, t), previous |-> Previous(d, t),
                                duration |-> IF t \in setting.short THEN minimum_duration
                                             ELSE minimum_duration + 1,
                                confirmed |-> t \notin setting.unconfirmed]]

\* Bloom filters: each device has its positions, so there can be false positives.
Insert(f, d)   == f \cup setting.positions[d]
Contains(f, d) == setting.positions[d] \subseteq f
Filled(list)   == UNION {setting.positions[list[k]] : k \in DOMAIN list}

Init ==
    /\ query \in Queries /\ setting \in Settings
    /\ hist \in [Times -> query.meetings]
    /\ alice = {} /\ wire = {} /\ shuffle_store = [s \in Shuffles |-> <<>>]
    /\ pc = "store" /\ at = <<1, Len(shuffle_start_times), 1, 1>>
    /\ walk_previous = <<>> /\ dummy_nonce = 0
    /\ filter = [source |-> {}, sink |-> {}, encountered |-> {}, infected |-> {}]
    /\ this_device_had_contact = FALSE /\ encounter_list = <<>> /\ output_count = 0
    /\ looked = {} /\ again = {}

pass == at[1]
s    == at[2]
i    == at[3]
j    == at[4]
-----------------------------------------------------------------------------
(* Filling the store, oldest shuffle first.                                  *)

UNCHANGEDQuery == UNCHANGED <<run_vars, walk_previous, dummy_nonce, filter,
    this_device_had_contact, encounter_list, output_count, looked, again>>

StoreEpoch ==
    /\ pc = "store"
    /\ alice' = UNION {{store_path_encounter(Recorded(d, t)) : d \in hist[t]} : t \in Covered(s)}
    /\ pc' = "send"
    /\ UNCHANGED <<wire, shuffle_store, at>> /\ UNCHANGEDQuery

SendShuffle ==
    /\ pc = "send"
    /\ wire' = send_shuffle(alice, dummies, 0) /\ alice' = {}
    /\ pc' = "receive"
    /\ UNCHANGED <<shuffle_store, at>> /\ UNCHANGEDQuery

ReceiveShuffle ==
    /\ pc = "receive"
    /\ shuffle_store' = [shuffle_store EXCEPT ![s] = receive_shuffle(setting.salt, wire)]
    /\ wire' = {}
    /\ IF s > 1 THEN pc' = "store" /\ at' = [at EXCEPT ![2] = s - 1]
                ELSE pc' = "start" /\ UNCHANGED at
    /\ UNCHANGED alice /\ UNCHANGEDQuery
-----------------------------------------------------------------------------
(* The queries.                                                              *)

\* The smaller list is walked.  (Of equal ones the sinks are both walked and
\* put in the filter.)
walk_ids(q)   == IF Len(q.source) < Len(q.sink) THEN q.source ELSE q.sink
filter_ids(q) == IF Len(q.source) > Len(q.sink) THEN q.source ELSE q.sink
ListsOf(q) == IF q.kind = "contact" THEN <<walk_ids(q)>> ELSE <<q.source, q.sink>>
lists  == ListsOf(query)
walked == UNION {Ids(lists[p]) : p \in DOMAIN lists}

Start ==
    /\ pc = "start" /\ pc' = "fetch"
    /\ walk_previous' = [p \in DOMAIN lists |->
                          [k \in DOMAIN lists[p] |-> Previous(lists[p][k], T + 1)]]
    /\ filter' = [source |-> IF query.kind = "contact" THEN Filled(filter_ids(query))
                             ELSE Filled(query.source),
                  sink |-> IF query.kind = "contact" THEN {} ELSE Filled(query.sink),
                  encountered |-> IF query.direct THEN Filled(query.source) ELSE {},
                  infected |-> setting.positions[nobody]]
    /\ UNCHANGED <<run_vars, store_vars, at, dummy_nonce, this_device_had_contact,
                   encounter_list, output_count, looked, again>>

device   == lists[pass][i]
previous == walk_previous[pass][i]

StopsOneEarly ==           \* mutant: the first encounter of a shuffle counts as too early
    shuffle_start_times[s] + 1 >= previous

\* If this device's previous entry is too early for this shuffle, fetch a dummy.
fetch_dummy == shuffle_start_times[s] >= previous

original_key == IF fetch_dummy THEN Dummy(dummy_nonce) ELSE mac(device, previous)
hash  == sha3("LEFT", original_key)
found == fetch_stored_path_encounter(setting.salt, shuffle_store[s], sha3("RIGHT", hash))
entry == decrypt_path_encounter(shuffle_store[s][found].encrypted, hash, original_key)

LastRound == j = setting.budget
\* Where the loops go next; <<>> when they end.
NextAt ==
    IF ~LastRound THEN <<pass, s, i, j + 1>>
    ELSE IF i < Len(lists[pass]) THEN <<pass, s, i + 1, 1>>
    ELSE IF s < Len(shuffle_start_times) THEN <<pass, s + 1, 1, 1>>
    ELSE IF pass < Len(lists) THEN <<pass + 1, 1, 1, 1>>
    ELSE <<>>

NonceKept ==               \* mutant: the same dummy again and again
    dummy_nonce' = 0

\* Counted up after a dummy, and back to the start with each shuffle (in flow()
\* that is twice for each, once for the sources and once for the sinks).
NextNonce ==
    dummy_nonce' = IF NextAt = <<>> \/ NextAt[1] # pass \/ NextAt[2] # s THEN 0
                   ELSE IF fetch_dummy THEN dummy_nonce + 1 ELSE dummy_nonce

InRange(t) == setting.start_time < t /\ t < setting.end_time

ContactNotReset ==         \* mutant: a contact counts for the devices after it too
    LET contact == \/ this_device_had_contact
                   \/ /\ ~fetch_dummy /\ entry.confirmed
                      /\ InRange(previous) /\ Contains(filter.source, entry.encountered)
    IN  /\ this_device_had_contact' = contact
        /\ output_count' = IF LastRound /\ contact THEN output_count + 1 ELSE output_count

\* contact(): a device with a contact in this shuffle adds one to the count.
CheckContact ==
    LET contact == \/ this_device_had_contact
                   \/ /\ ~fetch_dummy /\ entry.confirmed
                      /\ InRange(previous) /\ Contains(filter.source, entry.encountered)
    IN  /\ this_device_had_contact' = (contact /\ ~LastRound)
        /\ output_count' = IF LastRound /\ contact THEN output_count + 1 ELSE output_count

\* flow(): what does not qualify gets a time that is out of range.
ListEncounter ==
    encounter_list' = Append(encounter_list,
        [encountered |-> entry.encountered, device |-> device, is_source |-> pass = 1,
         time |-> IF ~fetch_dummy /\ entry.duration > minimum_duration /\ entry.confirmed
                  THEN previous ELSE setting.end_time])

Fetch ==
    /\ pc = "fetch" /\ found # NotFound
    /\ IF query.kind = "contact" THEN CheckContact /\ UNCHANGED encounter_list
       ELSE ListEncounter /\ UNCHANGED <<this_device_had_contact, output_count>>
    /\ walk_previous' = IF fetch_dummy THEN walk_previous
                        ELSE [walk_previous EXCEPT ![pass][i] = entry.previous]
    /\ NextNonce
    /\ IF NextAt # <<>> THEN at' = NextAt /\ UNCHANGED pc
       ELSE UNCHANGED at /\ pc' = IF query.kind = "contact" THEN "done" ELSE "sort"
    /\ again' = again \cup ({<<s, original_key>>} \cap looked)
    /\ looked' = looked \cup {<<s, original_key>>}
    /\ UNCHANGED <<run_vars, store_vars, filter>>

FetchFails ==
    /\ pc = "fetch" /\ found = NotFound
    /\ pc' = "split"
    /\ UNCHANGED <<run_vars, store_vars, at, walk_previous, dummy_nonce, filter,
                   this_device_had_contact, encounter_list, output_count, looked, again>>
-----------------------------------------------------------------------------
(* flow(): the walk through the encounters in the order of their times.  Two *)
(* of the same time are one encounter seen from both sides, or out of range, *)
(* and their order changes nothing.                                          *)

Earlier(list, m, n) == list[m].time < list[n].time \/ (list[m].time = list[n].time /\ m < n)
Sorted(list) ==
    [c \in 1..Len(list) |->
        list[CHOOSE n \in 1..Len(list) : Cardinality({m \in 1..Len(list) : Earlier(list, m, n)}) = c - 1]]

SortList ==
    /\ pc = "sort" /\ pc' = "walk"
    /\ encounter_list' = Sorted(encounter_list)
    /\ UNCHANGED <<run_vars, store_vars, at, walk_previous, dummy_nonce, filter,
                   this_device_had_contact, output_count, looked, again>>

SpreadsThroughAnyone ==    \* mutant: a sink that was met passes it on
    LET e == Head(encounter_list) IN
    IF e.is_source /\ InRange(e.time) /\ (query.direct \/ ~Contains(filter.source, e.encountered))
    THEN e.encountered ELSE nobody

\* Whom a source met; "nobody" stands for the code's dummy value.
Spread ==
    LET e == Head(encounter_list) IN
    IF /\ e.is_source /\ InRange(e.time)
       /\ query.direct \/ ~Contains(filter.source, e.encountered)
       /\ ~Contains(filter.sink, e.encountered)
    THEN e.encountered ELSE nobody

WalkThrough ==
    /\ pc = "walk" /\ encounter_list # <<>>
    /\ LET e == Head(encounter_list)
           encountered == Insert(filter.encountered, Spread)
           reached == IF ~e.is_source /\ InRange(e.time) /\ Contains(encountered, e.encountered)
                      THEN e.device ELSE nobody
       IN  /\ filter' = [filter EXCEPT !.encountered = encountered,
                                       !.infected = Insert(@, reached)]
           /\ output_count' = IF Contains(filter.infected, reached) THEN output_count
                              ELSE output_count + 1
    /\ encounter_list' = Tail(encounter_list)
    /\ pc' = IF Len(encounter_list) = 1 THEN "done" ELSE "walk"
    /\ UNCHANGED <<run_vars, store_vars, at, walk_previous, dummy_nonce,
                   this_device_had_contact, looked, again>>

Next ==
    \/ StoreEpoch \/ SendShuffle \/ ReceiveShuffle
    \/ Start \/ Fetch \/ FetchFails \/ SortList \/ WalkThrough

Spec == Init /\ [][Next]_vars
-----------------------------------------------------------------------------
(* Properties.                                                               *)

\* No device has more encounters in a shuffle than are fetched for it.
Within == \A d \in walked, sh \in Shuffles :
    Cardinality({t \in Covered(sh) : d \in hist[t]}) <= setting.budget

\* A shuffle has a dummy for every fetch of a list.
EnoughDummies == \A q \in Queries, x \in Settings : \A p \in DOMAIN ListsOf(q) :
    x.budget * Len(ListsOf(q)[p]) <= dummies

\* No device is listed twice.
DistinctDevices == \A q \in Queries : \A p1, p2 \in DOMAIN ListsOf(q) :
    \A k1 \in DOMAIN ListsOf(q)[p1], k2 \in DOMAIN ListsOf(q)[p2] :
        ListsOf(q)[p1][k1] = ListsOf(q)[p2][k2] => p1 = p2 /\ k1 = k2

Ended == pc \in {"sort", "walk", "done"}

\* Safety: the machines return together.  RIGHT finds every key that is looked
\* up, dummies and the ends of its array included, unless a device has more
\* encounters in a shuffle than are fetched (contact_path_query.hpp:116-131).
NoSplit == Within => pc # "split"

\* Safety: both queries walk through all of the encounters of the devices, and
\* through nothing else, although each only learns from one fetch, decrypted
\* from three layers, what to fetch next, and from which shuffle.
WalkComplete ==
    Ended /\ Within =>
        {x \in looked : x[2][1] # nobody} =
        UNION {{<<sh, mac(d, t)>> : t \in {u \in Covered(sh) : d \in hist[u]}} :
               d \in walked, sh \in Shuffles}

\* Safety, the note of store_path_encounter.hpp:25 ("ensure you never fetch the same
\* encounter from the same shuffle twice"): no encounter is fetched twice from a
\* shuffle, nor a dummy by contact(); flow() fetches the dummies of its sources for its
\* sinks again.
FetchedOnce == \A x \in again : x[2][1] = nobody /\ query.kind = "flow"

\* No two devices, and no device and the dummy value, share all their positions.
Exact == \A d \in Devices : ~(setting.positions[d] \subseteq
                              UNION {setting.positions[e] : e \in (Devices \cup {nobody}) \ {d}})

Contacts(d, others, sh) ==
    {t \in Covered(sh) : d \in hist[t] /\ InRange(t) /\ t \notin setting.unconfirmed
                         /\ Partner(d, t) \in others}

\* The walked devices that had contact in the time asked for, of "sufficient duration and
\* confirmed" (contact_path_query.hpp:138).
HadContact(others) ==
    {d \in walked : \E sh \in Shuffles : \E u \in Contacts(d, others, sh) : u \notin setting.short}

\* No device has its contacts in two shuffles, nor one that is too short.
EachOnce(others) ==
    \A d \in walked, sh \in Shuffles : \A u \in Contacts(d, others, sh) :
        /\ u \notin setting.short
        /\ \A sh2 \in Shuffles : Contacts(d, others, sh2) # {} => sh2 = sh

\* Safety: of lists of different lengths, contact() counts every device of the shorter
\* one that had contact with one of the longer (contact_path_query.hpp:25).  It counts
\* exactly these if Bloom filters do not err, no device has contacts in two shuffles,
\* and no contact is too short: a device counts again in every shuffle, and the minimum
\* duration is not read, against the comments at lines 25 and 138.
ContactCounted ==
    pc = "done" /\ query.kind = "contact" /\ Len(query.source) # Len(query.sink) /\ Within =>
        LET others == Ids(filter_ids(query)) IN
        /\ output_count >= Cardinality(HadContact(others))
        /\ Exact /\ EachOnce(others) => output_count = Cardinality(HadContact(others))

\* Safety: what the comment of contact() says it counts: how many devices of
\* the walked list "had contact with devices from the other set"
\* (contact_path_query.hpp:25).
CountsContacts ==
    pc = "done" /\ query.kind = "contact" /\ Within /\ Exact =>
        LET other == IF walk_ids(query) = query.source THEN Ids(query.sink) ELSE Ids(query.source) IN
        output_count =
            Cardinality({d \in walked : \E sh \in Shuffles : Contacts(d, other, sh) # {}})

\* The encounters that flow() can use: those in the store.
Qualifies(t) == /\ \E sh \in Shuffles : t \in Covered(sh)
                /\ InRange(t) /\ t \notin setting.unconfirmed \cup setting.short

Sources == Ids(query.source)
Sinks   == Ids(query.sink)

\* Who can pass on what a source has: somebody else than a source or a sink who
\* met a source before, or the source itself if that is included.
Between(x)      == x \notin Sinks /\ (query.direct \/ x \notin Sources)
MetSource(x, u) == Qualifies(u) /\ x \in hist[u] /\ (hist[u] \ {x}) \cap Sources # {}
Carries(x, t)   == \/ query.direct /\ x \in Sources
                   \/ Between(x) /\ \E u \in 1..t - 1 : MetSource(x, u)
Reached == {d \in Sinks : \E t \in Times : Qualifies(t) /\ d \in hist[t] /\ Carries(Partner(d, t), t)}

\* Safety: flow() never counts a sink twice, and without errors of the Bloom
\* filters counts exactly the sinks that were reached.
FlowCounted ==
    query.kind = "flow" /\ Within =>
        /\ output_count <= Len(query.sink)
        /\ pc = "done" /\ Exact => output_count = Cardinality(Reached)
=============================================================================
