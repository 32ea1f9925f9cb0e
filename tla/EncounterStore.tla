--------------------------- MODULE EncounterStore ---------------------------
(***************************************************************************)
(* include/store_path_encounter.hpp: encounters are stored in circuit by    *)
(* both machines, shuffled by LEFT ("Alice"), then by RIGHT ("Bob"), who    *)
(* keeps them, and fetched one by one by key.  Each shuffle replaces a key  *)
(* by its hash with the secret of the machine, and puts a layer of AES-CTR  *)
(* under that secret, with the new key as IV, on the data.                  *)
(*                                                                          *)
(* MACs, hashes and streams are symbols, equal only if all that went into   *)
(* them is.  Devices are positive integers.  Sides are as in the tests of    *)
(* this file and of contact(): LEFT sends what is stored, RIGHT keeps it.   *)
(***************************************************************************)
EXTENDS Integers, Sequences, FiniteSets

\* Hash(salt, key) is the number that a key of RIGHT's array is: hashes are in an
\* order that has nothing to do with what is hashed, and salt stands for the
\* secrets that it depends on.
CONSTANT Hash(_, _)

nobody == 0
mac(device, time) == <<device, time>>
Dummy(nonce)      == <<nobody, nonce>>
sha3(side, key)   == <<side, key>>

\* A stream is XORed in: a second time takes it out again.
aes(data, side, iv) ==
    IF data.layers # <<>> /\ Head(data.layers) = <<side, iv>>
    THEN [data EXCEPT !.layers = Tail(@)]
    ELSE [data EXCEPT !.layers = <<<<side, iv>>>> \o @]

Nothing == [encountered |-> nobody, previous |-> 0, duration |-> 0, confirmed |-> FALSE]
Plain(payload) == [layers |-> <<>>, payload |-> payload]
Readable(data) == IF data.layers = <<>> THEN data.payload ELSE Nothing

\* One round of its loop: the key is revealed to both, the data to LEFT, under
\* the secret of RIGHT.
store_path_encounter(e) ==
    LET key == mac(e.device, e.time) IN
    [key |-> key, encrypted |-> aes(Plain(e.payload), "RIGHT", key)]

\* Dummies have a key, and as data whatever was in memory.
fill_dummies(count, nonce) ==
    {[key |-> Dummy(nonce + k), encrypted |-> Plain(Nothing)] : k \in 0..count - 1}

encrypt(array, side) ==
    {LET key == sha3(side, a.key) IN [key |-> key, encrypted |-> aes(a.encrypted, side, key)] :
        a \in array}

\* This compares two keys of RIGHT's array.
compareHash(salt, x, y) == Hash(salt, x) > Hash(salt, y)

sort(salt, set) ==
    [c \in 0..Cardinality(set) - 1 |->
        CHOOSE a \in set : Cardinality({b \in set : compareHash(salt, a.key, b.key)}) = c]

send_shuffle(array, dummies, nonce) == encrypt(array \cup fill_dummies(dummies, nonce), "LEFT")
receive_shuffle(salt, array) == sort(salt, encrypt(array, "RIGHT"))

-----------------------------------------------------------------------------
NotFound == -1

\* The binary search in the places from min up to max: it is over when there
\* is none between them.
Bisection(salt, array, key) ==
    LET count == Cardinality(DOMAIN array)
        search[range \in (0..count) \X (0..count)] ==
            LET min == range[1]
                max == range[2]
                guess == min + ((max - min) \div 2)
            IN  IF min + 1 >= max THEN NotFound
                ELSE IF array[guess].key = key THEN guess
                ELSE search[IF compareHash(salt, array[guess].key, key) THEN <<min, guess>>
                            ELSE <<guess, max>>]
    IN  search[<<0, count>>]

FirstNeverLookedAt(salt, array, key) ==      \* mutant: the search alone
    Bisection(salt, array, key)

\* Where the key is in the array: the first place is looked at before the
\* binary search, which never guesses it.
fetch_stored_path_encounter(salt, array, key) ==
    IF DOMAIN array # {} /\ array[0].key = key THEN 0 ELSE Bisection(salt, array, key)

\* The layers come off in the order of decrypt_path_encounter(): RIGHT's out of
\* circuit, LEFT's with the hash that was revealed, RIGHT's first one with the
\* key that was looked up.
decrypt_path_encounter(encrypted, hash, original_key) ==
    Readable(aes(aes(aes(encrypted, "RIGHT", sha3("RIGHT", hash)), "LEFT", hash),
                 "RIGHT", original_key))
=============================================================================
