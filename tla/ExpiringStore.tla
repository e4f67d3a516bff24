---------------------------- MODULE ExpiringStore ----------------------------
(***************************************************************************)
(* What a cache promises whoever asks it: an answer is a value that was    *)
(* put under that very key, and not longer ago than its lifetime.  It may  *)
(* lose what it keeps at any time, and may keep more than one value of a   *)
(* key for a while.                                                        *)
(***************************************************************************)
EXTENDS Naturals

CONSTANTS Keys, Values, Readers, Lifetime

VARIABLES
    kept,     \* kept[k]: the values of key k, each with its age
    found     \* found[r]: the answers reader r holds, a value for each key

svars == <<kept, found>>

Kept == [value : Values, age : 0 .. Lifetime + 1]

Init ==
    /\ kept = [k \in Keys |-> {}]
    /\ found = [r \in Readers |-> {}]

Shrinks == \A k \in Keys : kept'[k] \subseteq kept[k]

Get(r, k) ==
    /\ \E e \in kept[k] :
           /\ e.age <= Lifetime
           /\ found' = [found EXCEPT ![r] = @ \cup {<<k, e.value>>}]
    /\ Shrinks

Put(k, v) ==
    /\ kept'[k] \subseteq kept[k] \cup {[value |-> v, age |-> 0]}
    /\ \A j \in Keys \ {k} : kept'[j] \subseteq kept[j]
    /\ UNCHANGED found

Lose ==
    /\ Shrinks
    /\ \A r \in Readers : found'[r] \in {found[r], {}}

Tick ==
    /\ kept' = [k \in Keys |->
           {[e EXCEPT !.age = IF @ > Lifetime THEN @ ELSE @ + 1] : e \in kept[k]}]
    /\ UNCHANGED found

Next ==
    \/ \E r \in Readers, k \in Keys : Get(r, k)
    \/ \E k \in Keys, v \in Values : Put(k, v)
    \/ Lose
    \/ Tick

Spec == Init /\ [][Next]_svars
=============================================================================
