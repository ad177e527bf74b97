--------------------------- MODULE BTreeAbstract ---------------------------
(***************************************************************************)
(* What a property index (spec.md 4.9) promises its callers: a map from   *)
(* key to the set of doc ids holding that key.  add sets a doc id under a  *)
(* key, remove clears it; flush and every query leave the map unchanged.   *)
(* op records the last call, so that each call must take effect in the    *)
(* step that makes it.                                                     *)
(***************************************************************************)
EXTENDS Naturals, FiniteSets

CONSTANTS Keys, Docs

VARIABLES index, op

TypeOK == index \in [Keys -> SUBSET Docs]

Ops == ({"add", "remove"} \X Keys \X Docs) \cup {<<"flush">>, <<"none">>}

Init == index = [k \in Keys |-> {}] /\ op = <<"none">>

Add(k, d) ==
    /\ index' = [index EXCEPT ![k] = @ \cup {d}]
    /\ op' = <<"add", k, d>>

Remove(k, d) ==
    /\ index' = [index EXCEPT ![k] = @ \ {d}]
    /\ op' = <<"remove", k, d>>

Flush ==
    /\ op' = <<"flush">>
    /\ UNCHANGED index

Next == (\E k \in Keys, d \in Docs : Add(k, d) \/ Remove(k, d)) \/ Flush

Spec == Init /\ [][Next]_<<index, op>>

(* The answers a caller may expect.                                        *)

(* count(): the number of keys some document holds.                       *)
KeyCount == Cardinality({k \in Keys : index[k] # {}})

(* get(k) for every key k of S, united: what range(lo, hi), less,         *)
(* greater and their variants promise for the keys they select.           *)
DocsOfKeys(S) == UNION {index[k] : k \in S}

(* getValueBetween(low, high, maxDoc, data): every doc id below maxDoc    *)
(* holding a key in [low, high].                                           *)
DocsBetweenBelow(low, high, maxDoc) ==
    {d \in UNION {index[k] : k \in {x \in Keys : low <= x /\ x <= high}} :
        d < maxDoc}

=============================================================================
