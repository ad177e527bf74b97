------------------------- MODULE UniqueIDGenerator -------------------------
(***************************************************************************)
(* UniqueIDGenerator (id_manager/IDGenerator.h): hands out a fresh NameID  *)
(* for each new name string, keeping name -> id in the table idFinder_.    *)
(* conv holds mutex_ for its whole body, so each call is one step.  A      *)
(* restart reconstructs the generator from idFinder_, which survives it;   *)
(* the constructor sets newID_ to the largest stored id plus one.          *)
(*                                                                         *)
(* NameID is an unsigned integer of W bits, so newID_++ wraps at 2^W.      *)
(* MinID and MaxID are the template arguments MinValueID and MaxValueID.   *)
(* Nothing stops a caller after an OUT_OF_BOUND exception: every later     *)
(* call for a new name takes newID_ and increments it again.               *)
(***************************************************************************)
EXTENDS Naturals, FiniteSets, FiniteSetsExt

CONSTANTS
    Names,       \* name strings (model values)
    W,           \* bit width of NameID
    MinID,       \* MinValueID
    MaxID,       \* MaxValueID
    None         \* no id stored / no id handed out in this step

Ids == 0..(2^W - 1)

ASSUME MinID \in Ids /\ MaxID \in Ids /\ MinID <= MaxID

VARIABLES
    store,      \* idFinder_: name -> id, None if absent
    newID,      \* newID_
    issued,     \* history: every id conv has handed out
    lastIssued  \* history: the id handed out by the last step, or None

vars == <<store, newID, issued, lastIssued>>

(* newID_++ on a W-bit unsigned integer.                                   *)
Inc(x) == (x + 1) % (2^W)

(* The constructor's newID_: MinValueID for an empty table, else the      *)
(* largest stored id plus one.                                             *)
Recovered(s) ==
    LET ids == {s[n] : n \in {m \in Names : s[m] # None}}
    IN IF ids = {} THEN MinID ELSE Inc(Max({MinID} \cup ids))

(* The common tail of both conv overloads for a name that must get a new  *)
(* id: take newID_, increment it, throw OUT_OF_BOUND if it now exceeds    *)
(* maxID_ (newID_ stays incremented), else store the taken id.            *)
AssignNewID(n) ==
    /\ newID' = Inc(newID)
    /\ IF Inc(newID) > MaxID
       THEN /\ lastIssued' = None
            /\ UNCHANGED <<store, issued>>
       ELSE /\ store' = [store EXCEPT ![n] = newID]
            /\ issued' = issued \cup {newID}
            /\ lastIssued' = newID

(* conv(nameString, nameID, insert = true): a known name returns its id;  *)
(* an unknown one gets a new id.                                           *)
ConvInsert(n) ==
    \/ /\ store[n] # None
       /\ lastIssued' = None
       /\ UNCHANGED <<store, newID, issued>>
    \/ /\ store[n] = None
       /\ AssignNewID(n)

(* conv(nameString, oldID, updatedID): an unknown name returns false with *)
(* oldID = 0; a known one is given a new id in place of its old one.      *)
ConvUpdate(n) ==
    \/ /\ store[n] = None
       /\ lastIssued' = None
       /\ UNCHANGED <<store, newID, issued>>
    \/ /\ store[n] # None
       /\ AssignNewID(n)

(* The process restarts: the constructor runs over the stored table.      *)
Restart ==
    /\ newID' = Recovered(store)
    /\ lastIssued' = None
    /\ UNCHANGED <<store, issued>>

Init ==
    /\ store = [n \in Names |-> None]
    /\ newID = MinID
    /\ issued = {}
    /\ lastIssued = None

Next ==
    \/ \E n \in Names : ConvInsert(n) \/ ConvUpdate(n)
    \/ Restart

Spec == Init /\ [][Next]_vars

(***************************************************************************)
(* Properties                                                              *)
(***************************************************************************)

TypeOK ==
    /\ store \in [Names -> Ids \cup {None}]
    /\ newID \in Ids
    /\ issued \subseteq Ids
    /\ lastIssued \in Ids \cup {None}

(* conv never hands out an id it handed out before, across updates,       *)
(* OUT_OF_BOUND exceptions and restarts: ids are unique, as the           *)
(* generator's name promises.                                              *)
NeverReissued ==
    [][lastIssued' # None => lastIssued' \notin issued]_vars

=============================================================================
