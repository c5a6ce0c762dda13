----------------------------- MODULE RecordStore -----------------------------
(***************************************************************************)
(* What the specialist's records are to those who use them: a record comes   *)
(* into being once, empty, and from then on changes one field at a time.     *)
(* No record disappears or is replaced.                                      *)
(***************************************************************************)
CONSTANTS Ids,      \* names a record may have
          Stored,   \* those of the records there are at first
          Fields,
          Values,   \* of a field; two of them are
          Old,      \*   that of the records there are at first
          Blank,    \*   that of a new record
          None

VARIABLE records

Init == records = [id \in Ids |-> IF id \in Stored THEN [f \in Fields |-> Old] ELSE None]

Create(id) ==
    /\ records[id] = None
    /\ records' = [records EXCEPT ![id] = [f \in Fields |-> Blank]]

Set(id, f, v) ==
    /\ records[id] # None
    /\ records' = [records EXCEPT ![id][f] = v]

Next == \E id \in Ids : Create(id) \/ \E f \in Fields, v \in Values : Set(id, f, v)

Spec == Init /\ [][Next]_records
==============================================================================
