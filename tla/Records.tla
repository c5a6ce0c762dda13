------------------------------- MODULE Records -------------------------------
(***************************************************************************)
(* The specialist's record store (src/agents/specialist/app.py) under        *)
(* concurrent calls.  FastAPI runs each endpoint in a worker thread, and the *)
(* interpreter may switch threads between any two operations on a            *)
(* dictionary; each single operation is atomic.  The answers of read and     *)
(* write hold the live record and are turned into JSON after the endpoint    *)
(* has returned, one field after the other.                                  *)
(*                                                                           *)
(* RECORDS maps an id to a record object, so that replacing an object and    *)
(* changing it are different things.  The object a call may create and the   *)
(* value it writes are named after the call.                                 *)
(***************************************************************************)
EXTENDS Integers, FiniteSets

CONSTANTS Calls,    \* each made once
          Ids,      \* record ids callers name
          Stored,   \* those of the records there are at first
          Old,      \* the value of a field of those
          Blank,    \* the value of a field in the literal of records_write
          None      \* no object, or a field not read

Fields == {"status", "subject"}
Objects == Calls \cup Stored
Values == Calls \cup {Old, Blank}

ASSUME RecordsAssumption ==
    /\ Stored \subseteq Ids /\ IsFiniteSet(Ids)
    /\ Calls \cap Ids = {}
    /\ None \notin Calls \cup Ids
    /\ {Old, Blank} \cap Calls = {}
    /\ None \notin {Old, Blank} \cup [Fields -> Values]

\* The bodies of the four endpoints.  records.summarise reads as records.read
\* does, only before it returns.
Requests ==
    [kind : {"write"}, id : Ids, fields : SUBSET Fields]
    \cup [kind : {"read"}, id : Ids]
    \cup [kind : {"list"}]

VARIABLES store,    \* RECORDS: the object of each id
          content,  \* the fields of each object
          request,  \* what each call asks for
          pc,       \* where it is
          record,   \* the object it has got hold of
          todo,     \* fields a write has still to assign
          seen,     \* fields in its answer so far
          listed,   \* ids a list has gone over
          size,     \* number of records when its iteration began
          earlier   \* history: the calls that had ended when a call was made

locals == <<record, todo, seen, listed, size>>
vars == <<store, content, request, pc, locals, earlier>>

Ended(c) == pc[c] \in {"done", "missing", "failed"}
StoredIds == {id \in Ids : store[id] # None}

Init ==
    /\ store = [id \in Ids |-> IF id \in Stored THEN id ELSE None]
    /\ content = [o \in Objects |-> [f \in Fields |-> IF o \in Stored THEN Old ELSE Blank]]
    /\ request \in [Calls -> Requests]
    /\ pc = [c \in Calls |-> "none"]
    /\ record = [c \in Calls |-> None]
    /\ todo = [c \in Calls |-> {}]
    /\ seen = [c \in Calls |-> [f \in Fields |-> None]]
    /\ listed = [c \in Calls |-> {}]
    /\ size = [c \in Calls |-> 0]
    /\ earlier = [c \in Calls |-> {}]

Goto(c, label) == pc' = [pc EXCEPT ![c] = label]

Call(c) ==
    /\ pc[c] = "none"
    /\ Goto(c, "called")
    /\ earlier' = [earlier EXCEPT ![c] = {d \in Calls : Ended(d)}]
    /\ UNCHANGED <<store, content, request, locals>>

\* Mutant: a look whether the record is there, and an assignment if it was not.
LookThenInsert(c) ==
    /\ request[c].kind = "write"
    /\ LET id == request[c].id
           Open(o) == /\ record' = [record EXCEPT ![c] = o]
                      /\ todo' = [todo EXCEPT ![c] = request[c].fields]
                      /\ Goto(c, "open")
       IN \/ pc[c] = "called" /\ store[id] # None /\ Open(store[id]) /\ UNCHANGED store
          \/ pc[c] = "called" /\ store[id] = None /\ Goto(c, "absent")
             /\ UNCHANGED <<store, record, todo>>
          \/ pc[c] = "absent" /\ store' = [store EXCEPT ![id] = c] /\ Open(c)
    /\ UNCHANGED <<content, request, seen, listed, size, earlier>>

\* records_write: setdefault, with a literal of its own.
SetDefault(c) ==
    /\ request[c].kind = "write" /\ pc[c] = "called"
    /\ LET id == request[c].id
       IN /\ store' = [store EXCEPT ![id] = IF @ = None THEN c ELSE @]
          /\ record' = [record EXCEPT ![c] = store'[id]]
    /\ todo' = [todo EXCEPT ![c] = request[c].fields]
    /\ Goto(c, "open")
    /\ UNCHANGED <<content, request, seen, listed, size, earlier>>

\* Mutant: fields are assigned without asking whether they are there.
AssignUnchecked(c) ==
    /\ pc[c] = "open" /\ todo[c] # {}
    /\ content' = [content EXCEPT ![record[c]] =
                      [f \in Fields |-> IF f \in todo[c] THEN c ELSE None]]
    /\ todo' = [todo EXCEPT ![c] = {}]
    /\ UNCHANGED <<store, request, pc, record, seen, listed, size, earlier>>

\* The status if there is one, then the subject if there is one.
Assign(c) ==
    /\ pc[c] = "open" /\ todo[c] # {}
    /\ LET f == IF "status" \in todo[c] THEN "status" ELSE "subject"
       IN /\ content' = [content EXCEPT ![record[c]][f] = c]
          /\ todo' = [todo EXCEPT ![c] = @ \ {f}]
    /\ UNCHANGED <<store, request, pc, record, seen, listed, size, earlier>>

\* records_read, records_summarise: RECORDS.get.
Find(c) ==
    /\ request[c].kind = "read" /\ pc[c] = "called"
    /\ record' = [record EXCEPT ![c] = store[request[c].id]]
    /\ Goto(c, IF record'[c] = None THEN "missing" ELSE "open")
    /\ UNCHANGED <<store, content, request, todo, seen, listed, size, earlier>>

\* The answer takes up one field of the record, in either order.
ReadField(c) ==
    /\ pc[c] = "open" /\ todo[c] = {}
    /\ \E f \in Fields :
          /\ seen[c][f] = None
          /\ seen' = [seen EXCEPT ![c][f] = content[record[c]][f]]
    /\ Goto(c, IF \A f \in Fields : seen'[c][f] # None THEN "done" ELSE "open")
    /\ UNCHANGED <<store, content, request, record, todo, listed, size, earlier>>

\* Mutant: an iteration that does not mind a change of size.
NeverResized(c) == TRUE

SameSize(c) == Cardinality(StoredIds) = size[c]

\* records_list: the iteration over RECORDS.values().
BeginList(c) ==
    /\ request[c].kind = "list" /\ pc[c] = "called"
    /\ size' = [size EXCEPT ![c] = Cardinality(StoredIds)]
    /\ Goto(c, "listing")
    /\ UNCHANGED <<store, content, request, record, todo, seen, listed, earlier>>

NextRecord(c) ==
    /\ pc[c] = "listing" /\ SameSize(c)
    /\ \E id \in StoredIds \ listed[c] : listed' = [listed EXCEPT ![c] = @ \cup {id}]
    /\ UNCHANGED <<store, content, request, pc, record, todo, seen, size, earlier>>

EndList(c) ==
    /\ pc[c] = "listing"
    /\ \/ ~SameSize(c) /\ Goto(c, "failed")
       \/ SameSize(c) /\ listed[c] = StoredIds /\ Goto(c, "done")
    /\ UNCHANGED <<store, content, request, locals, earlier>>

Next == \E c \in Calls : \/ Call(c)
                         \/ SetDefault(c) \/ Assign(c) \/ Find(c) \/ ReadField(c)
                         \/ BeginList(c) \/ NextRecord(c) \/ EndList(c)

Spec == Init /\ [][Next]_vars

-----------------------------------------------------------------------------
TypeOK ==
    /\ store \in [Ids -> Objects \cup {None}]
    /\ content \in [Objects -> [Fields -> Values]]
    /\ request \in [Calls -> Requests]
    /\ pc \in [Calls -> {"none", "called", "open", "listing", "done", "missing", "failed"}]
    /\ record \in [Calls -> Objects \cup {None}]
    /\ todo \in [Calls -> SUBSET Fields]
    /\ seen \in [Calls -> [Fields -> Values \cup {None}]]
    /\ listed \in [Calls -> SUBSET Ids]
    /\ size \in [Calls -> Nat]
    /\ earlier \in [Calls -> SUBSET Calls]

\* The records are the abstract store: whatever the threads do, each of their
\* steps creates one record, changes one field of one, or changes none.
Abstract == INSTANCE RecordStore WITH
    records <- [id \in Ids |-> IF store[id] = None THEN None ELSE content[store[id]]]

StoreSpec == Abstract!Spec

Wrote(w, id, f) == /\ request[w].kind = "write" /\ request[w].id = id
                   /\ f \in request[w].fields

\* The value v was there before w was called.
OlderThan(v, w) == v \notin Calls \/ v \in earlier[w]

\* app.py:100-106: an acknowledged write stays until another one replaces it.
\* No answer holds a field's value from before a write that had ended when the
\* call was made, nor from before the call's own.  So the fields of an answer
\* are of different writes only if these overlap each other or the call.  A
\* record that a write has answered for is found by every later call.
AnswersAreUpToDate ==
    \A c \in Calls : request[c].kind # "list" =>
        /\ pc[c] = "done" =>
              \A f \in Fields, w \in earlier[c] \cup {c} :
                  Wrote(w, request[c].id, f) => ~OlderThan(seen[c][f], w)
        /\ pc[c] = "missing" =>
              /\ request[c].id \notin Stored
              /\ \A w \in earlier[c] :
                    request[w].kind = "write" => request[w].id # request[c].id

\* app.py:80: a list is whole or fails.  A whole one has as many records as there
\* were when it began, those of every write that had ended among them; it fails
\* only if a write that overlaps it has created a record.
ListIsWholeOrFails ==
    \A c \in Calls : request[c].kind = "list" =>
        /\ pc[c] = "done" => /\ Cardinality(listed[c]) = size[c]
                             /\ Stored \subseteq listed[c]
                             /\ \A w \in earlier[c] :
                                   request[w].kind = "write" => request[w].id \in listed[c]
        /\ pc[c] = "failed" =>
              \E w \in Calls \ earlier[c] :
                  /\ request[w].kind = "write" /\ request[w].id \notin Stored
                  /\ pc[w] \notin {"none", "called"}
=============================================================================
