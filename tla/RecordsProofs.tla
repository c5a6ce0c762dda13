------------------------------ MODULE RecordsProofs ------------------------------
(* Proofs about Records for any number of calls and ids: the records implement    *)
(* RecordStore, and answers are up to date.                                       *)
EXTENDS Records, FiniteSetTheorems, TLAPS

Begun(c) == pc[c] \notin {"none", "called"}

\* Every record's object is its own: that of the record there was at first, or
\* that of a write to this id.
OwnObjects ==
    /\ \A id \in Stored : store[id] = id
    /\ \A id \in Ids \ Stored : store[id] # None =>
          /\ store[id] \in Calls
          /\ request[store[id]].kind = "write" /\ request[store[id]].id = id
          /\ Begun(store[id])

\* Where a call may be, and what it has got hold of then.
StageOf(c) ==
    /\ ~Begun(c) => /\ content[c] = [f \in Fields |-> Blank]
                    /\ seen[c] = [f \in Fields |-> None]
    /\ request[c].kind = "list" => pc[c] \in {"none", "called", "listing", "done", "failed"}
    /\ request[c].kind # "list" => pc[c] \in {"none", "called", "open", "done", "missing"}
    /\ request[c].kind = "write" => pc[c] # "missing"
    /\ request[c].kind = "write" /\ Begun(c) => store[request[c].id] # None
    /\ request[c].kind = "write" /\ pc[c] = "done" => todo[c] = {}
    /\ pc[c] = "open" => record[c] = store[request[c].id] /\ record[c] # None
    /\ request[c].kind # "list" /\ pc[c] = "done" => \A f \in Fields : seen[c][f] # None

Stages == \A c \in Calls : StageOf(c)

\* earlier is about the past.
History == \A c \in Calls : c \notin earlier[c] /\ \A d \in earlier[c] : Ended(d)

Assigned(w, f) == /\ request[w].kind = "write" /\ f \in request[w].fields
                  /\ Begun(w) /\ f \notin todo[w]

\* A field that a write has assigned holds nothing from before that write.
Fresh ==
    \A w \in Calls, f \in Fields :
        Assigned(w, f) => ~OlderThan(content[store[request[w].id]][f], w)

SeenFresh ==
    \A c \in Calls : request[c].kind # "list" =>
        \A f \in Fields, w \in earlier[c] \cup {c} :
            seen[c][f] # None /\ Wrote(w, request[c].id, f) => ~OlderThan(seen[c][f], w)

MissingIsNew ==
    \A c \in Calls : pc[c] = "missing" =>
        /\ request[c].id \notin Stored
        /\ \A w \in earlier[c] :
              request[w].kind = "write" => request[w].id # request[c].id

\* A write that overlaps the list c and may have created a record.
Created(c) == \E w \in Calls \ earlier[c] :
                 request[w].kind = "write" /\ request[w].id \notin Stored /\ Begun(w)

Listing ==
    \A c \in Calls :
        /\ ~Begun(c) => listed[c] = {}
        /\ pc[c] = "listing" => listed[c] \subseteq StoredIds /\ (SameSize(c) \/ Created(c))

IInv == /\ TypeOK /\ OwnObjects /\ Stages /\ History /\ Fresh /\ SeenFresh
        /\ MissingIsNew /\ Listing /\ ListIsWholeOrFails

LEMMA RequestShapes ==
    ASSUME NEW r \in Requests
    PROVE  /\ r.kind \in {"write", "read", "list"}
           /\ r.kind = "write" => r.id \in Ids /\ r.fields \in SUBSET Fields
           /\ r.kind = "read" => r.id \in Ids
BY DEF Requests

LEMMA SizeIsNatural == Cardinality(StoredIds) \in Nat
BY FS_Subset, FS_CardinalityType, RecordsAssumption DEF StoredIds

LEMMA InitIInv == Init => IInv
<1> SUFFICES ASSUME Init PROVE IInv
    OBVIOUS
<1> USE RecordsAssumption, RequestShapes DEF Init, Ended, Begun
<1>1. TypeOK
      BY DEF TypeOK, Objects, Values
<1>2. OwnObjects /\ Stages /\ History
      BY DEF OwnObjects, Stages, StageOf, History, Objects
<1>3. Fresh /\ SeenFresh /\ MissingIsNew /\ Listing /\ ListIsWholeOrFails
      BY DEF Fresh, SeenFresh, MissingIsNew, Listing, ListIsWholeOrFails, Assigned
<1> QED BY <1>1, <1>2, <1>3 DEF IInv

LEMMA TypeStep == IInv /\ [Next]_vars => TypeOK'
<1> SUFFICES ASSUME IInv, [Next]_vars PROVE TypeOK'
    OBVIOUS
<1> USE RecordsAssumption, RequestShapes DEF IInv, TypeOK, Goto, Values, Objects
<1>1. ASSUME NEW c \in Calls, Call(c) PROVE TypeOK'
      BY <1>1 DEF Call, locals
<1>2. ASSUME NEW c \in Calls, SetDefault(c) PROVE TypeOK'
      BY <1>2 DEF SetDefault
<1>3. ASSUME NEW c \in Calls, Assign(c) PROVE TypeOK'
  <2>1. record[c] \in Objects
        BY <1>3 DEF Assign, Stages, StageOf
  <2> QED BY <1>3, <2>1 DEF Assign, Fields
<1>4. ASSUME NEW c \in Calls, Find(c) PROVE TypeOK'
      BY <1>4 DEF Find
<1>5. ASSUME NEW c \in Calls, ReadField(c) PROVE TypeOK'
  <2>1. record[c] \in Objects
        BY <1>5 DEF ReadField, Stages, StageOf
  <2> QED BY <1>5, <2>1 DEF ReadField
<1>6. ASSUME NEW c \in Calls, BeginList(c) PROVE TypeOK'
      BY <1>6, SizeIsNatural DEF BeginList
<1>7. ASSUME NEW c \in Calls, NextRecord(c) PROVE TypeOK'
      BY <1>7 DEF NextRecord, StoredIds
<1>8. ASSUME NEW c \in Calls, EndList(c) PROVE TypeOK'
      BY <1>8 DEF EndList, locals
<1>9. CASE UNCHANGED vars
      BY <1>9 DEF vars, locals
<1> QED BY <1>1, <1>2, <1>3, <1>4, <1>5, <1>6, <1>7, <1>8, <1>9 DEF Next

\* The object a call holds belongs to its id and to no other.
LEMMA ObjectIsOwn ==
    ASSUME IInv, NEW i \in Ids, NEW j \in Ids, store[i] # None, store[i] = store[j]
    PROVE  i = j
BY RecordsAssumption DEF IInv, OwnObjects

\* Objects stay where they are, and a call that has ended stays ended.
LEMMA NothingIsUndone ==
    ASSUME IInv, Next
    PROVE  /\ \A id \in Ids : store[id] # None => store'[id] = store[id]
           /\ \A c \in Calls : Ended(c) => Ended(c)'
           /\ \A c \in Calls : Begun(c) => Begun(c)'
<1> USE DEF IInv, TypeOK, Goto, Ended, Begun
<1>1. ASSUME NEW c \in Calls, SetDefault(c)
      PROVE  \A id \in Ids : store[id] # None => store'[id] = store[id]
      BY <1>1, RequestShapes DEF SetDefault
<1>2. (\E c \in Calls : SetDefault(c)) \/ store' = store
      BY DEF Next, Call, Assign, Find, ReadField, BeginList, NextRecord, EndList
<1>3. ASSUME NEW c \in Calls,
             Call(c) \/ SetDefault(c) \/ Assign(c) \/ Find(c) \/ ReadField(c)
             \/ BeginList(c) \/ NextRecord(c) \/ EndList(c)
      PROVE  \A d \in Calls : (Ended(d) => Ended(d)') /\ (Begun(d) => Begun(d)')
      BY <1>3 DEF Call, SetDefault, Assign, Find, ReadField, BeginList, NextRecord, EndList
<1> QED BY <1>1, <1>2, <1>3 DEF Next

LEMMA OwnObjectsStep == IInv /\ [Next]_vars => OwnObjects'
<1> SUFFICES ASSUME IInv, [Next]_vars PROVE OwnObjects'
    OBVIOUS
<1> USE RecordsAssumption DEF IInv, TypeOK, OwnObjects
<1>1. ASSUME NEW c \in Calls, SetDefault(c) PROVE OwnObjects'
      BY <1>1, RequestShapes DEF SetDefault, Goto, Begun
<1>2. ASSUME Next, store' = store PROVE OwnObjects'
  <2>1. request' = request
        BY <1>2 DEF Next, Call, SetDefault, Assign, Find, ReadField, BeginList, NextRecord, EndList
  <2> QED BY <1>2, <2>1, NothingIsUndone
<1>3. CASE UNCHANGED vars
      BY <1>3 DEF vars, Begun
<1> QED BY <1>1, <1>2, <1>3 DEF Next, Call, Assign, Find, ReadField, BeginList, NextRecord, EndList

LEMMA StagesStep == IInv /\ [Next]_vars => Stages' /\ History'
<1> SUFFICES ASSUME IInv, [Next]_vars PROVE Stages' /\ History'
    OBVIOUS
<1> USE RecordsAssumption, RequestShapes DEF IInv, TypeOK, Goto, Objects, Stages, StageOf,
        History, Begun, Ended
<1>1. ASSUME NEW c \in Calls, Call(c) PROVE Stages' /\ History'
      BY <1>1 DEF Call, locals
<1>2. ASSUME NEW c \in Calls, SetDefault(c) PROVE Stages' /\ History'
      BY <1>2 DEF SetDefault
<1>3. ASSUME NEW c \in Calls, Assign(c) PROVE Stages' /\ History'
  <2>1. /\ pc[c] = "open" /\ request[c].id \in Ids /\ request[c].kind # "list"
        /\ record[c] = store[request[c].id] /\ record[c] # None
        BY <1>3 DEF Assign
  <2>2. record[c] \in Calls => Begun(record[c])
        BY <2>1 DEF OwnObjects
  <2>3. \A d \in Calls : ~Begun(d) => content'[d] = content[d]
        BY <1>3, <2>2 DEF Assign
  <2>4. UNCHANGED <<store, request, pc, record, seen, earlier>>
        BY <1>3 DEF Assign
  <2>5. \A d \in Calls : todo[d] = {} => todo'[d] = {}
        BY <1>3 DEF Assign
  <2> QED BY <2>3, <2>4, <2>5
<1>4. ASSUME NEW c \in Calls, Find(c) PROVE Stages' /\ History'
      BY <1>4 DEF Find
<1>5. ASSUME NEW c \in Calls, ReadField(c) PROVE Stages' /\ History'
  <2>1. /\ pc[c] = "open" /\ todo[c] = {} /\ pc'[c] \in {"open", "done"}
        /\ pc'[c] = "done" => \A f \in Fields : seen'[c][f] # None
        /\ \A d \in Calls : d # c => pc'[d] = pc[d] /\ seen'[d] = seen[d]
        BY <1>5 DEF ReadField
  <2>2. UNCHANGED <<store, content, request, record, todo, earlier>>
        BY <1>5 DEF ReadField
  <2>3. StageOf(c)'
        BY <2>1, <2>2
  <2>4. ASSUME NEW d \in Calls, d # c PROVE StageOf(d)'
        BY <2>1, <2>2, <2>4
  <2>5. History'
        BY <1>5, <2>2, NothingIsUndone DEF Next
  <2> QED BY <2>3, <2>4, <2>5
<1>6. ASSUME NEW c \in Calls, BeginList(c) \/ NextRecord(c) \/ EndList(c)
      PROVE  Stages' /\ History'
  <2>1. /\ \/ request[c].kind = "list" /\ pc[c] = "called" /\ pc'[c] = "listing"
           \/ pc[c] = "listing" /\ pc'[c] \in {"listing", "done", "failed"}
        /\ \A d \in Calls : d # c => pc'[d] = pc[d]
        BY <1>6 DEF BeginList, NextRecord, EndList
  <2>2. UNCHANGED <<store, content, request, record, todo, seen, earlier>>
        BY <1>6 DEF BeginList, NextRecord, EndList, locals
  <2>3. StageOf(c)'
        BY <2>1, <2>2
  <2>4. ASSUME NEW d \in Calls, d # c PROVE StageOf(d)'
        BY <2>1, <2>2, <2>4
  <2>5. History'
        BY <1>6, <2>2, NothingIsUndone DEF Next
  <2> QED BY <2>3, <2>4, <2>5
<1>7. CASE UNCHANGED vars
      BY <1>7 DEF vars, locals
<1> QED BY <1>1, <1>2, <1>3, <1>4, <1>5, <1>6, <1>7 DEF Next

LEMMA FreshStep == IInv /\ [Next]_vars => Fresh'
<1> SUFFICES ASSUME IInv, [Next]_vars, NEW w \in Calls, NEW f \in Fields, Assigned(w, f)'
             PROVE  ~OlderThan(content[store[request[w].id]][f], w)'
    BY DEF Fresh
<1> USE RecordsAssumption, RequestShapes DEF IInv, TypeOK, Goto, Fresh, Assigned, OlderThan
<1>1. ASSUME NEW c \in Calls, Call(c)
      PROVE  ~OlderThan(content[store[request[w].id]][f], w)'
      BY <1>1 DEF Call, locals, Begun
<1>2. ASSUME NEW c \in Calls, SetDefault(c)
      PROVE  ~OlderThan(content[store[request[w].id]][f], w)'
  <2>1. w # c /\ Assigned(w, f)
        BY <1>2 DEF SetDefault, Begun
  <2>2. store[request[w].id] # None /\ request[w].id \in Ids
        BY <2>1 DEF Stages, StageOf
  <2>3. store'[request[w].id] = store[request[w].id]
        BY <1>2, <2>2 DEF SetDefault
  <2> QED BY <1>2, <2>1, <2>3 DEF SetDefault
<1>3. ASSUME NEW c \in Calls, Assign(c)
      PROVE  ~OlderThan(content[store[request[w].id]][f], w)'
  <2>1. /\ pc[c] = "open" /\ record[c] = store[request[c].id] /\ record[c] \in Objects
        /\ UNCHANGED <<store, request, pc, earlier>>
        BY <1>3 DEF Assign, Stages, StageOf
  <2>2. PICK g \in Fields : /\ content' = [content EXCEPT ![record[c]][g] = c]
                            /\ todo' = [todo EXCEPT ![c] = @ \ {g}]
        BY <1>3 DEF Assign, Fields
  <2>3. c \notin earlier[w]
        BY <2>1 DEF History, Ended
  <2>4. CASE store[request[w].id] = record[c] /\ f = g
        BY <2>1, <2>2, <2>3, <2>4
  <2>5. CASE ~(store[request[w].id] = record[c] /\ f = g)
    <3>1. Assigned(w, f)
          BY <2>1, <2>2, <2>5 DEF Begun
    <3>2. store[request[w].id] \in Objects
          BY <3>1 DEF Stages, StageOf
    <3> QED BY <2>1, <2>2, <2>5, <3>1, <3>2
  <2> QED BY <2>4, <2>5
<1>4. ASSUME NEW c \in Calls,
             Find(c) \/ ReadField(c) \/ BeginList(c) \/ NextRecord(c) \/ EndList(c)
      PROVE  ~OlderThan(content[store[request[w].id]][f], w)'
  <2>1. UNCHANGED <<store, content, request, todo, earlier>>
        BY <1>4 DEF Find, ReadField, BeginList, NextRecord, EndList, locals
  <2>2. request[w].kind = "write" /\ Begun(w)' => Begun(w)
        BY <1>4 DEF Find, ReadField, BeginList, NextRecord, EndList, Begun
  <2> QED BY <2>1, <2>2
<1>5. CASE UNCHANGED vars
      BY <1>5 DEF vars, locals, Begun
<1> QED BY <1>1, <1>2, <1>3, <1>4, <1>5 DEF Next

LEMMA SeenFreshStep == IInv /\ [Next]_vars => SeenFresh'
<1> SUFFICES ASSUME IInv, [Next]_vars, NEW c \in Calls, request'[c].kind # "list",
                    NEW f \in Fields, NEW w \in earlier'[c] \cup {c},
                    seen'[c][f] # None, Wrote(w, request[c].id, f)'
             PROVE  ~OlderThan(seen[c][f], w)'
    BY DEF SeenFresh
<1> USE RecordsAssumption, RequestShapes DEF IInv, TypeOK, Goto, OlderThan, Wrote
<1>1. ASSUME NEW d \in Calls, Call(d) PROVE ~OlderThan(seen[c][f], w)'
  <2>1. c # d
        BY <1>1 DEF Call, locals, Stages, StageOf, Begun
  <2>2. w # d
        BY <1>1, <2>1 DEF Call, History, Ended
  <2> QED BY <1>1, <2>1, <2>2 DEF Call, locals, SeenFresh
<1>2. ASSUME NEW d \in Calls, ReadField(d) PROVE ~OlderThan(seen[c][f], w)'
  <2>1. UNCHANGED <<store, content, request, earlier>>
        BY <1>2 DEF ReadField
  <2>2. PICK g \in Fields : seen' = [seen EXCEPT ![d][g] = content[record[d]][g]]
        BY <1>2 DEF ReadField
  <2>3. CASE c = d /\ f = g
    <3>1. pc[c] = "open" /\ todo[c] = {} /\ record[c] = store[request[c].id]
          BY <1>2, <2>3 DEF ReadField, Stages, StageOf
    <3>2. w \in Calls /\ Begun(w) /\ todo[w] = {}
          BY <2>1, <3>1 DEF History, Ended, Begun, Stages, StageOf
    <3>3. ~OlderThan(content[store[request[w].id]][f], w)
          BY <2>1, <3>2 DEF Fresh, Assigned
    <3>4. seen'[c][f] = content[store[request[w].id]][f]
          BY <2>1, <2>2, <2>3, <3>1
    <3> QED BY <2>1, <3>3, <3>4
  <2>4. CASE ~(c = d /\ f = g)
        BY <2>1, <2>2, <2>4 DEF SeenFresh
  <2> QED BY <2>3, <2>4
<1>3. ASSUME UNCHANGED <<request, seen, earlier>> PROVE ~OlderThan(seen[c][f], w)'
      BY <1>3 DEF SeenFresh
<1> QED BY <1>1, <1>2, <1>3 DEF Next, SetDefault, Assign, Find, BeginList, NextRecord,
           EndList, vars, locals

LEMMA MissingStep == IInv /\ [Next]_vars => MissingIsNew'
<1> SUFFICES ASSUME IInv, [Next]_vars, NEW c \in Calls, pc'[c] = "missing"
             PROVE  /\ request'[c].id \notin Stored
                    /\ \A w \in earlier'[c] :
                          request'[w].kind = "write" => request'[w].id # request'[c].id
    BY DEF MissingIsNew
<1>1. request' = request
      BY DEF Next, Call, SetDefault, Assign, Find, ReadField, BeginList, NextRecord, EndList, vars
<1>2. earlier'[c] = earlier[c]
      BY DEF IInv, TypeOK, Goto, Next, Call, SetDefault, Assign, Find, ReadField, BeginList,
         NextRecord, EndList, vars, locals
<1>3. CASE pc[c] = "missing"
      BY <1>1, <1>2, <1>3 DEF IInv, MissingIsNew
<1>4. CASE pc[c] # "missing"
  <2>1. Find(c)
        BY <1>4 DEF IInv, TypeOK, Goto, Next, Call, SetDefault, Assign, Find, ReadField,
           BeginList, NextRecord, EndList, vars
  <2>2. request[c].id \in Ids /\ store[request[c].id] = None
        BY <2>1, RequestShapes DEF Find, Goto, IInv, TypeOK
  <2>3. request[c].id \notin Stored
        BY <2>2, RecordsAssumption DEF IInv, OwnObjects
  <2>4. ASSUME NEW w \in earlier[c], request[w].kind = "write"
        PROVE  request[w].id # request[c].id
    <3>1. w \in Calls /\ Begun(w)
          BY <2>4 DEF IInv, TypeOK, History, Ended, Begun
    <3> QED BY <2>2, <2>4, <3>1 DEF IInv, Stages, StageOf
  <2> QED BY <1>1, <1>2, <2>3, <2>4
<1> QED BY <1>3, <1>4

\* How a call's iteration is seen to go: its record of it changes only in its own
\* steps, and a record that is created shows.
LEMMA ListFrame ==
    ASSUME IInv, [Next]_vars, NEW c \in Calls, Begun(c)
    PROVE  /\ request' = request /\ earlier'[c] = earlier[c] /\ size'[c] = size[c]
           /\ StoredIds \subseteq StoredIds'
           /\ Created(c) => Created(c)'
           /\ StoredIds' = StoredIds \/ Created(c)'
<1> USE RecordsAssumption DEF IInv, TypeOK, Goto
<1>1. request' = request /\ earlier'[c] = earlier[c] /\ size'[c] = size[c]
      BY DEF Begun, Next, Call, SetDefault, Assign, Find, ReadField, BeginList,
         NextRecord, EndList, vars, locals
<1>2. \A d \in Calls : Begun(d) => Begun(d)'
      BY NothingIsUndone DEF vars, Begun
<1>3. Created(c) => Created(c)'
      BY <1>1, <1>2 DEF Created
<1>4. ASSUME NEW d \in Calls, SetDefault(d)
      PROVE  StoredIds \subseteq StoredIds' /\ (StoredIds' = StoredIds \/ Created(c)')
  <2>1. request[d].kind = "write" /\ request[d].id \in Ids /\ Begun(d)'
        BY <1>4, RequestShapes DEF SetDefault, Begun
  <2>2. d \notin earlier'[c]
        BY <1>1, <1>4 DEF SetDefault, History, Ended
  <2>3. CASE store[request[d].id] # None
        BY <1>4, <2>1, <2>3 DEF SetDefault, StoredIds
  <2>4. CASE store[request[d].id] = None
    <3>1. request[d].id \notin Stored
          BY <2>1, <2>4 DEF OwnObjects
    <3>2. Created(c)'
          BY <1>1, <2>1, <2>2, <3>1 DEF Created
    <3> QED BY <1>4, <2>1, <3>2 DEF SetDefault, StoredIds
  <2> QED BY <2>3, <2>4
<1>5. store' = store => StoredIds' = StoredIds
      BY DEF StoredIds
<1> QED BY <1>1, <1>3, <1>4, <1>5 DEF Next, Call, Assign, Find, ReadField, BeginList,
           NextRecord, EndList, vars

LEMMA ListingStep == IInv /\ [Next]_vars => Listing'
<1> SUFFICES ASSUME IInv, [Next]_vars, NEW c \in Calls
             PROVE  /\ ~Begun(c)' => listed'[c] = {}
                    /\ pc'[c] = "listing" =>
                          listed'[c] \subseteq StoredIds' /\ (SameSize(c)' \/ Created(c)')
    BY DEF Listing
<1> USE DEF IInv, TypeOK, Goto
<1>1. CASE pc[c] = "listing"
  <2>1. Begun(c)
        BY <1>1 DEF Begun
  <2>2. /\ StoredIds \subseteq StoredIds' /\ size'[c] = size[c]
        /\ Created(c) => Created(c)'
        /\ StoredIds' = StoredIds \/ Created(c)'
        BY <2>1, ListFrame
  <2>3. SameSize(c)' \/ Created(c)'
        BY <1>1, <2>2 DEF Listing, SameSize
  <2>4. listed'[c] \subseteq StoredIds'
    <3>1. CASE listed'[c] = listed[c]
          BY <1>1, <2>2, <3>1 DEF Listing
    <3>2. CASE NextRecord(c)
      <4>1. PICK id \in StoredIds : listed'[c] = listed[c] \cup {id}
            BY <3>2 DEF NextRecord
      <4> QED BY <1>1, <2>2, <4>1 DEF Listing
    <3>3. listed'[c] = listed[c] \/ NextRecord(c)
          BY DEF Next, Call, SetDefault, Assign, Find, ReadField, BeginList, NextRecord,
             EndList, vars, locals
    <3> QED BY <3>1, <3>2, <3>3
  <2>5. Begun(c)'
        BY <2>1, NothingIsUndone DEF vars, Begun
  <2> QED BY <2>3, <2>4, <2>5
<1>2. CASE pc[c] # "listing"
  <2>1. listed'[c] = listed[c] /\ (~Begun(c)' => ~Begun(c))
        BY <1>2, NothingIsUndone DEF Next, Call, SetDefault, Assign, Find, ReadField,
           BeginList, NextRecord, EndList, vars, locals, Begun
  <2>2. ASSUME pc'[c] = "listing"
        PROVE  BeginList(c)
        BY <1>2, <2>2 DEF Next, Call, SetDefault, Assign, Find, ReadField,
           BeginList, NextRecord, EndList, vars
  <2>3. ASSUME BeginList(c)
        PROVE  ~Begun(c) /\ SameSize(c)'
        BY <2>3 DEF BeginList, Begun, SameSize, StoredIds
  <2> QED BY <2>1, <2>2, <2>3 DEF Listing
<1> QED BY <1>1, <1>2

LEMMA WholeStep == IInv /\ [Next]_vars => ListIsWholeOrFails'
<1> USE RecordsAssumption DEF IInv, TypeOK, Goto
<1> DEFINE Whole(c) == /\ Cardinality(listed[c]) = size[c]
                       /\ Stored \subseteq listed[c]
                       /\ \A w \in earlier[c] :
                             request[w].kind = "write" => request[w].id \in listed[c]
           Due(c) == request[c].kind = "list" =>
                        /\ pc[c] = "done" => Whole(c)
                        /\ pc[c] = "failed" => Created(c)
<1>1. ListIsWholeOrFails => \A c \in Calls : Due(c)
      BY DEF ListIsWholeOrFails, Created, Begun
<1>2. (\A c \in Calls : Due(c)') => ListIsWholeOrFails'
      BY DEF ListIsWholeOrFails, Created, Begun
<1>3. ASSUME IInv, [Next]_vars, NEW c \in Calls, request[c].kind = "list",
             pc'[c] \in {"done", "failed"}
      PROVE  (pc'[c] = "done" => Whole(c)') /\ (pc'[c] = "failed" => Created(c)')
  <2>1. pc[c] = pc'[c] \/ EndList(c)
    <3>1. CASE \E d \in Calls : EndList(d)
      <4>1. PICK d \in Calls : EndList(d)
            BY <3>1
      <4>2. d # c => pc'[c] = pc[c]
            BY <1>3, <4>1 DEF EndList
      <4> QED BY <4>1, <4>2
    <3>2. CASE \E d \in Calls : ReadField(d)
          BY <1>3, <3>2 DEF ReadField, Stages, StageOf
    <3> QED BY <1>3, <3>1, <3>2 DEF Next, Call, SetDefault, Assign, Find, BeginList,
               NextRecord, vars
  <2>2. CASE EndList(c)
    <3>1. Begun(c) /\ UNCHANGED <<store, request, listed, size, earlier>>
          BY <2>2 DEF EndList, Begun, locals
    <3>2. ASSUME pc'[c] = "done" PROVE Whole(c)
      <4>1. SameSize(c) /\ listed[c] = StoredIds
            BY <1>3, <2>2, <3>2 DEF EndList
      <4>2. Stored \subseteq StoredIds
            BY <1>3 DEF OwnObjects, StoredIds
      <4>3. \A w \in earlier[c] : request[w].kind = "write" => request[w].id \in StoredIds
            BY <1>3, RequestShapes DEF History, Ended, Begun, Stages, StageOf, StoredIds
      <4> QED BY <4>1, <4>2, <4>3 DEF SameSize
    <3>3. ASSUME pc'[c] = "failed" PROVE Created(c)
          BY <1>3, <2>2, <3>3 DEF EndList, Listing
    <3>4. Created(c) => Created(c)'
          BY <1>3, <3>1, ListFrame
    <3> QED BY <3>1, <3>2, <3>3, <3>4
  <2>3. CASE pc[c] = pc'[c]
    <3>1. Begun(c) /\ pc[c] \in {"done", "failed"}
          BY <1>3, <2>3 DEF Begun
    <3>2. listed'[c] = listed[c]
          BY <1>3, <3>1 DEF Next, Call, SetDefault, Assign, Find, ReadField,
             BeginList, NextRecord, EndList, vars, locals
    <3>3. /\ request' = request /\ earlier'[c] = earlier[c] /\ size'[c] = size[c]
          /\ Created(c) => Created(c)'
          BY <1>3, <3>1, ListFrame
    <3> QED BY <1>1, <1>3, <2>3, <3>1, <3>2, <3>3
  <2> QED BY <2>1, <2>2, <2>3
<1>4. ASSUME [Next]_vars PROVE request' = request
      BY <1>4 DEF Next, Call, SetDefault, Assign, Find, ReadField, BeginList, NextRecord,
         EndList, vars
<1> QED BY <1>2, <1>3, <1>4

LEMMA Invariance == Spec => []IInv
<1>1. IInv /\ [Next]_vars => IInv'
      BY TypeStep, OwnObjectsStep, StagesStep, FreshStep, SeenFreshStep, MissingStep,
         ListingStep, WholeStep DEF IInv
<1> QED BY <1>1, InitIInv, PTL DEF Spec

\* Type correctness of Records.
THEOREM RecordsTypeOK == Spec => []TypeOK
<1>1. IInv => TypeOK
      BY DEF IInv
<1> QED BY <1>1, Invariance, PTL

\* app.py:100-106: whatever the number of calls, an answer holds nothing from
\* before a write that had ended when the call was made, or from before its own.
THEOREM AnswersStayUpToDate == Spec => []AnswersAreUpToDate
<1>1. IInv => AnswersAreUpToDate
      BY DEF IInv, Stages, StageOf, SeenFresh, MissingIsNew, AnswersAreUpToDate
<1> QED BY <1>1, Invariance, PTL

\* app.py:80: a list is whole, or it fails because of a write that overlaps it.
THEOREM ListsAreWholeOrFail == Spec => []ListIsWholeOrFails
<1>1. IInv => ListIsWholeOrFails
      BY DEF IInv
<1> QED BY <1>1, Invariance, PTL

-----------------------------------------------------------------------------
RecordsSeen == [id \in Ids |-> IF store[id] = None THEN None ELSE content[store[id]]]

LEMMA InitRefines == Init => Abstract!Init
<1> SUFFICES ASSUME Init PROVE Abstract!Init
    OBVIOUS
<1>1. ASSUME NEW id \in Ids
      PROVE  RecordsSeen[id] = IF id \in Stored THEN [f \in Fields |-> Old] ELSE None
      BY <1>1, RecordsAssumption DEF Init, RecordsSeen, Objects
<1> QED BY <1>1 DEF Abstract!Init, RecordsSeen

LEMMA StepRefines == IInv /\ [Next]_vars => Abstract!Next \/ RecordsSeen' = RecordsSeen
<1> SUFFICES ASSUME IInv, [Next]_vars PROVE Abstract!Next \/ RecordsSeen' = RecordsSeen
    OBVIOUS
<1> USE RecordsAssumption DEF IInv, TypeOK, Goto, RecordsSeen
<1>1. ASSUME NEW c \in Calls, SetDefault(c)
      PROVE  Abstract!Next \/ RecordsSeen' = RecordsSeen
  <2>1. request[c].id \in Ids /\ content[c] = [f \in Fields |-> Blank]
        BY <1>1, RequestShapes DEF SetDefault, Stages, StageOf, Begun
  <2>2. CASE store[request[c].id] # None
        BY <1>1, <2>1, <2>2 DEF SetDefault
  <2>3. CASE store[request[c].id] = None
    <3>1. store' = [store EXCEPT ![request[c].id] = c] /\ content' = content /\ c # None
          BY <1>1, <2>3 DEF SetDefault
    <3>2. RecordsSeen' = [RecordsSeen EXCEPT ![request[c].id] = [f \in Fields |-> Blank]]
          BY <2>1, <3>1
    <3>3. RecordsSeen[request[c].id] = None
          BY <2>1, <2>3
    <3> QED BY <2>1, <3>2, <3>3 DEF Abstract!Next, Abstract!Create
  <2> QED BY <2>2, <2>3
<1>2. ASSUME NEW c \in Calls, Assign(c)
      PROVE  Abstract!Next
  <2>1. /\ request[c].id \in Ids /\ store' = store
        /\ record[c] = store[request[c].id] /\ record[c] # None /\ record[c] \in Objects
    <3>1. pc[c] = "open" /\ store' = store
          BY <1>2 DEF Assign
    <3>2. request[c].kind # "list" /\ record[c] = store[request[c].id] /\ record[c] # None
          BY <3>1 DEF Stages, StageOf
    <3>3. request[c].id \in Ids
          BY <3>2, RequestShapes
    <3> QED BY <3>1, <3>2, <3>3
  <2>2. PICK g \in Fields : content' = [content EXCEPT ![record[c]][g] = c]
        BY <1>2 DEF Assign, Fields
  <2>3. \A id \in Ids : id # request[c].id => store[id] # record[c]
        BY <2>1, ObjectIsOwn
  <2>4. RecordsSeen' = [RecordsSeen EXCEPT ![request[c].id][g] = c]
        BY <2>1, <2>2, <2>3
  <2>5. RecordsSeen[request[c].id] \in [Fields -> Values]
        BY <2>1
  <2> QED BY <2>1, <2>2, <2>4, <2>5 DEF Abstract!Next, Abstract!Set, Values
<1>3. ASSUME UNCHANGED <<store, content>> PROVE RecordsSeen' = RecordsSeen
      BY <1>3
<1> QED BY <1>1, <1>2, <1>3 DEF Next, Call, Find, ReadField, BeginList, NextRecord, EndList, vars

\* app.py:75-106: however the threads interleave, the records are a store in which
\* a record is created once, is never replaced, and changes one field at a time.
THEOREM RecordsAreAStore == Spec => StoreSpec
<1>1. Init => Abstract!Init
      BY InitRefines
<1>2. IInv /\ [Next]_vars => [Abstract!Next]_RecordsSeen
      BY StepRefines
<1> QED BY <1>1, <1>2, Invariance, PTL DEF Spec, StoreSpec, Abstract!Spec, RecordsSeen

==================================================================================
