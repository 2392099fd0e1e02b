------------------------- MODULE WorkflowStoreProofs -------------------------
(***************************************************************************)
(* Theorems about WorkflowStore, for any number of workflows, definitions  *)
(* and requests in progress.                                               *)
(***************************************************************************)
EXTENDS WorkflowStore, TLAPS

LEMMA PendingOrIdle ==
  ASSUME TypeOK, NEW c \in Clients
  PROVE  /\ op[c] # Idle <=> op[c] \in Pending
         /\ op[c] # Idle <=> op[c].id # Absent
         /\ Saving(c) \/ Deleting(c) => op[c] \in Pending
BY StoreAssumption DEF TypeOK, Pending, Idle, Saving, Deleting

(* The two kinds of request differ only in what they are going to write.   *)
LEMMA StartEffect ==
  ASSUME NEW c \in Clients, NEW w \in Ids,
         StartDelete(c, w) \/ \E d \in Definitions : CheckExisting(c, w, d)
  PROVE  \E seen \in Gets(w), item \in Valid \cup {Absent} :
           Goes(c, w, seen, item) /\ (IF item = Absent THEN seen # Absent ELSE seen = Absent)
BY StoreAssumption DEF StartDelete, CheckExisting

(* A put changes the operations of its workflow, and no other.             *)
LEMMA AfterSaveEffect ==
  ASSUME TypeOK, NEW c \in Clients, Saving(c), NEW answered \in BOOLEAN,
         NEW x \in Clients
  PROVE  \/ AfterSave(c, answered)[x] = Idle
         \/ AfterSave(c, answered)[x] = op[x] /\ op[x].id # op[c].id
         \/ /\ op[x] \in Pending
            /\ AfterSave(c, answered)[x] = [op[x] EXCEPT !.overtaken = TRUE]
<1>1. op[c].id \in Ids
  BY PendingOrIdle DEF Pending
<1>2. op[x].id = op[c].id => op[x] \in Pending
  BY <1>1, PendingOrIdle, StoreAssumption
<1>3. QED
  BY <1>2 DEF AfterSave

(* What a put does to the table and to the request that it is part of.     *)
LEMMA SaveEffect ==
  ASSUME TypeOK, NEW c \in Clients, Save(c)
  PROVE  /\ op[c].id \in Ids /\ op[c].write \in Definitions
         /\ table[op[c].id] = Absent
         /\ \A v \in Ids : table'[v] = IF v = op[c].id THEN op[c].write ELSE table[v]
         /\ \A v \in Ids : ever'[v] =
              IF v = op[c].id THEN ever[v] \cup {op[c].write} ELSE ever[v]
BY PendingOrIdle DEF TypeOK, Save, Saving, Pending
-----------------------------------------------------------------------------
LEMMA TypeInvariant == TypeOK /\ [Next]_vars => TypeOK'
<1> SUFFICES ASSUME TypeOK, [Next]_vars
             PROVE  TypeOK'
  OBVIOUS
<1>1. CASE UNCHANGED vars
  BY <1>1 DEF TypeOK, vars
<1>2. ASSUME NEW w \in Ids, StartExecution(w) \/ Replicate(w)
      PROVE  TypeOK'
  BY <1>2 DEF TypeOK, StartExecution, Replicate, Gets
<1>3. ASSUME NEW c \in Clients, NEW w \in Ids,
             StartDelete(c, w) \/ \E d \in Definitions : CheckExisting(c, w, d)
      PROVE  TypeOK'
  <2>1. PICK seen \in Gets(w), item \in Valid \cup {Absent} : Goes(c, w, seen, item)
    BY <1>3, StartEffect
  <2>2. [id |-> w, found |-> seen, write |-> item, overtaken |-> seen # table[w]] \in Pending
    BY StoreAssumption DEF TypeOK, Gets, Pending
  <2>3. QED
    BY <2>1, <2>2 DEF TypeOK, Goes
<1>4. ASSUME NEW c \in Clients, Save(c)
      PROVE  TypeOK'
  <2>1. op' \in [Clients -> Pending \cup {Idle}]
    <3>1. PICK answered \in BOOLEAN : op' = AfterSave(c, answered)
      BY <1>4 DEF Save
    <3>2. Saving(c)
      BY <1>4 DEF Save
    <3>3. ASSUME NEW x \in Clients
          PROVE  AfterSave(c, answered)[x] \in Pending \cup {Idle}
      <4>1. ASSUME op[x] \in Pending
            PROVE  [op[x] EXCEPT !.overtaken = TRUE] \in Pending
        BY <4>1 DEF Pending
      <4>2. op[x] \in Pending \cup {Idle}
        BY DEF TypeOK
      <4>3. QED
        BY <3>2, <4>1, <4>2, AfterSaveEffect
    <3>4. QED
      BY <3>1, <3>3 DEF AfterSave
  <2>2. op[c].id \in Ids /\ op[c].write \in Definitions
    BY <1>4, SaveEffect
  <2>3. /\ table' = [table EXCEPT ![op[c].id] = op[c].write]
        /\ ever' = [ever EXCEPT ![op[c].id] = @ \cup {op[c].write}]
        /\ replica' = replica /\ launched' = launched
    BY <1>4 DEF Save
  <2>4. QED
    BY <2>1, <2>2, <2>3 DEF TypeOK
<1>5. ASSUME NEW c \in Clients, FinishDelete(c)
      PROVE  TypeOK'
  BY <1>5 DEF TypeOK, FinishDelete
<1>6. ASSUME NEW c \in Clients, SaveConflicts(c) \/ Fail(c)
      PROVE  TypeOK'
  BY <1>6 DEF TypeOK, SaveConflicts, Fail, GivesUp
<1>7. QED
  BY <1>1, <1>2, <1>3, <1>4, <1>5, <1>6 DEF Next

(* The table, the requests in progress and the runs keep their types; in   *)
(* particular no run is started of a workflow that was not found.          *)
THEOREM TypeCorrect == Spec => []TypeOK
<1>1. Init => TypeOK
  BY DEF Init, TypeOK
<1>2. QED
  BY <1>1, TypeInvariant, PTL DEF Spec
-----------------------------------------------------------------------------
(* Only definitions that were validated are about to be stored, and only   *)
(* those that were stored are ever read.                                   *)
StoredAreValid ==
  /\ \A w \in Ids : Gets(w) \ {Absent} \subseteq ever[w] \cap Valid
  /\ \A c \in Clients : op[c].write \in Valid \cup {Absent}

LEMMA StoredAreValidInvariant ==
  TypeOK /\ StoredAreValid /\ [Next]_vars => StoredAreValid'
<1> SUFFICES ASSUME TypeOK, StoredAreValid, [Next]_vars
             PROVE  StoredAreValid'
  OBVIOUS
<1>1. CASE UNCHANGED <<table, replica, op, ever>>
  BY <1>1 DEF StoredAreValid, Gets
<1>2. ASSUME NEW w \in Ids, Replicate(w)
      PROVE  StoredAreValid'
  BY <1>2 DEF TypeOK, StoredAreValid, Gets, Replicate
<1>3. ASSUME NEW c \in Clients, NEW w \in Ids,
             StartDelete(c, w) \/ \E d \in Definitions : CheckExisting(c, w, d)
      PROVE  StoredAreValid'
  <2>1. PICK seen \in Gets(w), item \in Valid \cup {Absent} : Goes(c, w, seen, item)
    BY <1>3, StartEffect
  <2>2. QED
    BY <2>1 DEF TypeOK, StoredAreValid, Gets, Goes
<1>4. ASSUME NEW c \in Clients, Save(c)
      PROVE  StoredAreValid'
  <2>1. Saving(c) /\ op[c].write \in Valid /\ replica' = replica
    BY <1>4 DEF StoredAreValid, Save, Saving
  <2>2. \A w \in Ids : (Gets(w) \ {Absent} \subseteq ever[w] \cap Valid)'
    BY <1>4, <2>1, SaveEffect DEF StoredAreValid, Gets
  <2>3. ASSUME NEW x \in Clients
        PROVE  op'[x].write \in Valid \cup {Absent}
    <3>1. PICK answered \in BOOLEAN : op' = AfterSave(c, answered)
      BY <1>4 DEF Save
    <3>2. op[x] \in Pending => [op[x] EXCEPT !.overtaken = TRUE].write = op[x].write
      BY DEF Pending
    <3>3. op[x].write \in Valid \cup {Absent} /\ Idle.write = Absent
      BY DEF StoredAreValid, Idle
    <3>4. QED
      BY <2>1, <3>1, <3>2, <3>3, AfterSaveEffect
  <2>4. QED
    BY <2>2, <2>3 DEF StoredAreValid
<1>5. ASSUME NEW c \in Clients, FinishDelete(c) \/ SaveConflicts(c) \/ Fail(c)
      PROVE  StoredAreValid'
  <2>1. \A x \in Clients : op'[x] = IF x = c THEN Idle ELSE op[x]
    BY <1>5 DEF TypeOK, FinishDelete, SaveConflicts, Fail, GivesUp
  <2>2. /\ \A w \in Ids : table'[w] \in {Absent, table[w]}
        /\ replica' = replica /\ ever' = ever
    BY <1>5 DEF TypeOK, FinishDelete, SaveConflicts, Fail, GivesUp
  <2>3. QED
    BY <2>1, <2>2 DEF StoredAreValid, Gets, Idle
<1>6. QED
  BY <1>1, <1>2, <1>3, <1>4, <1>5 DEF Next, vars, StartExecution

LEMMA StoredAreAlwaysValid == Spec => []StoredAreValid
<1>1. Init => StoredAreValid
  BY DEF Init, StoredAreValid, Gets, Idle
<1>2. QED
  BY <1>1, TypeCorrect, StoredAreValidInvariant, PTL DEF Spec

(* A run can only be of a definition that was validated and stored under   *)
(* the id, whatever happens to the workflow before, meanwhile or after.    *)
THEOREM RunsAreOfStored == Spec => []LaunchedWereStored
<1>1. Init => LaunchedWereStored
  BY DEF Init, LaunchedWereStored
<1>2. ASSUME TypeOK, StoredAreValid, LaunchedWereStored, [Next]_vars
      PROVE  LaunchedWereStored'
  <2>1. ASSUME NEW w \in Ids, StartExecution(w)
        PROVE  LaunchedWereStored'
    BY <1>2, <2>1 DEF StoredAreValid, LaunchedWereStored, StartExecution
  <2>2. ASSUME NEW c \in Clients, Save(c)
        PROVE  LaunchedWereStored'
    <3>1. launched' = launched /\ launched \subseteq Ids \X Definitions
      BY <1>2, <2>2 DEF TypeOK, Save
    <3>2. \A v \in Ids : ever[v] \subseteq ever'[v]
      BY <1>2, <2>2, SaveEffect
    <3>3. QED
      BY <1>2, <3>1, <3>2 DEF LaunchedWereStored
  <2>3. CASE UNCHANGED <<launched, ever>>
    BY <1>2, <2>3 DEF LaunchedWereStored
  <2>4. QED
    BY <1>2, <2>1, <2>2, <2>3
      DEF Next, vars, Replicate, StartDelete, CheckExisting, Goes, SaveConflicts,
          FinishDelete, Fail, GivesUp
<1>3. QED
  BY <1>1, <1>2, TypeCorrect, StoredAreAlwaysValid, PTL DEF Spec
-----------------------------------------------------------------------------
Unsurprised(c) ==
  op[c] # Idle /\ ~op[c].overtaken =>
    table[op[c].id] = Absent \/ (Deleting(c) /\ table[op[c].id] = op[c].found)

(* In the absence of a race a creation finds its id free and a removal     *)
(* finds what it read.                                                     *)
THEOREM SurprisesAreRaces == Spec => []OnlyRacesSurprise
<1>1. Init => OnlyRacesSurprise
  BY DEF Init, OnlyRacesSurprise
<1>2. ASSUME TypeOK, OnlyRacesSurprise, [Next]_vars
      PROVE  OnlyRacesSurprise'
  <2>1. ASSUME NEW c \in Clients, NEW w \in Ids,
               StartDelete(c, w) \/ \E d \in Definitions : CheckExisting(c, w, d)
        PROVE  OnlyRacesSurprise'
    <3>1. PICK seen \in Gets(w), item \in Valid \cup {Absent} :
             /\ Goes(c, w, seen, item)
             /\ IF item = Absent THEN seen # Absent ELSE seen = Absent
      BY <2>1, StartEffect
    <3>2. /\ table' = table
          /\ \A x \in Clients : op'[x] = IF x = c
               THEN [id |-> w, found |-> seen, write |-> item, overtaken |-> seen # table[w]]
               ELSE op[x]
      BY <1>2, <3>1 DEF TypeOK, Goes
    <3>3. Unsurprised(c)'
      <4> DEFINE race == seen # table[w]
      <4>1. op'[c] = [id |-> w, found |-> seen, write |-> item, overtaken |-> race]
        BY <3>2
      <4> HIDE DEF race
      <4>2. op'[c].id = w /\ op'[c].found = seen /\ op'[c].write = item
        BY <4>1
      <4>3. op'[c].overtaken = race
        BY <4>1
      <4>4. CASE race
        BY <4>3, <4>4 DEF Unsurprised
      <4>5. CASE ~race
        BY <3>1, <3>2, <4>2, <4>5, StoreAssumption DEF Unsurprised, Deleting, race
      <4>6. QED
        BY <4>4, <4>5
    <3>4. \A x \in Clients \ {c} : Unsurprised(x)'
      BY <1>2, <3>2 DEF OnlyRacesSurprise, Unsurprised, Deleting
    <3>5. QED
      BY <3>3, <3>4 DEF OnlyRacesSurprise, Unsurprised
  <2>2. ASSUME NEW c \in Clients, Save(c)
        PROVE  OnlyRacesSurprise'
    <3>1. PICK answered \in BOOLEAN : op' = AfterSave(c, answered)
      BY <2>2 DEF Save
    <3>2. Saving(c)
      BY <2>2 DEF Save
    <3>3. ASSUME NEW x \in Clients
          PROVE  Unsurprised(x)'
      <4>1. CASE op'[x] = Idle
        BY <4>1 DEF Unsurprised
      <4>2. CASE op'[x] = op[x] /\ op[x].id # op[c].id
        <5>1. op[x] # Idle => op[x].id \in Ids
          BY <1>2, PendingOrIdle DEF Pending
        <5>2. op[x] # Idle => table'[op[x].id] = table[op[x].id]
          BY <1>2, <2>2, <4>2, <5>1, SaveEffect
        <5>3. QED
          BY <1>2, <4>2, <5>2 DEF OnlyRacesSurprise, Unsurprised, Deleting
      <4>3. CASE op[x] \in Pending /\ op'[x] = [op[x] EXCEPT !.overtaken = TRUE]
        BY <4>3 DEF Unsurprised, Pending
      <4>4. QED
        BY <1>2, <3>1, <3>2, <4>1, <4>2, <4>3, AfterSaveEffect
    <3>4. QED
      BY <3>3 DEF OnlyRacesSurprise, Unsurprised
  <2>3. ASSUME NEW c \in Clients, FinishDelete(c) \/ SaveConflicts(c) \/ Fail(c)
        PROVE  OnlyRacesSurprise'
    <3>1. \A x \in Clients : op'[x] = IF x = c THEN Idle ELSE op[x]
      BY <1>2, <2>3 DEF TypeOK, FinishDelete, SaveConflicts, Fail, GivesUp
    <3>2. \A w \in Ids : table'[w] \in {Absent, table[w]}
      BY <1>2, <2>3 DEF TypeOK, FinishDelete, SaveConflicts, Fail, GivesUp
    <3>3. \A x \in Clients : op[x] # Idle => op[x].id \in Ids
      BY <1>2, PendingOrIdle DEF Pending
    <3>4. QED
      BY <1>2, <3>1, <3>2, <3>3 DEF OnlyRacesSurprise, Deleting
  <2>4. CASE UNCHANGED <<table, op>>
    BY <1>2, <2>4 DEF OnlyRacesSurprise, Deleting
  <2>5. QED
    BY <1>2, <2>1, <2>2, <2>3, <2>4 DEF Next, vars, StartExecution, Replicate
<1>3. QED
  BY <1>1, <1>2, TypeCorrect, PTL DEF Spec
-----------------------------------------------------------------------------
(* The refinement: a put is a creation, the second call of a deletion a    *)
(* removal, or a stutter when the workflow is gone; nothing else touches   *)
(* the table.                                                              *)
THEOREM StoreIsCatalog == Spec => ImplementsCatalog
<1>1. Init => Catalog!Init
  BY DEF Init, Catalog!Init
<1>2. ASSUME TypeOK, StoredAreValid, [Next]_vars
      PROVE  [Catalog!Next]_table
  <2>1. ASSUME NEW c \in Clients, Save(c)
        PROVE  Catalog!Next
    <3>1. op[c].id \in Ids /\ op[c].write \in Valid
      BY <1>2, <2>1, SaveEffect DEF StoredAreValid, Save, Saving
    <3>2. Catalog!Create(op[c].id, op[c].write)
      BY <2>1 DEF Save, Catalog!Create
    <3>3. QED
      BY <3>1, <3>2 DEF Catalog!Next
  <2>2. ASSUME NEW c \in Clients, FinishDelete(c)
        PROVE  [Catalog!Next]_table
    <3>1. op[c].id \in Ids
      BY <1>2, <2>2, PendingOrIdle DEF FinishDelete, Pending
    <3>2. CASE table[op[c].id] = Absent
      BY <1>2, <2>2, <3>1, <3>2 DEF TypeOK, FinishDelete
    <3>3. CASE table[op[c].id] # Absent
      BY <2>2, <3>1, <3>3 DEF FinishDelete, Catalog!Next, Catalog!Remove
    <3>4. QED
      BY <3>2, <3>3
  <2>3. CASE UNCHANGED table
    BY <2>3
  <2>4. QED
    BY <1>2, <2>1, <2>2, <2>3
      DEF Next, vars, StartExecution, Replicate, StartDelete, CheckExisting, Goes,
          SaveConflicts, Fail, GivesUp
<1>3. QED
  BY <1>1, <1>2, TypeCorrect, StoredAreAlwaysValid, PTL
    DEF Spec, ImplementsCatalog, Catalog!Spec
=============================================================================
