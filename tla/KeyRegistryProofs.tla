------------------------- MODULE KeyRegistryProofs -------------------------
(***************************************************************************)
(* Proofs about KeyRegistry for any keys, administrators, clients, access  *)
(* settings and Model Quotas.                                              *)
(***************************************************************************)
EXTENDS KeyRegistry, TLAPS

(* An idle request is well typed.                                          *)
LEMMA IdleType == Idle \in OpSet /\ OpOK(Idle)
  BY DEF Idle, OpSet, OpOK, Steps

(* What goes into the cache is an entry.                                   *)
LEMMA EntryType ==
  ASSUME NEW row \in Row, NEW q \in Quotas \cup {NoQuotas},
         NEW from \in {"load", "create", "lookup"}
  PROVE  /\ EntryOf(row, q, from) \in Entry
         /\ EntryOf(row, q, from).active = row.active
         /\ EntryOf(row, q, from).access = row.access
         /\ EntryOf(row, q, from).from = from
  BY DEF EntryOf, Row, Entry

(* So a whole cache is well typed when it is loaded.                       *)
LEMMA LoadedType ==
  ASSUME NEW r \in [Keys -> Row \cup {Unborn, Deleted}],
         NEW q \in [Keys -> Quotas \cup {NoQuotas}]
  PROVE  Loaded(r, q) \in [Keys -> Entry \cup {NoEntry}]
  BY EntryType DEF Loaded

(* A step of one request that leaves it well typed keeps all well typed.   *)
LEMMA OpStep ==
  ASSUME op \in [Actors -> OpSet], \A a \in Actors : OpOK(op[a]),
         NEW a \in Actors, NEW o \in OpSet, OpOK(o),
         op' = [op EXCEPT ![a] = o]
  PROVE  op' \in [Actors -> OpSet] /\ \A b \in Actors : OpOK(op'[b])
  OBVIOUS

-----------------------------------------------------------------------------
(* The registry starts well typed.                                         *)
LEMMA InitType == Init => TypeOK
<1> SUFFICES ASSUME Init PROVE TypeOK
  OBVIOUS
<1>1. rows \in [Keys -> Row \cup {Unborn, Deleted}]
  BY DEF Init
<1>2. quotas \in [Keys -> Quotas \cup {NoQuotas}]
  BY DEF Init
<1>3. cache \in [Keys -> Entry \cup {NoEntry}]
  BY <1>1, <1>2, LoadedType DEF Init
<1>4. op \in [Actors -> OpSet] /\ \A a \in Actors : OpOK(op[a])
  BY IdleType DEF Init
<1> QED
  BY <1>1, <1>2, <1>3, <1>4 DEF TypeOK

(* Every action keeps the types.                                           *)
LEMMA StepType == TypeOK /\ [Next]_vars => TypeOK'
<1> SUFFICES ASSUME TypeOK, [Next]_vars PROVE TypeOK'
  OBVIOUS
<1> USE DEF TypeOK
<1>1. ASSUME NEW a \in Admins, NEW k \in Keys, NEW access \in Access,
             NEW q \in Quotas \cup {NoQuotas}, CreateKeyTx(a, k, access, q)
      PROVE  TypeOK'
  <2> DEFINE row == [active |-> TRUE, access |-> access]
             o   == [op[a] EXCEPT !.step = "store", !.key = k, !.entry = EntryOf(row, q, "create")]
  <2>1. row \in Row /\ rows' = [rows EXCEPT ![k] = row] /\ rows'[k] = row
    BY <1>1 DEF CreateKeyTx, Row
  <2>2. EntryOf(row, q, "create") \in Entry /\ EntryOf(row, q, "create").from = "create"
    BY <2>1, EntryType
  <2>3. op' = [op EXCEPT ![a] = o]
    BY <1>1, <2>1 DEF CreateKeyTx, Actors
  <2>4. o \in OpSet /\ OpOK(o)
    BY <2>2 DEF OpSet, OpOK, Steps, Actors
  <2>5. op' \in [Actors -> OpSet] /\ \A b \in Actors : OpOK(op'[b])
    BY <2>3, <2>4, OpStep DEF Actors
  <2> QED
    BY <1>1, <2>1, <2>5 DEF CreateKeyTx
<1>2. ASSUME NEW a \in Actors, Store(a) PROVE TypeOK'
  <2>1. op[a].key \in Keys /\ op[a].entry \in Entry
    BY <1>2 DEF Store, OpOK
  <2>2. op' \in [Actors -> OpSet] /\ \A b \in Actors : OpOK(op'[b])
    BY <1>2, IdleType, OpStep DEF Store, Finish
  <2> QED
    BY <1>2, <2>1, <2>2 DEF Store, tables
<1>3. ASSUME NEW a \in Admins, NEW k \in Keys, NEW access \in Access,
             NEW q \in Quotas \cup {NoQuotas}, UpdateKeyTx(a, k, access, q)
      PROVE  TypeOK'
  <2> DEFINE o == [op[a] EXCEPT !.step = "quotas"]
  <2>1. o \in OpSet /\ OpOK(o) /\ op' = [op EXCEPT ![a] = o]
    BY <1>3 DEF UpdateKeyTx, Goto, OpSet, OpOK, Steps, Actors
  <2>2. op' \in [Actors -> OpSet] /\ \A b \in Actors : OpOK(op'[b])
    BY <2>1, OpStep DEF Actors
  <2>3. rows' = [rows EXCEPT ![k] = [@ EXCEPT !.access = access]] /\ rows[k] \in Row
    BY <1>3 DEF UpdateKeyTx, Exists
  <2>4. [rows[k] EXCEPT !.access = access] \in Row
    BY <2>3 DEF Row
  <2> QED
    BY <1>3, <2>2, <2>3, <2>4 DEF UpdateKeyTx
<1>4. ASSUME NEW a \in Admins, NEW k \in Keys, NEW active \in BOOLEAN, ToggleKeyTx(a, k, active)
      PROVE  TypeOK'
  <2> DEFINE o == [op[a] EXCEPT !.step = "quotas"]
  <2>1. o \in OpSet /\ OpOK(o) /\ op' = [op EXCEPT ![a] = o]
    BY <1>4 DEF ToggleKeyTx, Goto, OpSet, OpOK, Steps, Actors
  <2>2. op' \in [Actors -> OpSet] /\ \A b \in Actors : OpOK(op'[b])
    BY <2>1, OpStep DEF Actors
  <2>3. Exists(k) => [rows[k] EXCEPT !.active = active] \in Row
    BY DEF Exists, Row
  <2> QED
    BY <1>4, <2>2, <2>3 DEF ToggleKeyTx
<1>5. ASSUME NEW a \in Admins, NEW k \in Keys, DeleteKeyFind(a, k) PROVE TypeOK'
  <2> DEFINE o == [op[a] EXCEPT !.step = "delete", !.key = k]
  <2>1. o \in OpSet /\ OpOK(o) /\ op' = [op EXCEPT ![a] = o]
    BY <1>5 DEF DeleteKeyFind, OpSet, OpOK, Steps, Actors
  <2> QED
    BY <1>5, <2>1, OpStep DEF DeleteKeyFind, Actors, tables
<1>6. ASSUME NEW a \in Admins, DeleteKeyTx(a) PROVE TypeOK'
  <2> DEFINE o == [op[a] EXCEPT !.step = "drop"]
  <2>1. o \in OpSet /\ OpOK(o) /\ op' = [op EXCEPT ![a] = o]
    BY <1>6 DEF DeleteKeyTx, Goto, OpSet, OpOK, Steps, Actors
  <2>2. op' \in [Actors -> OpSet] /\ \A b \in Actors : OpOK(op'[b])
    BY <2>1, OpStep DEF Actors
  <2> QED
    BY <1>6, <2>2 DEF DeleteKeyTx
<1>7. ASSUME NEW a \in Admins, DropEntry(a) PROVE TypeOK'
  <2>1. op' \in [Actors -> OpSet] /\ \A b \in Actors : OpOK(op'[b])
    BY <1>7, IdleType, OpStep DEF DropEntry, Finish, Actors
  <2> QED
    BY <1>7, <2>1 DEF DropEntry, tables
<1>8. ASSUME NEW a \in Admins, LoadQuotas(a) PROVE TypeOK'
  <2> DEFINE o == [op[a] EXCEPT !.step = "rows", !.snap = quotas]
  <2>1. o \in OpSet /\ OpOK(o) /\ op' = [op EXCEPT ![a] = o]
    BY <1>8 DEF LoadQuotas, OpSet, OpOK, Steps, Actors
  <2> QED
    BY <1>8, <2>1, OpStep DEF LoadQuotas, Actors, tables
<1>9. ASSUME NEW a \in Admins, LoadRows(a) PROVE TypeOK'
  <2>1. op' \in [Actors -> OpSet] /\ \A b \in Actors : OpOK(op'[b])
    BY <1>9, IdleType, OpStep DEF LoadRows, Finish, Actors
  <2>2. op[a].snap \in [Keys -> Quotas \cup {NoQuotas}]
    BY DEF OpSet, Actors
  <2>3. \A k \in Keys : Exists(k) => EntryOf(rows[k], op[a].snap[k], "load") \in Entry
    BY <2>2, EntryType DEF Exists
  <2>4. cache' \in [Keys -> Entry \cup {NoEntry}]
    BY <1>9, <2>3 DEF LoadRows
  <2> QED
    BY <1>9, <2>1, <2>4 DEF LoadRows, tables
<1>10. ASSUME NEW c \in Clients, NEW k \in Keys, Miss(c, k) PROVE TypeOK'
  <2> DEFINE o == [op[c] EXCEPT !.step = "lookup", !.key = k]
  <2>1. o \in OpSet /\ OpOK(o) /\ op' = [op EXCEPT ![c] = o]
    BY <1>10 DEF Miss, OpSet, OpOK, Steps, Actors
  <2> QED
    BY <1>10, <2>1, OpStep DEF Miss, Actors, tables
<1>11. ASSUME NEW c \in Clients, LookupRow(c) PROVE TypeOK'
  <2>1. CASE Exists(op[c].key)
    <3> DEFINE e == EntryOf(rows[op[c].key], NoQuotas, "lookup")
               o == [op[c] EXCEPT !.step = "lookupQuotas", !.entry = e]
    <3>1. op[c].key \in Keys
      BY <1>11 DEF LookupRow, OpOK, Actors
    <3>2. e \in Entry /\ e.from = "lookup"
      BY <2>1, <3>1, EntryType DEF Exists
    <3>3. o \in OpSet /\ OpOK(o)
      BY <3>1, <3>2 DEF OpSet, OpOK, Steps, Actors
    <3>4. op' = [op EXCEPT ![c] = o]
      BY <1>11, <2>1 DEF LookupRow, Actors
    <3> QED
      BY <1>11, <3>3, <3>4, OpStep DEF LookupRow, Actors, tables
  <2>2. CASE ~ Exists(op[c].key)
    BY <1>11, <2>2, IdleType, OpStep DEF LookupRow, Finish, Actors, tables
  <2> QED
    BY <2>1, <2>2
<1>12. ASSUME NEW c \in Clients, LookupQuotas(c) PROVE TypeOK'
  <2> DEFINE e == [op[c].entry EXCEPT !.quotas = quotas[op[c].key]]
             o == [op[c] EXCEPT !.step = "store", !.entry = e]
  <2>1. op[c].key \in Keys /\ op[c].entry \in Entry /\ op[c].entry.from # "load"
    BY <1>12 DEF LookupQuotas, OpOK, Actors
  <2>2. e \in Entry /\ e.from # "load"
    BY <2>1 DEF Entry
  <2>3. o \in OpSet /\ OpOK(o)
    <3>1. op[c] \in OpSet
      BY DEF Actors, TypeOK
    <3> HIDE DEF e
    <3>2. o \in OpSet /\ o.key = op[c].key /\ o.entry = e
      BY <2>2, <3>1 DEF OpSet, Steps
    <3> QED
      BY <2>1, <2>2, <3>2 DEF OpOK
  <2>4. op' = [op EXCEPT ![c] = o]
    BY <1>12 DEF LookupQuotas, Actors, OpSet
  <2> QED
    BY <1>12, <2>3, <2>4, OpStep DEF LookupQuotas, Actors, tables
<1>13. CASE Restart
  <2>1. rows' \in [Keys -> Row \cup {Unborn, Deleted}]
    <3>1. ASSUME NEW access \in Access PROVE [active |-> TRUE, access |-> access] \in Row
      BY DEF Row
    <3> QED
      BY <1>13, <3>1 DEF Restart
  <2>2. cache' \in [Keys -> Entry \cup {NoEntry}]
    BY <1>13, <2>1, LoadedType DEF Restart
  <2> QED
    BY <1>13, <2>1, <2>2, IdleType DEF Restart
<1>14. CASE UNCHANGED vars
  BY <1>14 DEF vars, tables
<1> QED
  BY <1>1, <1>2, <1>3, <1>4, <1>5, <1>6, <1>7, <1>8, <1>9, <1>10, <1>11, <1>12, <1>13, <1>14
     DEF Next, Administer, Lookup

(* The types of the key registry, for any constants.                       *)
THEOREM TypeCorrect == Spec => []TypeOK
  BY InitType, StepType, PTL DEF Spec

-----------------------------------------------------------------------------
(* Quotas are written together with, or removed together with, their key.  *)
LEMMA StepNoOrphan == TypeOK /\ NoOrphanQuotas /\ [Next]_vars => NoOrphanQuotas'
<1> SUFFICES ASSUME TypeOK, NoOrphanQuotas, [Next]_vars PROVE NoOrphanQuotas'
  OBVIOUS
<1> USE DEF TypeOK, NoOrphanQuotas, Exists
<1>1. ASSUME NEW a \in Admins, NEW k \in Keys, NEW access \in Access,
             NEW q \in Quotas \cup {NoQuotas}, CreateKeyTx(a, k, access, q)
      PROVE  NoOrphanQuotas'
  BY <1>1 DEF CreateKeyTx, Row
<1>2. ASSUME NEW a \in Admins, NEW k \in Keys, NEW access \in Access,
             NEW q \in Quotas \cup {NoQuotas}, UpdateKeyTx(a, k, access, q)
      PROVE  NoOrphanQuotas'
  BY <1>2 DEF UpdateKeyTx, Row
<1>3. ASSUME NEW a \in Admins, NEW k \in Keys, NEW active \in BOOLEAN, ToggleKeyTx(a, k, active)
      PROVE  NoOrphanQuotas'
  BY <1>3 DEF ToggleKeyTx, Row
<1>4. ASSUME NEW a \in Admins, DeleteKeyTx(a) PROVE NoOrphanQuotas'
  BY <1>4 DEF DeleteKeyTx
<1>5. CASE Restart
  BY <1>5, MarkersAssumption DEF Restart, Row
<1>6. CASE UNCHANGED tables
  BY <1>6 DEF tables
<1> QED
  BY <1>1, <1>2, <1>3, <1>4, <1>5, <1>6
     DEF Next, Administer, Lookup, vars, Store, LoadQuotas, LoadRows, DeleteKeyFind,
         DropEntry, Miss, LookupRow, LookupQuotas

(* No order of edits and deletions leaves Model Quotas without their key.  *)
THEOREM QuotasHaveKeys == Spec => []NoOrphanQuotas
<1>1. Init => NoOrphanQuotas
  BY DEF Init, NoOrphanQuotas
<1> QED
  BY <1>1, InitType, StepType, StepNoOrphan, PTL DEF Spec

-----------------------------------------------------------------------------
(* A step of a request that is neither refreshing nor about to drop an     *)
(* entry takes away no pending refresh and no pending drop.                *)
LEMMA PendingKept ==
  ASSUME op \in [Actors -> OpSet], NEW a \in Actors, NEW o,
         op[a].step \notin {"quotas", "rows", "drop"}, op' = [op EXCEPT ![a] = o]
  PROVE  /\ LoadPending => LoadPending'
         /\ \A k : DropPending(k) => DropPending(k)'
  BY DEF LoadPending, DropPending

(* An edit changes rows only with a refresh or a drop to follow, and a     *)
(* refresh stores rows as they are when it ends.                           *)
LEMMA StepLoaded == TypeOK /\ LoadedEntryCurrent /\ [Next]_vars => LoadedEntryCurrent'
<1> SUFFICES ASSUME TypeOK, LoadedEntryCurrent, [Next]_vars PROVE LoadedEntryCurrent'
  OBVIOUS
<1> USE DEF TypeOK
<1>1. ASSUME NEW a \in Admins, NEW k \in Keys, NEW access \in Access,
             NEW q \in Quotas \cup {NoQuotas}, CreateKeyTx(a, k, access, q)
      PROVE  LoadedEntryCurrent'
  <2>1. \A j \in Keys \ {k} : rows'[j] = rows[j]
    BY <1>1 DEF CreateKeyTx
  <2>2. ~ Exists(k) /\ UNCHANGED cache /\ op[a].step = "idle"
    BY <1>1, MarkersAssumption DEF CreateKeyTx, Exists
  <2>3. (LoadPending => LoadPending') /\ \A j : DropPending(j) => DropPending(j)'
    <3>1. PICK o : op' = [op EXCEPT ![a] = o]
      BY <1>1 DEF CreateKeyTx, Actors
    <3> QED
      BY <2>2, <3>1, PendingKept DEF Actors
  <2> QED
    BY <2>1, <2>2, <2>3 DEF LoadedEntryCurrent, Exists
<1>2. ASSUME NEW a \in Actors, Store(a) PROVE LoadedEntryCurrent'
  <2>1. (LoadPending => LoadPending') /\ \A j : DropPending(j) => DropPending(j)'
    BY <1>2, PendingKept DEF Store, Finish
  <2>2. op[a].key \in Keys /\ op[a].entry.from # "load" /\ UNCHANGED rows
    BY <1>2 DEF Store, OpOK, tables
  <2>3. cache'[op[a].key] = op[a].entry /\ \A j \in Keys \ {op[a].key} : cache'[j] = cache[j]
    BY <1>2, <2>2 DEF Store
  <2> QED
    BY <2>1, <2>2, <2>3 DEF LoadedEntryCurrent, Exists
<1>3. ASSUME NEW a \in Admins, NEW k \in Keys, NEW access \in Access,
             NEW q \in Quotas \cup {NoQuotas}, UpdateKeyTx(a, k, access, q)
      PROVE  LoadedEntryCurrent'
  <2>1. LoadPending' /\ \A j : DropPending(j) => DropPending(j)'
    <3>1. op'[a].step = "quotas" /\ \A b \in Actors \ {a} : op'[b] = op[b]
      BY <1>3 DEF UpdateKeyTx, Goto, OpSet, Actors
    <3>2. op[a].step = "idle"
      BY <1>3 DEF UpdateKeyTx
    <3> QED
      BY <3>1, <3>2 DEF LoadPending, DropPending, Actors
  <2>2. \A j \in Keys : Exists(j) => Exists(j)'
    BY <1>3 DEF UpdateKeyTx, Exists, Row
  <2>3. UNCHANGED cache
    BY <1>3 DEF UpdateKeyTx
  <2> QED
    BY <2>1, <2>2, <2>3 DEF LoadedEntryCurrent
<1>4. ASSUME NEW a \in Admins, NEW k \in Keys, NEW active \in BOOLEAN, ToggleKeyTx(a, k, active)
      PROVE  LoadedEntryCurrent'
  <2>1. LoadPending' /\ \A j : DropPending(j) => DropPending(j)'
    <3>1. op'[a].step = "quotas" /\ \A b \in Actors \ {a} : op'[b] = op[b]
      BY <1>4 DEF ToggleKeyTx, Goto, OpSet, Actors
    <3>2. op[a].step = "idle"
      BY <1>4 DEF ToggleKeyTx
    <3> QED
      BY <3>1, <3>2 DEF LoadPending, DropPending, Actors
  <2>2. \A j \in Keys : Exists(j) => Exists(j)'
    BY <1>4 DEF ToggleKeyTx, Exists, Row
  <2>3. UNCHANGED cache
    BY <1>4 DEF ToggleKeyTx
  <2> QED
    BY <2>1, <2>2, <2>3 DEF LoadedEntryCurrent
<1>5. ASSUME NEW a \in Actors, op[a].step \notin {"quotas", "rows", "drop"},
             \E o : op' = [op EXCEPT ![a] = o], UNCHANGED <<rows, cache>>
      PROVE  LoadedEntryCurrent'
  BY <1>5, PendingKept DEF LoadedEntryCurrent, Exists
<1>6. ASSUME NEW a \in Admins, DeleteKeyTx(a) PROVE LoadedEntryCurrent'
  <2>1. op[a].key \in Keys /\ op[a].step = "delete" /\ UNCHANGED cache
    BY <1>6 DEF DeleteKeyTx, OpOK, Actors
  <2>2. \A j \in Keys \ {op[a].key} : rows'[j] = rows[j]
    BY <1>6, <2>1 DEF DeleteKeyTx
  <2>4. (LoadPending => LoadPending') /\ \A j : DropPending(j) => DropPending(j)'
    <3>1. PICK o : op' = [op EXCEPT ![a] = o]
      BY <1>6 DEF DeleteKeyTx, Goto, Actors
    <3> QED
      BY <2>1, <3>1, PendingKept DEF Actors
  <2>6. ASSUME NEW j \in Keys, cache'[j] # NoEntry, cache'[j].from = "load"
        PROVE  \/ Exists(j)' /\ cache'[j].active = rows'[j].active /\ cache'[j].access = rows'[j].access
               \/ Exists(j)' /\ LoadPending'
               \/ DropPending(j)'
    <3>1. CASE j = op[a].key
      <4>1. op'[a].step = "drop" /\ op'[a].key = j /\ a \in Actors
        BY <1>6, <3>1 DEF DeleteKeyTx, Goto, OpSet, Actors
      <4> QED
        BY <4>1 DEF DropPending
    <3>2. CASE j # op[a].key
      BY <2>1, <2>2, <2>4, <2>6, <3>2 DEF LoadedEntryCurrent, Exists
    <3> QED
      BY <3>1, <3>2
  <2> QED
    BY <2>6 DEF LoadedEntryCurrent
<1>7. ASSUME NEW a \in Admins, DropEntry(a) PROVE LoadedEntryCurrent'
  <2>1. op[a].key \in Keys /\ op[a].step = "drop" /\ UNCHANGED rows
    BY <1>7 DEF DropEntry, OpOK, Actors, tables
  <2>2. cache'[op[a].key] = NoEntry /\ \A j \in Keys \ {op[a].key} : cache'[j] = cache[j]
    BY <1>7, <2>1 DEF DropEntry
  <2>3. \A b \in Actors \ {a} : op'[b] = op[b]
    BY <1>7 DEF DropEntry, Finish
  <2>4. LoadPending => LoadPending'
    BY <2>1, <2>3 DEF LoadPending
  <2>5. \A j \in Keys \ {op[a].key} : DropPending(j) => DropPending(j)'
    BY <2>3 DEF DropPending
  <2> QED
    BY <2>1, <2>2, <2>4, <2>5 DEF LoadedEntryCurrent, Exists
<1>8. ASSUME NEW a \in Admins, LoadQuotas(a) PROVE LoadedEntryCurrent'
  <2>1. op'[a].step = "rows" /\ op[a].step = "quotas" /\ \A b \in Actors \ {a} : op'[b] = op[b]
    BY <1>8 DEF LoadQuotas, OpSet, Actors
  <2>2. LoadPending' /\ \A j : DropPending(j) => DropPending(j)'
    BY <2>1 DEF LoadPending, DropPending, Actors
  <2> QED
    BY <1>8, <2>2 DEF LoadQuotas, LoadedEntryCurrent, Exists, tables
<1>9. ASSUME NEW a \in Admins, LoadRows(a) PROVE LoadedEntryCurrent'
  <2>1. UNCHANGED rows /\ op[a].step = "rows"
    BY <1>9 DEF LoadRows, tables
  <2>2. \A j \in Keys : Exists(j) =>
          cache'[j].active = rows[j].active /\ cache'[j].access = rows[j].access
    <3>1. op[a].snap \in [Keys -> Quotas \cup {NoQuotas}]
      BY DEF OpSet, Actors
    <3> QED
      BY <1>9, <3>1, EntryType DEF LoadRows, Exists
  <2>3. \A j \in Keys : ~ Exists(j) => cache'[j] = cache[j]
    BY <1>9 DEF LoadRows
  <2>4. \A j : DropPending(j) => DropPending(j)'
    BY <1>9, <2>1 DEF LoadRows, Finish, DropPending, Actors
  <2> QED
    BY <2>1, <2>2, <2>3, <2>4 DEF LoadedEntryCurrent, Exists
<1>10. CASE Restart
  <2>1. cache' = Loaded(rows', quotas)
    BY <1>10 DEF Restart
  <2>2. \A j \in Keys : rows'[j] \in Row =>
          /\ cache'[j].active = rows'[j].active
          /\ cache'[j].access = rows'[j].access
    BY <2>1, EntryType DEF Loaded
  <2>3. \A j \in Keys : rows'[j] \notin Row => cache'[j] = NoEntry
    BY <2>1 DEF Loaded
  <2> QED
    BY <2>2, <2>3 DEF LoadedEntryCurrent, Exists
<1>11. CASE UNCHANGED vars
  BY <1>11 DEF vars, tables, LoadedEntryCurrent, LoadPending, DropPending, Exists
<1>12. ASSUME NEW a \in Actors,
              (\E k \in Keys : DeleteKeyFind(a, k) \/ Miss(a, k)) \/ LookupRow(a) \/ LookupQuotas(a)
       PROVE  LoadedEntryCurrent'
  <2>1. op[a].step \notin {"quotas", "rows", "drop"} /\ UNCHANGED <<rows, cache>>
    BY <1>12 DEF DeleteKeyFind, Miss, LookupRow, LookupQuotas, tables
  <2>2. \E o : op' = [op EXCEPT ![a] = o]
    BY <1>12 DEF DeleteKeyFind, Miss, LookupRow, LookupQuotas, Finish
  <2> QED
    BY <1>5, <2>1, <2>2
<1> QED
  BY <1>1, <1>2, <1>3, <1>4, <1>6, <1>7, <1>8, <1>9, <1>10, <1>11, <1>12
     DEF Next, Administer, Lookup, Actors

(* Once every edit has returned, what refreshes stored is what the rows    *)
(* say, and nothing of theirs is left of a deleted key.                    *)
THEOREM LoadedEntriesCurrent == Spec => []LoadedEntryCurrent
<1>1. Init => LoadedEntryCurrent
  <2> SUFFICES ASSUME Init PROVE LoadedEntryCurrent
    OBVIOUS
  <2>1. \A j \in Keys : rows[j] \in Row =>
          cache[j].active = rows[j].active /\ cache[j].access = rows[j].access
    BY EntryType DEF Init, Loaded
  <2>2. \A j \in Keys : rows[j] \notin Row => cache[j] = NoEntry
    BY DEF Init, Loaded
  <2> QED
    BY <2>1, <2>2 DEF LoadedEntryCurrent, Exists
<1> QED
  BY <1>1, InitType, StepType, StepLoaded, PTL DEF Spec
=============================================================================
