---------------------------- MODULE KeyRegistry ----------------------------
(***************************************************************************)
(* API keys and the cache requests are authenticated from (internal/keys). *)
(*                                                                         *)
(* A key is a row of api_keys with its Model Quotas in a table beside it.  *)
(* Every request looks its key up in Manager.cache and asks the database   *)
(* only when it is not there. Administrators' requests change the row in a *)
(* transaction and then bring the cache up to date, each in its own way:   *)
(* creation stores the entry it made, deletion drops the entry, every      *)
(* other edit loads all rows. These requests and the lookups interleave.   *)
(***************************************************************************)
EXTENDS Naturals

CONSTANTS
  Keys,       \* raw keys; random, so a deleted one never comes back
  Access,     \* what else a row says: name, access mode, groups, Key Quota
  Quotas,     \* non-empty sets of Model Quotas
  NoQuotas,
  Unborn, Deleted, NoEntry,
  Admins, Clients

Actors == Admins \cup Clients
Row    == [active : BOOLEAN, access : Access]
Entry  == [active : BOOLEAN, access : Access, quotas : Quotas \cup {NoQuotas},
           from : {"load", "create", "lookup"}]

Steps  == {"idle", "store", "quotas", "rows", "delete", "drop", "lookup", "lookupQuotas"}

ASSUME MarkersAssumption ==
  Unborn \notin Row /\ Deleted \notin Row /\ Unborn # Deleted /\ NoEntry \notin Entry
ASSUME QuotasAssumption == NoQuotas \notin Quotas

VARIABLES
  rows,     \* api_keys
  quotas,   \* api_key_model_quotas
  cache,    \* Manager.cache; from tells who stored an entry, for the properties
  op        \* what each request is doing

tables == <<rows, quotas>>
vars   == <<tables, cache, op>>

Exists(k) == rows[k] \in Row

(* snap: the Model Quotas read for a load; entry: what is to be stored.    *)
OpSet == [step : Steps, key : Keys \cup {NoEntry}, entry : Entry \cup {NoEntry},
          snap : [Keys -> Quotas \cup {NoQuotas}]]

Idle == [step |-> "idle", key |-> NoEntry, entry |-> NoEntry,
         snap |-> [k \in Keys |-> NoQuotas]]

EntryOf(row, q, from) ==
  [active |-> row.active, access |-> row.access, quotas |-> q, from |-> from]

(* loadLocalCache into an empty cache.                                     *)
Loaded(r, q) ==
  [k \in Keys |-> IF r[k] \in Row THEN EntryOf(r[k], q[k], "load") ELSE NoEntry]

-----------------------------------------------------------------------------
(* NewManager on a database that holds some keys, at least the default one *)
(* of ensureDefaultKey.                                                    *)
Init ==
  /\ rows \in [Keys -> Row \cup {Unborn}]
  /\ \E k \in Keys : Exists(k)
  /\ quotas \in [Keys -> Quotas \cup {NoQuotas}]
  /\ \A k \in Keys : ~ Exists(k) => quotas[k] = NoQuotas
  /\ cache = Loaded(rows, quotas)
  /\ op = [a \in Actors |-> Idle]

Goto(a, s) == op' = [op EXCEPT ![a].step = s]
Finish(a)  == op' = [op EXCEPT ![a] = Idle]

-----------------------------------------------------------------------------
(* CreateKeyWithOptions: one transaction, then the entry made from the     *)
(* options of the request is stored.                                       *)
CreateKeyTx(a, k, access, q) ==
  /\ op[a].step = "idle" /\ rows[k] = Unborn
  /\ rows' = [rows EXCEPT ![k] = [active |-> TRUE, access |-> access]]
  /\ quotas' = [quotas EXCEPT ![k] = q]
  /\ op' = [op EXCEPT ![a].step = "store", ![a].key = k,
                      ![a].entry = EntryOf(rows'[k], q, "create")]
  /\ UNCHANGED cache

(* The last step of a creation and of a lookup.                            *)
Store(a) ==
  /\ op[a].step = "store"
  /\ cache' = [cache EXCEPT ![op[a].key] = op[a].entry]
  /\ Finish(a)
  /\ UNCHANGED tables

(* Mutant: without the check that a row was affected.                      *)
UpdateUnchecked(a, k, access, q) ==
  /\ op[a].step = "idle" /\ rows[k] # Unborn
  /\ rows' = [rows EXCEPT ![k] = IF Exists(k) THEN [@ EXCEPT !.access = access] ELSE @]
  /\ quotas' = [quotas EXCEPT ![k] = q]
  /\ Goto(a, "quotas")
  /\ UNCHANGED cache

(* UpdateKeyAll, UpdateKey, UpdateKeyQuota; no row affected is "api key    *)
(* not found" and rolls back.                                              *)
UpdateKeyTx(a, k, access, q) ==
  /\ op[a].step = "idle" /\ Exists(k)
  /\ rows' = [rows EXCEPT ![k].access = access]
  /\ quotas' = [quotas EXCEPT ![k] = q]
  /\ Goto(a, "quotas")
  /\ UNCHANGED cache

(* Mutant: ToggleKey without the refresh of the cache.                     *)
ToggleWithoutLoad(a, k, active) ==
  /\ op[a].step = "idle" /\ rows[k] # Unborn
  /\ rows' = [rows EXCEPT ![k] = IF Exists(k) THEN [@ EXCEPT !.active = active] ELSE @]
  /\ UNCHANGED <<quotas, cache, op>>

(* ToggleKey loads even when the key is gone.                              *)
ToggleKeyTx(a, k, active) ==
  /\ op[a].step = "idle" /\ rows[k] # Unborn
  /\ rows' = [rows EXCEPT ![k] = IF Exists(k) THEN [@ EXCEPT !.active = active] ELSE @]
  /\ Goto(a, "quotas")
  /\ UNCHANGED <<quotas, cache>>

(* loadLocalCache: the Model Quotas are read in one query.                 *)
LoadQuotas(a) ==
  /\ op[a].step = "quotas"
  /\ op' = [op EXCEPT ![a].step = "rows", ![a].snap = quotas]
  /\ UNCHANGED <<tables, cache>>

(* The rows are read in another one, and stored while it still holds the   *)
(* single connection (db.go:35): no row changes in between. Entries of     *)
(* keys without a row stay.                                                *)
LoadRows(a) ==
  /\ op[a].step = "rows"
  /\ cache' = [k \in Keys |->
                 IF Exists(k) THEN EntryOf(rows[k], op[a].snap[k], "load") ELSE cache[k]]
  /\ Finish(a)
  /\ UNCHANGED tables

(* DeleteKey: the raw key is looked up, one transaction deletes the row    *)
(* and its Model Quotas, the entry is dropped.                             *)
DeleteKeyFind(a, k) ==
  /\ op[a].step = "idle" /\ Exists(k)
  /\ op' = [op EXCEPT ![a].step = "delete", ![a].key = k]
  /\ UNCHANGED <<tables, cache>>

DeleteKeyTx(a) ==
  /\ op[a].step = "delete"
  /\ rows' = [rows EXCEPT ![op[a].key] = Deleted]
  /\ quotas' = [quotas EXCEPT ![op[a].key] = NoQuotas]
  /\ Goto(a, "drop")
  /\ UNCHANGED cache

DropEntry(a) ==
  /\ op[a].step = "drop"
  /\ cache' = [cache EXCEPT ![op[a].key] = NoEntry]
  /\ Finish(a)
  /\ UNCHANGED tables

-----------------------------------------------------------------------------
(* ValidateClientKey. A hit decides at once and changes nothing. A key     *)
(* shows in listings from the moment its row is committed, so it may be    *)
(* presented before its creator has stored the entry.                      *)
Miss(c, k) ==
  /\ op[c].step = "idle" /\ rows[k] # Unborn /\ cache[k] = NoEntry
  /\ op' = [op EXCEPT ![c].step = "lookup", ![c].key = k]
  /\ UNCHANGED <<tables, cache>>

LookupRow(c) ==
  /\ op[c].step = "lookup"
  /\ IF Exists(op[c].key)
     THEN op' = [op EXCEPT ![c].step = "lookupQuotas",
                           ![c].entry = EntryOf(rows[op[c].key], NoQuotas, "lookup")]
     ELSE Finish(c)
  /\ UNCHANGED <<tables, cache>>

LookupQuotas(c) ==
  /\ op[c].step = "lookupQuotas"
  /\ op' = [op EXCEPT ![c].step = "store", ![c].entry.quotas = quotas[op[c].key]]
  /\ UNCHANGED <<tables, cache>>

(* The process ends at any point; NewManager loads everything, and makes a *)
(* default key when none is left.                                          *)
Restart ==
  /\ IF \A k \in Keys : ~ Exists(k)
     THEN \E k \in Keys, access \in Access :
            /\ rows[k] = Unborn
            /\ rows' = [rows EXCEPT ![k] = [active |-> TRUE, access |-> access]]
     ELSE UNCHANGED rows
  /\ cache' = Loaded(rows', quotas)
  /\ op' = [a \in Actors |-> Idle]
  /\ UNCHANGED quotas

Administer(a) ==
  \/ \E k \in Keys, access \in Access, q \in Quotas \cup {NoQuotas} :
       CreateKeyTx(a, k, access, q) \/ UpdateKeyTx(a, k, access, q)
  \/ \E k \in Keys, active \in BOOLEAN : ToggleKeyTx(a, k, active)
  \/ \E k \in Keys : DeleteKeyFind(a, k)
  \/ DeleteKeyTx(a) \/ DropEntry(a) \/ LoadQuotas(a) \/ LoadRows(a)

Lookup(c) ==
  \/ \E k \in Keys : Miss(c, k)
  \/ LookupRow(c) \/ LookupQuotas(c)

Next ==
  \/ \E a \in Admins : Administer(a)
  \/ \E c \in Clients : Lookup(c)
  \/ \E a \in Actors : Store(a)
  \/ Restart

Spec == Init /\ [][Next]_vars

-----------------------------------------------------------------------------
(* Types: rows, quotas, entries and what each request holds. A request     *)
(* about to store or drop an entry knows its key, and never stores one as  *)
(* if a refresh had.                                                       *)
OpOK(o) ==
  /\ o.step \in {"store", "delete", "drop", "lookup", "lookupQuotas"} => o.key \in Keys
  /\ o.step \in {"store", "lookupQuotas"} => o.entry \in Entry /\ o.entry.from # "load"

TypeOK ==
  /\ rows \in [Keys -> Row \cup {Unborn, Deleted}]
  /\ quotas \in [Keys -> Quotas \cup {NoQuotas}]
  /\ cache \in [Keys -> Entry \cup {NoEntry}]
  /\ op \in [Actors -> OpSet]
  /\ \A a \in Actors : OpOK(op[a])

(* A key never outlives or orphans its Model Quotas (keys.go:861-862): no  *)
(* order of edits and deletions leaves quotas without a key.               *)
NoOrphanQuotas == \A k \in Keys : quotas[k] # NoQuotas => Exists(k)

LoadPending    == \E a \in Actors : op[a].step \in {"quotas", "rows"}
DropPending(k) == \E a \in Actors : op[a].step = "drop" /\ op[a].key = k

(* What a refresh has put in the cache says of activity and access what    *)
(* the database says, as long as no edit is on its way: a key an           *)
(* administrator has switched off or restricted is refused once every edit *)
(* has returned, and a deleted key is gone once its deletion has, in any   *)
(* order of edits. Nothing like it holds of the Model Quotas, which are    *)
(* read in another query, nor of entries stored by creations and lookups.  *)
LoadedEntryCurrent ==
  \A k \in Keys :
    cache[k] # NoEntry /\ cache[k].from = "load" =>
      \/ Exists(k) /\ cache[k].active = rows[k].active /\ cache[k].access = rows[k].access
      \/ Exists(k) /\ LoadPending
      \/ DropPending(k)
=============================================================================
