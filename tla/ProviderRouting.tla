--------------------------- MODULE ProviderRouting ---------------------------
(***************************************************************************)
(* The rows of providers, the routing of a requested model to one          *)
(* (internal/providers, its endpoints in internal/handler/handler.go, the  *)
(* repair of the default provider when the database is opened), and whom   *)
(* the rows of models belong to (applyListing of internal/models).         *)
(*                                                                         *)
(* A mutex makes every operation on providers one step; a sync of models   *)
(* does not take it, and each of its statements is a step. A model name is *)
(* a sequence of segments, and a prefix is one: "p/m" is <<"p", "m">>.     *)
(***************************************************************************)
EXTENDS Naturals, FiniteSets, SequencesExt

CONSTANTS
  PrefixNames,   \* prefixes that administrators choose
  RandomIds,     \* bound: ids made of random bytes, reused once forgotten
  MaxName,       \* bound: display names are numbers, in their order
  Bare,          \* bound: names of models without a prefix
  Syncs          \* syncs of models that may overlap

NoPrefix == "no prefix"
NoRow    == "no row"
Nobody   == "nobody"   \* an empty provider_id

ASSUME RoutingAssumption ==
  /\ MaxName \in Nat \ {0}
  /\ PrefixNames \cap RandomIds = {} /\ NoPrefix \notin PrefixNames
  /\ {NoPrefix, NoRow, Nobody} \cap (PrefixNames \cup RandomIds) = {}

Ids      == PrefixNames \cup RandomIds
Heads    == PrefixNames \cup {NoPrefix}
Forms    == [prefix : Heads, name : 1 .. MaxName, default : BOOLEAN, active : BOOLEAN]

VARIABLES
  order,         \* the ids in use, oldest row first
  provider,      \* what the row of an id says
  models,        \* owners of the rows of models; one stands for all that
                 \* begin with the same prefix, or with none
  sync           \* what a sync has fetched and not yet written; history: who
                 \* was deleted since

modelVars   == <<models, sync>>
routingVars == <<order, provider, modelVars>>

Nothing == [h \in Heads |-> NoRow]

Blank          == [prefix |-> NoPrefix, name |-> 1, default |-> FALSE, active |-> FALSE]
Existing       == ToSet(order)
Default(S)     == {i \in S : provider[i].default}
Active(S)      == {i \in S : provider[i].active}

-----------------------------------------------------------------------------
(* ListProviders: the default first, active ones, names; rows that are     *)
(* alike come in their order in the table.                                 *)
Age(i) == CHOOSE n \in DOMAIN order : order[n] = i

(* Mutant: listed by name alone.                                           *)
ByName(i, j) ==
  LET a == provider[i]
      b == provider[j]
  IN  IF a.name # b.name THEN a.name < b.name ELSE Age(i) < Age(j)

Before(i, j) ==
  LET a == provider[i]
      b == provider[j]
  IN  IF a.default # b.default THEN a.default
      ELSE IF a.active # b.active THEN a.active
      ELSE IF a.name # b.name THEN a.name < b.name
      ELSE Age(i) < Age(j)

First(S) == CHOOSE i \in S : \A j \in S \ {i} : Before(i, j)

Usable == Active(Existing)

(* FindProviderForModel: by prefix, else the default provider if it is     *)
(* active, else the first active one.                                      *)
Matching(m) == {i \in Usable : Len(m) > 1 /\ provider[i].prefix = Head(m)}

FindProviderForModel(m) ==
  IF Matching(m) # {} THEN First(Matching(m))
  ELSE IF Default(Usable) # {} THEN First(Default(Usable))
  ELSE First(Usable)

(* ResolveModelID: the canonical Model ID.                                 *)
ResolveModelID(m) ==
  LET i      == FindProviderForModel(m)
      actual == IF Matching(m) # {} THEN Tail(m) ELSE m
  IN  IF provider[i].prefix = NoPrefix THEN actual ELSE <<provider[i].prefix>> \o actual

-----------------------------------------------------------------------------
RoutingInit ==
  /\ order = <<>> /\ provider = [i \in Ids |-> Blank]
  /\ models = Nothing
  /\ sync = [s \in Syncs |-> [swept |-> TRUE, listing |-> Nothing, gone |-> {}]]

(* Mutant: the others keep the mark.                                       *)
PutBeside(i, f, default) == provider' = [provider EXCEPT ![i] = [f EXCEPT !.default = default]]

(* The row of i becomes f; a default takes the mark from all others.       *)
Put(i, f, default) ==
  provider' = [j \in Ids |->
    IF j = i THEN [f EXCEPT !.default = default]
    ELSE IF default THEN [provider[j] EXCEPT !.default = FALSE] ELSE provider[j]]

(* Mutant: the prefix is the id, taken or not.                             *)
CreateReusesId(i, f) ==
  /\ i = f.prefix
  /\ order' = Append(order, i)
  /\ Put(i, f, f.default \/ Default(Existing) = {})
  /\ UNCHANGED modelVars

(* The id is the prefix, or random when that is taken or there is none;    *)
(* without any default this one becomes it.                                *)
CreateProvider(i, f) ==
  /\ i \notin Existing
  /\ IF f.prefix \in PrefixNames \ Existing THEN i = f.prefix ELSE i \in RandomIds
  /\ order' = Append(order, i)
  /\ Put(i, f, f.default \/ Default(Existing) = {})
  /\ UNCHANGED modelVars

(* Mutant: the default mark is taken off as the form says.                 *)
UpdateAsSaid(i, f) ==
  /\ i \in Existing
  /\ Put(i, f, f.default)
  /\ UNCHANGED <<order, modelVars>>

(* The default provider keeps the mark, whatever the form says.            *)
UpdateProvider(i, f) ==
  /\ i \in Existing
  /\ Put(i, f, f.default \/ Default(Existing \ {i}) = {})
  /\ UNCHANGED <<order, modelVars>>

SetDefaultProvider(i) ==
  /\ i \in Existing
  /\ provider' = [j \in Ids |-> [provider[j] EXCEPT !.default = (j = i)]]
  /\ UNCHANGED <<order, modelVars>>

ToggleProvider(i, active) ==
  /\ i \in Existing
  /\ provider' = [provider EXCEPT ![i].active = active]
  /\ UNCHANGED <<order, modelVars>>

(* Mutant: the rows filed under its prefix are forgotten.                  *)
OwnRows(i) == {h \in Heads : models[h] = i}

(* The models that go with a provider: its own, and what bears its prefix, *)
(* whoever owns it.                                                        *)
ModelsOf(i) ==
  {h \in Heads : \/ models[h] = i
                 \/ provider[i].prefix # NoPrefix /\ provider[i].prefix \in {models[h], h}}

Oldest(S) == CHOOSE i \in S : \A j \in S : Age(i) <= Age(j)

WithoutRows(S) == [h \in Heads |-> IF h \in S THEN NoRow ELSE models[h]]

Done(s) == sync[s].swept /\ sync[s].listing = Nothing

NoteDeleted(i) ==
  sync' = [s \in Syncs |-> IF Done(s) THEN sync[s] ELSE [sync[s] EXCEPT !.gone = @ \cup {i}]]

(* Mutant: nobody inherits the mark.                                       *)
DeleteWithoutHeir(i) ==
  /\ i \in Existing
  /\ order' = RemoveAt(order, Age(i))
  /\ provider' = [provider EXCEPT ![i] = Blank]
  /\ models' = WithoutRows(ModelsOf(i)) /\ NoteDeleted(i)

(* The oldest active provider inherits the mark of the default one.        *)
DeleteProvider(i) ==
  /\ i \in Existing
  /\ order' = RemoveAt(order, Age(i))
  /\ LET heirs == Active(Existing \ {i})
         left  == [provider EXCEPT ![i] = Blank]
     IN  provider' = IF provider[i].default /\ heirs # {}
                     THEN [left EXCEPT ![Oldest(heirs)].default = TRUE] ELSE left
  /\ models' = WithoutRows(ModelsOf(i)) /\ NoteDeleted(i)

(* Deleting what is no longer there still deletes the rows it owns.        *)
DeleteForgotten(i) ==
  /\ i \notin Existing
  /\ models' = WithoutRows({h \in Heads : models[h] = i})
  /\ UNCHANGED <<order, provider, sync>>

-----------------------------------------------------------------------------
(* A sync of models, as far as owners go (ModelCatalog has the rest).      *)

(* Model IDs that i lists begin with its prefix, or as upstream likes.     *)
Lists(i, h) == i \in Usable /\ provider[i].prefix \in {h, NoPrefix}

(* AggregateModels: of those that list a Model ID, one is taken for it; a  *)
(* provider may fail to answer.                                            *)
AggregateModels(s) ==
  /\ Done(s)
  /\ \E L \in [Heads -> Usable \cup {NoRow}] :
       /\ \A h \in Heads : L[h] = NoRow \/ Lists(L[h], h)
       /\ sync' = [sync EXCEPT ![s] = [swept |-> FALSE, listing |-> L, gone |-> {}]]
  /\ UNCHANGED <<order, provider, models>>

(* What is filed under neither an id nor a prefix.                         *)
Filed   == Existing \cup {provider[i].prefix : i \in Existing}
Orphans == {h \in Heads : models[h] # NoRow /\ models[h] \notin Filed}

SweepOrphans(s) ==
  /\ ~ sync[s].swept
  /\ models' = WithoutRows(Orphans)
  /\ sync' = [sync EXCEPT ![s].swept = TRUE]
  /\ UNCHANGED <<order, provider>>

(* An upsert takes the row over for who listed it, there or not.           *)
RegisterModel(s, h) ==
  /\ sync[s].swept /\ sync[s].listing[h] # NoRow
  /\ models' = [models EXCEPT ![h] = sync[s].listing[h]]
  /\ sync' = [sync EXCEPT ![s].listing[h] = NoRow]
  /\ UNCHANGED <<order, provider>>

(* SetModelEnabled files an unknown Model ID under the text before its     *)
(* slash.                                                                  *)
EnableUnknown(h) ==
  /\ models[h] = NoRow
  /\ models' = [models EXCEPT ![h] = IF h = NoPrefix THEN Nobody ELSE h]
  /\ UNCHANGED <<order, provider, sync>>

DeleteModel(h) ==
  /\ models' = WithoutRows({h})
  /\ UNCHANGED <<order, provider, sync>>

(* A start promotes an active provider when there is no default; that it   *)
(* also takes away all marks but one changes nothing (OneDefault).         *)
RoutingRestart ==
  /\ provider' =
       IF Default(Existing) = {} /\ Usable # {}
       THEN [provider EXCEPT ![Oldest(Usable)].default = TRUE] ELSE provider
  /\ sync' = [s \in Syncs |-> [swept |-> TRUE, listing |-> Nothing, gone |-> {}]]
  /\ UNCHANGED <<order, models>>

RoutingNext ==
  \/ \E i \in Ids, f \in Forms : CreateProvider(i, f) \/ UpdateProvider(i, f)
  \/ \E i \in Ids : SetDefaultProvider(i) \/ DeleteProvider(i) \/ DeleteForgotten(i)
  \/ \E i \in Ids, active \in BOOLEAN : ToggleProvider(i, active)
  \/ \E s \in Syncs : AggregateModels(s) \/ SweepOrphans(s)
  \/ \E s \in Syncs, h \in Heads : RegisterModel(s, h)
  \/ \E h \in Heads : EnableUnknown(h) \/ DeleteModel(h)
  \/ RoutingRestart

RoutingSpec == RoutingInit /\ [][RoutingNext]_routingVars

-----------------------------------------------------------------------------
RoutingTypeOK ==
  /\ order \in Seq(Ids) /\ IsInjective(order)
  /\ provider \in [Ids -> Forms]
  /\ models \in [Heads -> Ids \cup {Nobody, NoRow}]
  /\ sync \in [Syncs -> [swept : BOOLEAN, listing : [Heads -> Ids \cup {NoRow}],
                         gone : SUBSET Ids]]

(* "Ensure at most one default provider exists".                           *)
OneDefault == Cardinality(Default(Existing)) <= 1

(* A default provider is lost only with the last active one: whatever is   *)
(* created, edited, switched off and deleted, the mark stays or passes on. *)
DefaultKept ==
  [][Default(Existing) # {} /\ Default(Existing)' = {} => Usable' = {}]_routingVars

Requested ==
  {<<b>> : b \in Bare} \cup (PrefixNames \X Bare) \cup (PrefixNames \X PrefixNames \X Bare)

(* ADR 0008: the canonical Model ID is what quotas and traffic count by. A *)
(* model asked for by its canonical ID is the same model of the same       *)
(* provider, whoever shares the prefix and however requests are written.   *)
CanonicalIsFixed ==
  Usable # {} => \A m \in Requested :
    LET c == ResolveModelID(m)
    IN  ResolveModelID(c) = c /\ FindProviderForModel(c) = FindProviderForModel(m)

(* These, for one run.                                                     *)
RoutingIsSound == OneDefault /\ CanonicalIsFixed

(* A provider takes its models along when it is deleted, however they came *)
(* to be filed under it. A row that no provider is left for is one that a  *)
(* sync writes from a listing older than a deletion, that was enabled by   *)
(* hand without a listing, or whose provider got another prefix (the rows  *)
(* that the next sync sweeps).                                             *)
OrphansHaveACause ==
  [][ \A h \in Orphans' \ Orphans :
        \/ \E s \in Syncs : sync[s].listing[h] = models'[h] /\ models'[h] \in sync[s].gone
        \/ models[h] = NoRow /\ models'[h] \in {h, Nobody}
        \/ \E i \in Existing \cap Existing' :
             provider[i].prefix = models[h] /\ provider'[i].prefix # models[h] ]_routingVars
=============================================================================
