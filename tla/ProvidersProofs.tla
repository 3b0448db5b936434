-------------------------- MODULE ProvidersProofs ---------------------------
(***************************************************************************)
(* Proofs about MCProviders: syncs that overlap remove no more than their  *)
(* listings warrant (ModelCatalog), and the rows of providers always give  *)
(* one answer to where a request goes (ProviderRouting).                   *)
(***************************************************************************)
EXTENDS CatalogProofs, MCProviders, SequenceTheorems, WellFoundedInduction, TLAPS

-----------------------------------------------------------------------------
(* MCProviders. A sync that a truncated listing of r was fetched for owes  *)
(* it until r is marked; a removal that is held back is owed as well. Each *)
(* of them takes a truncated listing of its own.                           *)
Short(r, L) == Of(r, L) # {} /\ Of(r, L) # Of(r, Models)

Owes(o, r) == /\ Short(r, o.listing)
              /\ o.step \in {"orphans", "register"} \/ (o.step = "mark" /\ r \in o.left)

Paid(r) ==
  /\ r \in pending => truncated >= 1
  /\ \A a \in Actors : Owes(op[a], r) => truncated >= 1
  /\ \A a \in Actors : r \in pending /\ Owes(op[a], r) => truncated >= 2
  /\ \A a, b \in Actors : a # b /\ Owes(op[a], r) /\ Owes(op[b], r) => truncated >= 2

GuardInv ==
  /\ CatalogInv
  /\ catalog = Models /\ configured = Providers /\ truncated \in Nat
  /\ \A a \in Actors : op[a].step = "mark" => \A r \in op[a].left : Of(r, op[a].listing) # {}
  /\ \A r \in Providers : Paid(r)

SyncsInv == part = "syncs" => GuardInv

LEMMA AllListed == ASSUME GuardInv PROVE Listed = Models
  BY ProviderAssumption DEF GuardInv, Listed

LEMMA TruncatedIsShort ==
  ASSUME GuardInv, NEW r \in Providers, NEW L
  PROVE  Truncated(r, L) <=> Short(r, L)
  BY AllListed DEF Truncated, Short

LEMMA GuardInitInv == ProvidersInit => SyncsInv
<1> SUFFICES ASSUME ProvidersInit, part = "syncs" PROVE GuardInv
  BY DEF SyncsInv
<1>1. CatalogInv
  BY CatalogInitInv DEF ProvidersInit
<1>2. \A a \in Actors : op[a] = Idle
  BY DEF ProvidersInit, Init
<1>3. Idle.step = "idle"
  BY DEF Idle
<1>4. \A a \in Actors, r \in Providers : ~ Owes(op[a], r)
  BY <1>2, <1>3 DEF Owes
<1> QED
  BY <1>1, <1>2, <1>3, <1>4 DEF GuardInv, Paid, ProvidersInit, Init

(* A step that leaves no more to pay for.                                  *)
LEMMA QuietStep ==
  ASSUME GuardInv, CatalogInv', UNCHANGED <<catalog, configured, truncated>>,
         pending' \subseteq pending,
         \A b \in Actors : op'[b].step = "mark" => \A r \in op'[b].left : Of(r, op'[b].listing) # {},
         \A b \in Actors, r \in Providers : Owes(op'[b], r) => Owes(op[b], r)
  PROVE  GuardInv'
<1>1. ASSUME NEW r \in Providers PROVE Paid(r)'
  <2>1. Paid(r)
    BY DEF GuardInv
  <2> QED
    BY <2>1 DEF Paid
<1> QED
  BY <1>1 DEF GuardInv

(* A turn of one actor that owes no more than before.                      *)
LEMMA QuietTurn ==
  ASSUME GuardInv, CatalogInv', UNCHANGED <<catalog, configured, truncated>>,
         pending' \subseteq pending, NEW a \in Actors,
         \A b \in Actors : b # a => op'[b] = op[b],
         op'[a].step = "mark" => \A r \in op'[a].left : Of(r, op'[a].listing) # {},
         \A r \in Providers : Owes(op'[a], r) => Owes(op[a], r)
  PROVE  GuardInv'
<1>1. \A b \in Actors : op'[b].step = "mark" => \A r \in op'[b].left : Of(r, op'[b].listing) # {}
  BY DEF GuardInv
<1>2. \A b \in Actors, r \in Providers : Owes(op'[b], r) => Owes(op[b], r)
  OBVIOUS
<1> QED
  BY <1>1, <1>2, QuietStep

LEMMA FetchGuard ==
  ASSUME GuardInv, CatalogInv', NEW a \in Actors, NEW L \in SUBSET Models, Fetch(a, L),
         \/ UNCHANGED truncated /\ \A r \in Providers : ~ Truncated(r, L)
         \/ truncated' = truncated + 1
  PROVE  GuardInv'
<1>1. /\ op'[a].step = "orphans" /\ op'[a].listing = L /\ \A b \in Actors : b # a => op'[b] = op[b]
      /\ truncated \in Nat
  <2>1. Turns(a, "orphans", L, op[a].left, op[a].snap, op[a].group, op[a].kept) /\ op \in [Actors -> OpSet]
    BY SyncTurns DEF GuardInv, CatalogInv, OpsOK
  <2> QED
    BY <2>1, TurnsTo DEF GuardInv
<1>2. UNCHANGED <<catalog, configured, pending>>
  BY DEF Fetch, tables
<1>3. CASE UNCHANGED truncated /\ \A r \in Providers : ~ Truncated(r, L)
  <2>1. \A r \in Providers : ~ Owes(op'[a], r)
    BY <1>1, <1>3, TruncatedIsShort DEF Owes
  <2> QED
    BY <1>1, <1>2, <1>3, <2>1, QuietTurn
<1>4. CASE truncated' = truncated + 1
  <2>1. ASSUME NEW r \in Providers PROVE Paid(r)'
    <3>1. Paid(r)
      BY DEF GuardInv
    <3>2. truncated' >= 1 /\ (truncated >= 1 => truncated' >= 2)
      BY <1>1, <1>4
    <3>3. r \in pending /\ Owes(op'[a], r) => truncated' >= 2
      BY <3>1, <3>2 DEF Paid
    <3>4. \A b \in Actors : b # a /\ Owes(op'[b], r) => truncated' >= 2
      BY <1>1, <3>1, <3>2 DEF Paid
    <3>5. \A b \in Actors : r \in pending' /\ Owes(op'[b], r) => truncated' >= 2
      BY <1>2, <3>3, <3>4
    <3>6. \A b, c \in Actors : b # c /\ Owes(op'[b], r) /\ Owes(op'[c], r) => truncated' >= 2
      BY <3>4
    <3> QED
      BY <3>2, <3>5, <3>6 DEF Paid
  <2>2. truncated' \in Nat
    BY <1>1, <1>4
  <2>3. \A b \in Actors : op'[b].step = "mark" => \A r \in op'[b].left : Of(r, op'[b].listing) # {}
    BY <1>1 DEF GuardInv
  <2> QED
    BY <1>2, <2>1, <2>2, <2>3 DEF GuardInv
<1> QED
  BY <1>3, <1>4

(* A mass removal of a provider that listed anything takes a short listing.*)
LEMMA MassRemovalOwes ==
  ASSUME GuardInv, NEW a \in Actors, NEW r \in Providers, op[a].step = "mark",
         r \in op[a].left, MassRemoval(a, r)
  PROVE  Owes(op[a], r)
<1>1. op[a].listing \in SUBSET Models /\ Of(r, op[a].listing) # {}
  BY OpsTyped DEF GuardInv, CatalogInv
<1>2. Missing(a, r) # {}
  <2>1. IsFiniteSet(Of(r, Present))
    <3>1. Of(r, Present) \subseteq Models
      BY DEF Of, Present
    <3> QED
      BY <3>1, FS_Subset, ProviderAssumption
  <2>2. Cardinality(Of(r, Present)) \in Nat /\ Cardinality({}) = 0
    BY <2>1, FS_CardinalityType, FS_EmptySet
  <2> QED
    BY <2>2 DEF MassRemoval
<1>3. Of(r, op[a].listing) # Of(r, Models)
  BY <1>1, <1>2 DEF Missing, Of, Present
<1> QED
  BY <1>1, <1>3 DEF Owes, Short

LEMMA MarkGuard ==
  ASSUME GuardInv, CatalogInv', NEW a \in Actors, NEW r \in Providers, Mark(a, r), UNCHANGED truncated
  PROVE  GuardInv'
<1>0. op \in [Actors -> OpSet] /\ op[a].step = "mark" /\ r \in op[a].left
  BY DEF GuardInv, CatalogInv, OpsOK, Mark
<1>1. /\ op'[a].step = "mark" /\ op'[a].listing = op[a].listing /\ op'[a].left = op[a].left \ {r}
      /\ \A b \in Actors : b # a => op'[b] = op[b]
  <2>1. Turns(a, op[a].step, op[a].listing, op[a].left \ {r}, op[a].snap, op[a].group, op[a].kept)
    BY <1>0, SyncTurns
  <2> QED
    BY <1>0, <2>1, TurnsTo
<1>2. UNCHANGED <<catalog, configured>>
  BY DEF Mark
<1>3. op'[a].step = "mark" => \A x \in op'[a].left : Of(x, op'[a].listing) # {}
  BY <1>0, <1>1 DEF GuardInv
<1>4. \A x \in Providers : Owes(op'[a], x) => Owes(op[a], x) /\ x # r
  BY <1>0, <1>1 DEF Owes
<1>5. CASE MassRemoval(a, r) /\ r \notin pending
  <2>1. Owes(op[a], r) /\ pending' = pending \cup {r}
    BY <1>0, <1>5, MassRemovalOwes DEF Mark
  <2>2. ASSUME NEW x \in Providers PROVE Paid(x)'
    <3>1. Paid(x)
      BY DEF GuardInv
    <3>2. CASE x # r
      BY <1>1, <1>4, <2>1, <3>1, <3>2 DEF Paid
    <3>3. CASE x = r
      <4>1. \A b \in Actors : Owes(op'[b], x) => b # a /\ Owes(op[b], x)
        BY <1>1, <1>4, <3>3
      <4>2. \A b \in Actors : Owes(op'[b], x) => truncated >= 2
        BY <2>1, <3>1, <3>3, <4>1 DEF Paid
      <4>3. truncated >= 1
        BY <2>1, <3>1, <3>3 DEF Paid
      <4> QED
        BY <4>2, <4>3 DEF Paid
    <3> QED
      BY <3>2, <3>3
  <2>3. \A b \in Actors : op'[b].step = "mark" => \A x \in op'[b].left : Of(x, op'[b].listing) # {}
    BY <1>1, <1>3 DEF GuardInv
  <2> QED
    BY <1>2, <2>2, <2>3 DEF GuardInv
<1>6. CASE ~ (MassRemoval(a, r) /\ r \notin pending)
  <2>1. pending' \subseteq pending
    BY <1>6 DEF Mark
  <2> QED
    BY <1>1, <1>2, <1>3, <1>4, <2>1, QuietTurn
<1> QED
  BY <1>5, <1>6

(* Every other statement of a sync, an edit or a reload.                   *)
LEMMA ContinueGuard ==
  ASSUME GuardInv, CatalogInv', NEW a \in Actors, UNCHANGED truncated,
         \/ DeleteOrphans(a) \/ LockPending(a) \/ EndSync(a) \/ (\E m \in Models : Register(a, m))
         \/ ReadGroups(a) \/ LoadAvailability(a) \/ SwapCache(a)
         \/ DeleteGroup(a) \/ PruneFilter(a) \/ PruneWrite(a)
  PROVE  GuardInv'
<1> DEFINE x == op[a]
<1>0. op \in [Actors -> OpSet] /\ x.listing \in SUBSET Models
  BY OpsTyped DEF GuardInv, CatalogInv, OpsOK
<1>1. UNCHANGED <<catalog, configured, pending>>
  BY DEF DeleteOrphans, LockPending, EndSync, Register, ReadGroups, LoadAvailability, SwapCache,
         DeleteGroup, PruneFilter,
               PruneWrite, tables
<1>2. CASE DeleteOrphans(a)
  <2>1. Turns(a, "register", x.listing, x.listing, x.snap, x.group, x.kept) /\ x.step = "orphans"
    BY <1>0, <1>2, SyncTurns DEF DeleteOrphans
  <2>2. /\ op'[a].step = "register" /\ op'[a].listing = x.listing
        /\ \A b \in Actors : b # a => op'[b] = op[b]
    BY <1>0, <2>1, TurnsTo
  <2>3. \A r \in Providers : Owes(op'[a], r) => Owes(op[a], r)
    BY <2>1, <2>2 DEF Owes
  <2> QED
    BY <1>1, <2>2, <2>3, QuietTurn
<1>3. ASSUME NEW m \in Models, Register(a, m) PROVE GuardInv'
  <2>1. Turns(a, x.step, x.listing, x.left \ {m}, x.snap, x.group, x.kept) /\ x.step = "register"
    BY <1>0, <1>3, SyncTurns DEF Register
  <2>2. /\ op'[a].step = "register" /\ op'[a].listing = x.listing
        /\ \A b \in Actors : b # a => op'[b] = op[b]
    BY <1>0, <2>1, TurnsTo
  <2>3. \A r \in Providers : Owes(op'[a], r) => Owes(op[a], r)
    BY <2>1, <2>2 DEF Owes
  <2> QED
    BY <1>1, <1>3, <2>2, <2>3, QuietTurn
<1>4. CASE LockPending(a)
  <2> DEFINE S == {ProviderOf[m] : m \in x.listing}
  <2>1. Turns(a, "mark", x.listing, S, x.snap, x.group, x.kept) /\ x.step = "register"
    BY <1>0, <1>4, SyncTurns DEF LockPending
  <2>2. \A r \in S : Of(r, x.listing) # {}
    BY DEF Of
  <2> HIDE DEF S
  <2>3. /\ op'[a].step = "mark" /\ op'[a].listing = x.listing /\ op'[a].left = S
        /\ \A b \in Actors : b # a => op'[b] = op[b]
    BY <1>0, <2>1, TurnsTo
  <2>4. \A r \in Providers : Owes(op'[a], r) => Owes(op[a], r)
    BY <2>1, <2>3 DEF Owes
  <2> QED
    BY <1>1, <2>2, <2>3, <2>4, QuietTurn
<1>5. ASSUME op'[a].step \in {"reload", "avail", "swap", "idle", "prune"},
             \A b \in Actors : b # a => op'[b] = op[b]
      PROVE  GuardInv'
  <2>1. \A r \in Providers : ~ Owes(op'[a], r)
    BY <1>5 DEF Owes
  <2> QED
    BY <1>1, <1>5, <2>1, QuietTurn
<1>6. CASE EndSync(a)
  <2>1. Turns(a, "reload", {}, x.left, x.snap, x.group, x.kept)
    BY <1>0, <1>6, SyncTurns
  <2> QED
    BY <1>0, <1>5, <2>1, TurnsTo
<1>7. CASE ReadGroups(a)
  <2>1. Turns(a, "avail", x.listing, x.left, groups, x.group, x.kept)
    BY <1>0, <1>7, ReloadTurns
  <2> QED
    BY <1>0, <1>5, <2>1, TurnsTo
<1>8. CASE LoadAvailability(a)
  <2>1. Turns(a, "swap", x.listing, x.left, x.snap, x.group, Removed)
    BY <1>0, <1>8, ReloadTurns
  <2> QED
    BY <1>0, <1>5, <2>1, TurnsTo
<1>9. CASE SwapCache(a) \/ DeleteGroup(a) \/ PruneWrite(a)
  <2>1. Back(a, "idle") \/ Back(a, "reload")
    BY <1>0, <1>9, ReloadTurns, EditTurns
  <2> QED
    BY <1>0, <1>5, <2>1, TurnsTo DEF Back
<1>10. CASE PruneFilter(a)
  <2>1. Back(a, "reload") \/ Turns(a, "prune", x.listing, x.left, x.snap, x.group, x.kept \ Removed)
    BY <1>0, <1>10, EditTurns
  <2> QED
    BY <1>0, <1>5, <2>1, TurnsTo DEF Back
<1> QED
  BY <1>2, <1>3, <1>4, <1>6, <1>7, <1>8, <1>9, <1>10

LEMMA GuardSteps == GuardInv /\ GuardNext => GuardInv'
<1> SUFFICES ASSUME GuardInv, GuardNext PROVE GuardInv'
  OBVIOUS
<1>1. Next
  <2>1. \A a \in Actors, m \in Models : DeleteModels(a, {m}) => Administer(a)
    BY DEF Administer
  <2> QED
    BY <2>1 DEF GuardNext, Next, Disturb
<1>2. CatalogInv'
  BY <1>1, CatalogNextInv DEF GuardInv
<1>3. ASSUME NEW a \in Actors, FetchWhole(a) \/ FetchPart(a), UNCHANGED truncated PROVE GuardInv'
  <2>1. PICK L \in SUBSET Models : Fetch(a, L) /\ \A r \in Providers : ~ Truncated(r, L)
    <3>1. CASE FetchWhole(a)
      BY <3>1, AllListed DEF FetchWhole, Truncated
    <3>2. CASE FetchPart(a)
      BY <3>2, AllListed DEF FetchPart
    <3> QED
      BY <1>3, <3>1, <3>2
  <2> QED
    BY <1>2, <1>3, <2>1, FetchGuard
<1>4. ASSUME NEW a \in Actors, FetchTruncated(a), truncated' = truncated + 1 PROVE GuardInv'
  <2>1. PICK L \in SUBSET Models : Fetch(a, L)
    BY <1>4, AllListed DEF FetchTruncated
  <2> QED
    BY <1>2, <1>4, <2>1, FetchGuard
<1>5. ASSUME NEW a \in Actors, Continue(a), UNCHANGED truncated PROVE GuardInv'
  BY <1>2, <1>5, MarkGuard, ContinueGuard DEF Continue
<1>6. ASSUME NEW a \in Actors, NEW S, DeleteModels(a, S), UNCHANGED truncated PROVE GuardInv'
  <2>1. UNCHANGED <<catalog, configured, pending, op>>
    BY <1>6 DEF DeleteModels
  <2>2. \A b \in Actors : op'[b].step = "mark" => \A r \in op'[b].left : Of(r, op'[b].listing) # {}
    BY <2>1 DEF GuardInv
  <2> QED
    BY <1>2, <1>6, <2>1, <2>2, QuietStep
<1>7. ASSUME Restart, UNCHANGED truncated PROVE GuardInv'
  <2>1. \A b \in Actors : op'[b].step = "idle"
    BY <1>7, IdleIs DEF Restart, Doing
  <2>2. UNCHANGED <<catalog, configured>> /\ pending' = {}
    BY <1>7 DEF Restart, tables
  <2>3. \A b \in Actors, r \in Providers : ~ Owes(op'[b], r)
    BY <2>1 DEF Owes
  <2> QED
    BY <1>2, <1>7, <2>1, <2>2, <2>3, QuietStep
<1> QED
  BY <1>3, <1>4, <1>5, <1>6, <1>7 DEF GuardNext

LEMMA GuardNextInv == SyncsInv /\ [ProvidersNext]_providersVars => SyncsInv'
<1> SUFFICES ASSUME GuardInv, part = "syncs", [ProvidersNext]_providersVars PROVE GuardInv'
  BY DEF SyncsInv, ProvidersNext, providersVars
<1>1. CASE GuardNext
  BY <1>1, GuardSteps
<1>2. CASE UNCHANGED guardVars
  BY <1>2 DEF GuardInv, CatalogInv, TypeOK, OpsOK, Paid, guardVars, vars, tables, memory
<1> QED
  BY <1>1, <1>2 DEF ProvidersNext, providersVars

(* Only the marking of a provider's missing models removes any.            *)
LEMMA OnlyMarksRemove ==
  ASSUME GuardInv, part = "syncs", [ProvidersNext]_providersVars
  PROVE  \/ Removed' \subseteq Removed
         \/ \E a \in Actors, r \in Providers :
              Mark(a, r) /\ Removed' \ Removed \subseteq Missing(a, r) /\ (MassRemoval(a, r) => r \in pending)
<1>0. rows \in [Models -> {"absent", "present", "removed"}]
  BY DEF GuardInv, CatalogInv, TypeOK
<1>1. CASE UNCHANGED rows
  BY <1>1 DEF Removed
<1>2. ASSUME NEW a \in Actors, \E L : Fetch(a, L) PROVE UNCHANGED rows
  BY <1>2 DEF Fetch, tables
<1>3. ASSUME NEW a \in Actors, NEW r \in Providers, Mark(a, r)
      PROVE  \/ Removed' \subseteq Removed
             \/ Removed' \ Removed \subseteq Missing(a, r) /\ (MassRemoval(a, r) => r \in pending)
  BY <1>0, <1>3 DEF Mark, Removed
<1>4. ASSUME NEW a \in Actors, DeleteOrphans(a) \/ \E m \in Models : Register(a, m)
      PROVE  Removed' \subseteq Removed
  BY <1>0, <1>4 DEF DeleteOrphans, Register, Removed
<1>5. ASSUME NEW a \in Actors, NEW S, DeleteModels(a, S) PROVE Removed' \subseteq Removed
  BY <1>0, <1>5 DEF DeleteModels, Removed
<1>6. CASE Restart
  BY <1>1, <1>6 DEF Restart, tables
<1>7. ASSUME NEW a \in Actors,
             \/ LockPending(a) \/ EndSync(a) \/ ReadGroups(a) \/ LoadAvailability(a) \/ SwapCache(a)
             \/ DeleteGroup(a) \/ PruneFilter(a) \/ PruneWrite(a)
      PROVE  UNCHANGED rows
  BY <1>7 DEF LockPending, EndSync, ReadGroups, LoadAvailability, SwapCache, DeleteGroup, PruneFilter,
               PruneWrite,
              tables
<1>8. ASSUME NEW a \in Actors, Continue(a)
      PROVE  \/ UNCHANGED rows \/ Removed' \subseteq Removed \/ \E r \in Providers : Mark(a, r)
  BY <1>4, <1>7, <1>8 DEF Continue
<1>9. CASE GuardNext
  <2>1. CASE \E a \in Actors : FetchWhole(a) \/ FetchPart(a) \/ FetchTruncated(a)
    BY <1>1, <1>2, <2>1 DEF FetchWhole, FetchPart, FetchTruncated
  <2>2. CASE \E a \in Actors : Continue(a)
    BY <1>1, <1>3, <1>8, <2>2
  <2>3. CASE \E a \in Actors, m \in Models : DeleteModels(a, {m})
    BY <1>5, <2>3
  <2> QED
    BY <1>6, <1>9, <2>1, <2>2, <2>3 DEF GuardNext
<1>10. CASE UNCHANGED guardVars
  BY <1>1, <1>10 DEF guardVars, vars, tables
<1> QED
  BY <1>9, <1>10 DEF ProvidersNext, providersVars

LEMMA MassRemovalIsPaid ==
  ASSUME GuardInv, part = "syncs", [ProvidersNext]_providersVars, NEW r \in Providers,
         2 * Cardinality(Of(r, Removed' \ Removed)) > Cardinality(Of(r, Present))
  PROVE  truncated >= 2
<1> DEFINE R == Of(r, Removed' \ Removed)
           n == Cardinality(Of(r, Present))
<1>1. IsFiniteSet(Of(r, Present)) /\ n \in Nat /\ Cardinality({}) = 0
  <2>1. Of(r, Present) \subseteq Models
    BY DEF Of, Present
  <2> QED
    BY <2>1, FS_Subset, FS_CardinalityType, FS_EmptySet, ProviderAssumption
<1>2. R # {}
  <2>1. 2 * Cardinality(R) > n
    OBVIOUS
  <2>2. ~ (2 * 0 > n)
    BY <1>1
  <2> HIDE DEF R, n
  <2> QED
    BY <1>1, <2>1, <2>2
<1>3. PICK a \in Actors, x \in Providers :
        Mark(a, x) /\ Removed' \ Removed \subseteq Missing(a, x) /\ (MassRemoval(a, x) => x \in pending)
  BY <1>2, OnlyMarksRemove DEF Of
<1>4. R \subseteq Missing(a, x) /\ Missing(a, x) \subseteq Of(x, Present)
  BY <1>3 DEF Missing, Of
<1>5. x = r
  BY <1>2, <1>4 DEF Of
<1>6. MassRemoval(a, r)
  <2>1. IsFiniteSet(Missing(a, r)) /\ Cardinality(R) <= Cardinality(Missing(a, r))
    BY <1>1, <1>4, <1>5, FS_Subset
  <2>2. Cardinality(Missing(a, r)) \in Nat /\ Cardinality(R) \in Nat
    BY <1>4, <1>5, <2>1, FS_Subset, FS_CardinalityType
  <2>3. 2 * Cardinality(R) > n
    OBVIOUS
  <2> HIDE DEF R, n
  <2>4. 2 * Cardinality(Missing(a, r)) > n
    BY <1>1, <2>1, <2>2, <2>3
  <2> QED
    BY <2>4 DEF MassRemoval, n
<1>7. op[a].step = "mark" /\ r \in op[a].left /\ r \in pending
  BY <1>3, <1>5, <1>6 DEF Mark
<1>8. Owes(op[a], r)
  BY <1>6, <1>7, MassRemovalOwes
<1> QED
  BY <1>7, <1>8 DEF GuardInv, Paid

(* However syncs of the same providers, deletions by an administrator and  *)
(* a restart overlap: a mass removal from a provider takes two truncated   *)
(* listings of it (applyListing).                                          *)
THEOREM ShortListingsAreHeld == ProvidersSpec => OneShortListingIsHeld
<1>1. SyncsInv /\ [ProvidersNext]_providersVars
        => [ part = "syncs" => \A r \in Providers :
               2 * Cardinality(Of(r, Removed' \ Removed)) > Cardinality(Of(r, Present))
                 => truncated >= 2 ]_guardVars
  BY MassRemovalIsPaid DEF SyncsInv
<1> QED
  BY <1>1, GuardInitInv, GuardNextInv, PTL DEF ProvidersSpec, OneShortListingIsHeld

-----------------------------------------------------------------------------
(* ProviderRouting. A set of numbers has a least one.                      *)
LEMMA LeastNat ==
  ASSUME NEW S \in SUBSET Nat, S # {}
  PROVE  \E n \in S : \A m \in S : n <= m
<1>1. IsWellFoundedOn(OpToRel(<, Nat), Nat)
  BY NatLessThanWellFounded, Zenon
<1>2. PICK n \in S : \A m \in S : ~ (<<m, n>> \in OpToRel(<, Nat))
  BY <1>1, WFMin, Zenon
<1>3. \A x, y \in Nat : x < y => <<x, y>> \in OpToRel(<, Nat)
  BY Zenon DEF OpToRel
<1>4. ASSUME NEW m \in S PROVE n <= m
  <2>1. m \in Nat /\ n \in Nat /\ ~ (m < n)
    BY <1>2, <1>3, Zenon
  <2> QED
    BY <2>1
<1> QED
  BY <1>4

(* What a list without repetitions is with one more at its end.            *)
LEMMA ListGrows ==
  ASSUME NEW T, NEW s \in Seq(T), IsInjective(s), NEW x \in T, x \notin ToSet(s)
  PROVE  /\ Append(s, x) \in Seq(T) /\ IsInjective(Append(s, x))
         /\ ToSet(Append(s, x)) = ToSet(s) \cup {x}
<1> DEFINE t == Append(s, x)
<1>1. /\ t \in Seq(T) /\ DOMAIN t = 1 .. Len(s) + 1 /\ DOMAIN s = 1 .. Len(s) /\ Len(s) \in Nat
      /\ \A n \in 1 .. Len(s) : t[n] = s[n]
      /\ t[Len(s) + 1] = x
  OBVIOUS
<1> HIDE DEF t
<1>2. 1 .. Len(s) + 1 = (1 .. Len(s)) \cup {Len(s) + 1}
  BY <1>1
<1>3. \A n \in DOMAIN s : s[n] # x
  BY DEF ToSet
<1>4. \A a, b \in DOMAIN t : t[a] = t[b] => a = b
  BY <1>1, <1>2, <1>3 DEF IsInjective
<1>5. {t[n] : n \in DOMAIN t} = {s[n] : n \in DOMAIN s} \cup {x}
  BY <1>1, <1>2
<1> QED
  BY <1>1, <1>4, <1>5 DEF t, ToSet, IsInjective

(* What it is without the one at position n.                               *)
LEMMA ListShrinks ==
  ASSUME NEW T, NEW s \in Seq(T), IsInjective(s), NEW n \in 1 .. Len(s)
  PROVE  /\ RemoveAt(s, n) \in Seq(T) /\ IsInjective(RemoveAt(s, n))
         /\ ToSet(RemoveAt(s, n)) = ToSet(s) \ {s[n]}
<1> DEFINE t == RemoveAt(s, n)
           At(k) == IF k < n THEN k ELSE k + 1
<1>1. /\ t \in Seq(T) /\ Len(t) = Len(s) - 1 /\ Len(s) \in Nat \ {0} /\ n \in Nat
      /\ \A k \in 1 .. Len(t) : t[k] = s[At(k)]
  <2> DEFINE u == SubSeq(s, 1, n - 1)
             v == SubSeq(s, n + 1, Len(s))
  <2>1. Len(s) \in Nat \ {0} /\ n \in 1 .. Len(s)
    OBVIOUS
  <2>2. u \in Seq(T) /\ Len(u) = n - 1 /\ \A k \in 1 .. n - 1 : u[k] = s[k]
    BY <2>1
  <2>3. v \in Seq(T) /\ Len(v) = Len(s) - n /\ \A k \in 1 .. Len(s) - n : v[k] = s[n + k]
    BY <2>1
  <2>4. t = u \o v
    BY DEF RemoveAt
  <2> HIDE DEF u, v, t
  <2>5. /\ t \in Seq(T) /\ Len(t) = Len(u) + Len(v)
        /\ \A k \in 1 .. Len(u) + Len(v) : t[k] = IF k <= Len(u) THEN u[k] ELSE v[k - Len(u)]
    BY <2>2, <2>3, <2>4, ConcatProperties, Zenon
  <2>6. Len(t) = Len(s) - 1
    BY <2>1, <2>2, <2>3, <2>5
  <2>7. ASSUME NEW k \in 1 .. Len(t) PROVE t[k] = s[At(k)]
    <3>1. CASE k < n
      BY <3>1, <2>1, <2>2, <2>3, <2>5, <2>6
    <3>2. CASE k >= n
      <4>1. t[k] = v[k - Len(u)] /\ k - Len(u) \in 1 .. Len(s) - n
        BY <3>2, <2>1, <2>2, <2>3, <2>5, <2>6
      <4>2. n + (k - Len(u)) = k + 1
        BY <2>1, <2>2, <2>6
      <4> QED
        BY <4>1, <4>2, <3>2, <2>1, <2>3
    <3> QED
      BY <3>1, <3>2, <2>1, <2>6
  <2> QED
    BY <2>1, <2>5, <2>6, <2>7
<1>2. DOMAIN t = 1 .. Len(s) - 1 /\ DOMAIN s = 1 .. Len(s)
  BY <1>1
<1>3. \A k \in 1 .. Len(s) - 1 : At(k) \in 1 .. Len(s) /\ At(k) # n
  BY <1>1
<1>4. \A k, m \in 1 .. Len(s) - 1 : At(k) = At(m) => k = m
  BY <1>1
<1>5. \A j \in 1 .. Len(s) : j # n => \E k \in 1 .. Len(s) - 1 : At(k) = j
  <2>1. SUFFICES ASSUME NEW j \in 1 .. Len(s), j # n
                 PROVE  \E k \in 1 .. Len(s) - 1 : At(k) = j
    OBVIOUS
  <2>2. CASE j < n
    <3>1. j \in 1 .. Len(s) - 1 /\ At(j) = j
      BY <2>1, <2>2, <1>1
    <3> QED
      BY <3>1
  <2>3. CASE j > n
    <3>1. j - 1 \in 1 .. Len(s) - 1 /\ At(j - 1) = j
      BY <2>1, <2>3, <1>1
    <3> QED
      BY <3>1
  <2> QED
    BY <2>1, <2>2, <2>3, <1>1
<1> HIDE DEF t, At
<1>6. \A a, b \in DOMAIN s : s[a] = s[b] => a = b
  BY DEF IsInjective
<1>7. \A a, b \in DOMAIN t : t[a] = t[b] => a = b
  BY <1>1, <1>2, <1>3, <1>4, <1>6
<1>8. {t[k] : k \in DOMAIN t} = {s[j] : j \in DOMAIN s} \ {s[n]}
  <2>1. \A k \in DOMAIN t : t[k] \in {s[j] : j \in DOMAIN s} \ {s[n]}
    BY <1>1, <1>2, <1>3, <1>6
  <2>2. \A j \in DOMAIN s : s[j] # s[n] => \E k \in DOMAIN t : t[k] = s[j]
    BY <1>1, <1>2, <1>5
  <2> QED
    BY <2>1, <2>2
<1> QED
  BY <1>1, <1>7, <1>8 DEF t, ToSet, IsInjective

(* A row in use has a place in the table, of its own.                      *)
LEMMA Ages ==
  ASSUME RoutingTypeOK
  PROVE  /\ Existing \in SUBSET Ids
         /\ \A i \in Existing : Age(i) \in 1 .. Len(order) /\ order[Age(i)] = i
         /\ \A i, j \in Existing : Age(i) = Age(j) => i = j
<1>1. order \in Seq(Ids) /\ DOMAIN order = 1 .. Len(order)
  BY DEF RoutingTypeOK
<1>2. Existing \in SUBSET Ids
  BY <1>1 DEF Existing, ToSet
<1>3. \A i \in Existing : Age(i) \in 1 .. Len(order) /\ order[Age(i)] = i
  BY <1>1 DEF Existing, ToSet, Age
<1> QED
  BY <1>2, <1>3

LEMMA OldestIsOne ==
  ASSUME RoutingTypeOK, NEW S \in SUBSET Existing, S # {}
  PROVE  Oldest(S) \in S
<1>1. /\ \A i \in S : Age(i) \in Nat
  BY Ages
<1> DEFINE A == {Age(i) : i \in S}
<1>2. A \in SUBSET Nat /\ A # {}
  BY <1>1
<1>3. PICK n \in A : \A m \in A : n <= m
  BY <1>2, LeastNat
<1>4. \E i \in S : \A j \in S : Age(i) <= Age(j)
  BY <1>3
<1> QED
  BY <1>4 DEF Oldest

(* No two rows in use bear the mark of the default provider.               *)
AtMostOne == \A i, j \in Existing : provider[i].default /\ provider[j].default => i = j

(* Whoever a sync has listed was there when it asked.                      *)
ListedWereThere ==
  \A s \in Syncs, h \in Heads : sync[s].listing[h] \in Existing \cup sync[s].gone \cup {NoRow}

RoutingInv == RoutingTypeOK /\ AtMostOne /\ ListedWereThere

(* What a row is once it is written or its mark changed.                   *)
LEMMA RowsStayRows ==
  ASSUME NEW f \in Forms, NEW d \in BOOLEAN
  PROVE  /\ [f EXCEPT !.default = d] \in Forms /\ [f EXCEPT !.default = d].default = d
         /\ [f EXCEPT !.default = d].active = f.active
         /\ [f EXCEPT !.active = d] \in Forms /\ [f EXCEPT !.active = d].default = f.default
         /\ [f EXCEPT !.active = d].active = d
BY DEF Forms

LEMMA BlankIsARow == Blank \in Forms /\ ~ Blank.default /\ ~ Blank.active
BY RoutingAssumption DEF Blank, Forms, Heads

(* Writing a row gives it the mark it asks for, and takes it from others.  *)
LEMMA PutWrites ==
  ASSUME RoutingTypeOK, NEW i \in Ids, NEW f \in Forms, NEW d \in BOOLEAN, Put(i, f, d)
  PROVE  /\ provider' \in [Ids -> Forms]
         /\ provider'[i].default = d
         /\ \A j \in Ids \ {i} : provider'[j].default = (provider[j].default /\ ~ d)
<1>1. provider \in [Ids -> Forms]
  BY DEF RoutingTypeOK
<1>2. /\ provider' = [j \in Ids |-> IF j = i THEN [f EXCEPT !.default = d]
                                    ELSE IF d THEN [provider[j] EXCEPT !.default = FALSE]
                                    ELSE provider[j]]
  BY DEF Put
<1>3. \A j \in Ids : /\ [provider[j] EXCEPT !.default = FALSE] \in Forms
                     /\ [provider[j] EXCEPT !.default = FALSE].default = FALSE
  BY <1>1, RowsStayRows
<1>4. [f EXCEPT !.default = d] \in Forms /\ [f EXCEPT !.default = d].default = d
  BY RowsStayRows
<1>5. provider' \in [Ids -> Forms]
  BY <1>1, <1>2, <1>3, <1>4
<1>6. \A j \in Ids : provider[j].default \in BOOLEAN
  BY <1>1 DEF Forms
<1>7. ASSUME NEW j \in Ids \ {i} PROVE provider'[j].default = (provider[j].default /\ ~ d)
  BY <1>2, <1>3, <1>6
<1> QED
  BY <1>2, <1>4, <1>5, <1>7

(* Giving one row the mark changes nothing else.                           *)
LEMMA MarkGiven ==
  ASSUME NEW P \in [Ids -> Forms], NEW h \in Ids
  PROVE  /\ [P EXCEPT ![h].default = TRUE] \in [Ids -> Forms]
         /\ [P EXCEPT ![h].default = TRUE][h].default
         /\ \A j \in Ids \ {h} : [P EXCEPT ![h].default = TRUE][j] = P[j]
         /\ \A j \in Ids : [P EXCEPT ![h].default = TRUE][j].active = P[j].active
<1>1. /\ [P[h] EXCEPT !.default = TRUE] \in Forms /\ [P[h] EXCEPT !.default = TRUE].default
      /\ [P[h] EXCEPT !.default = TRUE].active = P[h].active
  BY RowsStayRows
<1> QED
  BY <1>1

LEMMA RoutingStarts == RoutingInit => RoutingInv
<1> SUFFICES ASSUME RoutingInit PROVE RoutingInv
  OBVIOUS
<1>1. order \in Seq(Ids) /\ DOMAIN order = {}
  BY DEF RoutingInit
<1>2. IsInjective(order) /\ Existing = {}
  BY <1>1 DEF IsInjective, Existing, ToSet
<1> QED
  BY <1>1, <1>2, BlankIsARow DEF RoutingInit, RoutingInv, RoutingTypeOK, AtMostOne, ListedWereThere, Nothing

(* What a deletion notes of the syncs under way.                           *)
LEMMA NotedTyped ==
  ASSUME RoutingTypeOK, NEW i \in Ids, NoteDeleted(i)
  PROVE  sync' \in [Syncs -> [swept : BOOLEAN, listing : [Heads -> Ids \cup {NoRow}], gone : SUBSET Ids]]
  BY DEF NoteDeleted, RoutingTypeOK

LEMMA NotedListed ==
  ASSUME RoutingTypeOK, ListedWereThere, NEW i \in Ids, NoteDeleted(i)
  PROVE  \A s \in Syncs, h \in Heads :
           sync'[s].listing[h] \in (Existing \ {i}) \cup sync'[s].gone \cup {NoRow}
<1> SUFFICES ASSUME NEW s \in Syncs, NEW h \in Heads
             PROVE  sync'[s].listing[h] \in (Existing \ {i}) \cup sync'[s].gone \cup {NoRow}
  OBVIOUS
<1>1. sync[s].listing[h] \in Existing \cup sync[s].gone \cup {NoRow}
  BY DEF ListedWereThere
<1>2. CASE Done(s)
  <2>1. sync'[s] = sync[s] /\ sync[s].listing[h] = NoRow
    BY <1>2 DEF NoteDeleted, Done, Nothing
  <2> QED
    BY <2>1
<1>3. CASE ~ Done(s)
  <2>1. sync'[s].listing = sync[s].listing /\ sync'[s].gone = sync[s].gone \cup {i}
    BY <1>3 DEF NoteDeleted, RoutingTypeOK
  <2> QED
    BY <1>1, <2>1
<1> QED
  BY <1>2, <1>3

(* A provider that is created is one more; with a mark it is the only one  *)
(* that has it.                                                            *)
LEMMA CreateKeeps ==
  ASSUME RoutingInv, NEW i \in Ids, NEW f \in Forms, CreateProvider(i, f)
  PROVE  RoutingInv' /\ (Default(Existing) # {} => Default(Existing)' # {})
<1> DEFINE d == f.default \/ Default(Existing) = {}
<1>0. RoutingTypeOK /\ AtMostOne /\ ListedWereThere
  BY DEF RoutingInv
<1>1. d \in BOOLEAN
  BY DEF Forms
<1>2. i \notin Existing /\ order' = Append(order, i) /\ Put(i, f, d) /\ models' = models /\ sync' = sync
  BY DEF CreateProvider, modelVars
<1>3. /\ order' \in Seq(Ids) /\ IsInjective(order') /\ Existing' = Existing \cup {i}
  BY <1>0, <1>2, ListGrows DEF RoutingTypeOK, Existing
<1>4. /\ provider' \in [Ids -> Forms] /\ provider'[i].default = d
      /\ \A j \in Ids \ {i} : provider'[j].default = (provider[j].default /\ ~ d)
  BY <1>0, <1>1, <1>2, PutWrites
<1>5. Existing \in SUBSET Ids
  BY <1>0, Ages
<1>6. ~ d => \E j \in Existing : provider[j].default
  BY DEF Default
<1> HIDE DEF d
<1>7. RoutingTypeOK'
  BY <1>0, <1>2, <1>3, <1>4 DEF RoutingTypeOK
<1>8. AtMostOne'
  BY <1>0, <1>2, <1>3, <1>4, <1>5 DEF AtMostOne
<1>9. ListedWereThere'
  BY <1>0, <1>2, <1>3 DEF ListedWereThere
<1>10. Default(Existing)' # {}
  <2>1. CASE d
    BY <2>1, <1>3, <1>4 DEF Default
  <2>2. CASE ~ d
    <3>1. PICK j \in Existing : provider[j].default
      BY <2>2, <1>6
    <3>2. j \in Existing' /\ provider'[j].default
      BY <3>1, <2>2, <1>2, <1>3, <1>4, <1>5
    <3> QED
      BY <3>2 DEF Default
  <2> QED
    BY <2>1, <2>2, <1>1
<1> QED
  BY <1>7, <1>8, <1>9, <1>10 DEF RoutingInv

(* The row that has the mark keeps it when it is edited.                   *)
LEMMA UpdateKeeps ==
  ASSUME RoutingInv, NEW i \in Ids, NEW f \in Forms, UpdateProvider(i, f)
  PROVE  RoutingInv' /\ (Default(Existing) # {} => Default(Existing)' # {})
<1> DEFINE d == f.default \/ Default(Existing \ {i}) = {}
<1>0. RoutingTypeOK /\ AtMostOne /\ ListedWereThere
  BY DEF RoutingInv
<1>1. d \in BOOLEAN
  BY DEF Forms
<1>2. i \in Existing /\ order' = order /\ Put(i, f, d) /\ models' = models /\ sync' = sync
  BY DEF UpdateProvider, modelVars
<1>3. Existing' = Existing
  BY <1>2 DEF Existing
<1>4. /\ provider' \in [Ids -> Forms] /\ provider'[i].default = d
      /\ \A j \in Ids \ {i} : provider'[j].default = (provider[j].default /\ ~ d)
  BY <1>0, <1>1, <1>2, PutWrites
<1>5. Existing \in SUBSET Ids
  BY <1>0, Ages
<1>6. ~ d => \E j \in Existing \ {i} : provider[j].default
  BY DEF Default
<1> HIDE DEF d
<1>7. RoutingTypeOK'
  BY <1>0, <1>2, <1>4 DEF RoutingTypeOK
<1>8. AtMostOne'
  BY <1>0, <1>3, <1>4, <1>5 DEF AtMostOne
<1>9. ListedWereThere'
  BY <1>0, <1>2, <1>3 DEF ListedWereThere
<1>10. Default(Existing)' # {}
  <2>1. CASE d
    BY <2>1, <1>2, <1>3, <1>4 DEF Default
  <2>2. CASE ~ d
    <3>1. PICK j \in Existing \ {i} : provider[j].default
      BY <2>2, <1>6
    <3>2. j \in Existing' /\ provider'[j].default
      BY <3>1, <2>2, <1>3, <1>4, <1>5
    <3> QED
      BY <3>2 DEF Default
  <2> QED
    BY <2>1, <2>2, <1>1
<1> QED
  BY <1>7, <1>8, <1>9, <1>10 DEF RoutingInv

LEMMA SetDefaultKeeps ==
  ASSUME RoutingInv, NEW i \in Ids, SetDefaultProvider(i)
  PROVE  RoutingInv' /\ Default(Existing)' # {}
<1>0. RoutingTypeOK /\ AtMostOne /\ ListedWereThere
  BY DEF RoutingInv
<1>1. /\ i \in Existing /\ order' = order /\ models' = models /\ sync' = sync
      /\ provider' = [j \in Ids |-> [provider[j] EXCEPT !.default = (j = i)]]
  BY DEF SetDefaultProvider, modelVars
<1>2. Existing' = Existing /\ Existing \in SUBSET Ids
  BY <1>0, <1>1, Ages DEF Existing
<1>3. \A j \in Ids : /\ [provider[j] EXCEPT !.default = (j = i)] \in Forms
                     /\ [provider[j] EXCEPT !.default = (j = i)].default = (j = i)
  <2> SUFFICES ASSUME NEW j \in Ids
               PROVE  /\ [provider[j] EXCEPT !.default = (j = i)] \in Forms
                      /\ [provider[j] EXCEPT !.default = (j = i)].default = (j = i)
    OBVIOUS
  <2> DEFINE d == (j = i)
  <2>1. d \in BOOLEAN /\ provider[j] \in Forms
    BY <1>0 DEF RoutingTypeOK
  <2> HIDE DEF d
  <2>2. [provider[j] EXCEPT !.default = d] \in Forms /\ [provider[j] EXCEPT !.default = d].default = d
    BY <2>1, RowsStayRows
  <2> QED
    BY <2>2 DEF d
<1>4. provider' \in [Ids -> Forms] /\ \A j \in Ids : provider'[j].default = (j = i)
  BY <1>1, <1>3
<1>5. RoutingTypeOK'
  BY <1>0, <1>1, <1>4 DEF RoutingTypeOK
<1>6. AtMostOne'
  BY <1>2, <1>4 DEF AtMostOne
<1>7. ListedWereThere'
  BY <1>0, <1>1, <1>2 DEF ListedWereThere
<1>8. Default(Existing)' # {}
  BY <1>1, <1>2, <1>4 DEF Default
<1> QED
  BY <1>5, <1>6, <1>7, <1>8 DEF RoutingInv

LEMMA ToggleKeeps ==
  ASSUME RoutingInv, NEW i \in Ids, NEW active \in BOOLEAN, ToggleProvider(i, active)
  PROVE  RoutingInv' /\ (Default(Existing) # {} => Default(Existing)' # {})
<1>0. RoutingTypeOK /\ AtMostOne /\ ListedWereThere
  BY DEF RoutingInv
<1>1. /\ i \in Existing /\ order' = order /\ models' = models /\ sync' = sync
      /\ provider' = [provider EXCEPT ![i].active = active]
  BY DEF ToggleProvider, modelVars
<1>2. Existing' = Existing /\ Existing \in SUBSET Ids
  BY <1>0, <1>1, Ages DEF Existing
<1>3. /\ [provider[i] EXCEPT !.active = active] \in Forms
      /\ [provider[i] EXCEPT !.active = active].default = provider[i].default
  BY <1>0, RowsStayRows DEF RoutingTypeOK
<1>4. provider' \in [Ids -> Forms] /\ \A j \in Ids : provider'[j].default = provider[j].default
  BY <1>0, <1>1, <1>3 DEF RoutingTypeOK
<1>5. RoutingTypeOK'
  BY <1>0, <1>1, <1>4 DEF RoutingTypeOK
<1>6. AtMostOne'
  BY <1>0, <1>2, <1>4 DEF AtMostOne
<1>7. ListedWereThere'
  BY <1>0, <1>1, <1>2 DEF ListedWereThere
<1>8. Default(Existing) # {} => Default(Existing)' # {}
  BY <1>2, <1>4 DEF Default
<1> QED
  BY <1>5, <1>6, <1>7, <1>8 DEF RoutingInv

(* The mark of a deleted provider goes to an active one, and its models go *)
(* with it.                                                                *)
LEMMA DeleteKeeps ==
  ASSUME RoutingInv, NEW i \in Ids, DeleteProvider(i)
  PROVE  /\ RoutingInv'
         /\ Default(Existing) # {} /\ Default(Existing)' = {} => Usable' = {}
<1> DEFINE heirs == Active(Existing \ {i})
           left  == [provider EXCEPT ![i] = Blank]
           h     == Oldest(heirs)
           m     == provider[i].default /\ heirs # {}
<1>0. RoutingTypeOK /\ AtMostOne /\ ListedWereThere
  BY DEF RoutingInv
<1>1. /\ i \in Existing /\ order' = RemoveAt(order, Age(i))
      /\ models' = WithoutRows(ModelsOf(i)) /\ NoteDeleted(i)
      /\ provider' = IF m THEN [left EXCEPT ![h].default = TRUE] ELSE left
  BY DEF DeleteProvider
<1>2. Existing \in SUBSET Ids /\ Age(i) \in 1 .. Len(order) /\ order[Age(i)] = i
  BY <1>0, <1>1, Ages
<1>3. order' \in Seq(Ids) /\ IsInjective(order') /\ Existing' = Existing \ {i}
  BY <1>0, <1>1, <1>2, ListShrinks DEF RoutingTypeOK, Existing
<1>4. heirs \in SUBSET Existing /\ heirs \in SUBSET (Existing \ {i})
  BY DEF Active
<1>5. heirs # {} => h \in heirs
  BY <1>0, <1>4, OldestIsOne
<1>6. heirs = {j \in Existing \ {i} : provider[j].active}
  BY DEF Active
<1>7. provider \in [Ids -> Forms]
  BY <1>0 DEF RoutingTypeOK
<1>8. left \in [Ids -> Forms] /\ left[i] = Blank /\ \A j \in Ids \ {i} : left[j] = provider[j]
  BY <1>7, BlankIsARow
<1>9. m \in BOOLEAN
  BY <1>7 DEF Forms
<1>10. m => heirs # {} /\ provider[i].default
  OBVIOUS
<1>11. ~ m => ~ provider[i].default \/ heirs = {}
  OBVIOUS
<1> HIDE DEF heirs, h, m, left
<1>12. /\ provider' \in [Ids -> Forms]
       /\ \A j \in Ids \ {i} : provider'[j].active = provider[j].active
       /\ m => h \in Existing \ {i} /\ provider'[h].default
       /\ \A j \in Ids \ {i} : ~ m \/ j # h => provider'[j].default = provider[j].default
  <2>1. CASE m
    <3>1. h \in Ids \ {i} /\ h \in Existing \ {i}
      BY <2>1, <1>2, <1>4, <1>5, <1>10
    <3>2. provider' = [left EXCEPT ![h].default = TRUE]
      BY <2>1, <1>1
    <3>3. /\ provider' \in [Ids -> Forms] /\ provider'[h].default
          /\ \A j \in Ids \ {h} : provider'[j] = left[j]
          /\ \A j \in Ids : provider'[j].active = left[j].active
      BY <3>1, <3>2, <1>8, MarkGiven
    <3> QED
      BY <2>1, <3>1, <3>3, <1>8
  <2>2. CASE ~ m
    BY <2>2, <1>1, <1>8
  <2> QED
    BY <2>1, <2>2, <1>9
<1>13. RoutingTypeOK'
  <2>1. models' \in [Heads -> Ids \cup {Nobody, NoRow}]
    BY <1>0, <1>1 DEF RoutingTypeOK, WithoutRows
  <2>2. sync' \in [Syncs -> [swept : BOOLEAN, listing : [Heads -> Ids \cup {NoRow}], gone : SUBSET Ids]]
    BY <1>0, <1>1, NotedTyped
  <2> QED
    BY <2>1, <2>2, <1>3, <1>12 DEF RoutingTypeOK
<1>14. AtMostOne'
  <2> SUFFICES ASSUME NEW j \in Existing \ {i}, NEW k \in Existing \ {i},
                      provider'[j].default, provider'[k].default
               PROVE  j = k
    BY <1>3 DEF AtMostOne
  <2>1. j \in Ids \ {i} /\ k \in Ids \ {i}
    BY <1>2
  <2>2. CASE m
    <3>1. \A n \in Existing \ {i} : ~ provider[n].default
      BY <2>2, <1>0, <1>1, <1>10 DEF AtMostOne
    <3> QED
      BY <3>1, <2>1, <1>12
  <2>3. CASE ~ m
    BY <2>1, <2>3, <1>0, <1>12 DEF AtMostOne
  <2> QED
    BY <2>2, <2>3, <1>9
<1>15. ListedWereThere'
  BY <1>0, <1>1, <1>3, NotedListed DEF ListedWereThere
<1>16. ASSUME Default(Existing) # {}, Default(Existing)' = {}
       PROVE  Usable' = {}
  <2>1. \A j \in Existing \ {i} : ~ provider'[j].default
    BY <1>3, <1>16 DEF Default
  <2>2. ~ m
    BY <2>1, <1>12
  <2>3. provider[i].default
    <3>1. PICK j \in Existing : provider[j].default
      BY <1>16 DEF Default
    <3> QED
      BY <3>1, <2>1, <2>2, <1>2, <1>12
  <2>4. heirs = {}
    BY <2>2, <2>3, <1>11
  <2>5. \A j \in Existing \ {i} : ~ provider'[j].active
    BY <2>4, <1>2, <1>6, <1>12
  <2> QED
    BY <2>5, <1>3 DEF Usable, Active
<1> QED
  BY <1>13, <1>14, <1>15, <1>16 DEF RoutingInv

(* The other steps write rows of models, and leave providers alone.        *)
LEMMA ModelsKeep ==
  ASSUME RoutingInv, UNCHANGED <<order, provider>>,
         models' \in [Heads -> Ids \cup {Nobody, NoRow}],
         sync' \in [Syncs -> [swept : BOOLEAN, listing : [Heads -> Ids \cup {NoRow}], gone : SUBSET Ids]],
         \A s \in Syncs, h \in Heads : sync'[s].listing[h] \in Existing \cup sync'[s].gone \cup {NoRow}
  PROVE  RoutingInv' /\ Default(Existing)' = Default(Existing) /\ Existing' = Existing
<1>1. Existing' = Existing
  BY DEF Existing
<1> QED
  BY <1>1 DEF RoutingInv, RoutingTypeOK, AtMostOne, ListedWereThere, Default

LEMMA AggregateKeeps ==
  ASSUME RoutingInv, NEW s \in Syncs, AggregateModels(s)
  PROVE  RoutingInv' /\ Default(Existing)' = Default(Existing) /\ Existing' = Existing
<1>0. RoutingTypeOK /\ ListedWereThere
  BY DEF RoutingInv
<1>1. PICK L \in [Heads -> Usable \cup {NoRow}] :
        sync' = [sync EXCEPT ![s] = [swept |-> FALSE, listing |-> L, gone |-> {}]]
  BY DEF AggregateModels
<1>2. Usable \in SUBSET Existing /\ Existing \in SUBSET Ids
  BY <1>0, Ages DEF Usable, Active
<1>3. L \in [Heads -> Ids \cup {NoRow}] /\ \A h \in Heads : L[h] \in Existing \cup {NoRow}
  BY <1>1, <1>2
<1>4. \A t \in Syncs : sync'[t] = IF t = s THEN [swept |-> FALSE, listing |-> L, gone |-> {}] ELSE sync[t]
  BY <1>0, <1>1 DEF RoutingTypeOK
<1>5. sync' \in [Syncs -> [swept : BOOLEAN, listing : [Heads -> Ids \cup {NoRow}], gone : SUBSET Ids]]
  BY <1>0, <1>1, <1>3 DEF RoutingTypeOK
<1>6. \A t \in Syncs, h \in Heads : sync'[t].listing[h] \in Existing \cup sync'[t].gone \cup {NoRow}
  BY <1>0, <1>3, <1>4 DEF ListedWereThere
<1> QED
  BY <1>0, <1>5, <1>6, ModelsKeep DEF AggregateModels, RoutingTypeOK

LEMMA SweepKeeps ==
  ASSUME RoutingInv, NEW s \in Syncs, SweepOrphans(s)
  PROVE  RoutingInv' /\ Default(Existing)' = Default(Existing) /\ Existing' = Existing
<1>0. RoutingTypeOK /\ ListedWereThere
  BY DEF RoutingInv
<1>1. models' \in [Heads -> Ids \cup {Nobody, NoRow}]
  BY <1>0 DEF SweepOrphans, WithoutRows, RoutingTypeOK
<1>2. sync' = [sync EXCEPT ![s].swept = TRUE]
  BY DEF SweepOrphans
<1>3. sync' \in [Syncs -> [swept : BOOLEAN, listing : [Heads -> Ids \cup {NoRow}], gone : SUBSET Ids]]
  BY <1>0, <1>2 DEF RoutingTypeOK
<1>4. \A t \in Syncs : sync'[t].listing = sync[t].listing /\ sync'[t].gone = sync[t].gone
  BY <1>0, <1>2 DEF RoutingTypeOK
<1> QED
  BY <1>0, <1>1, <1>3, <1>4, ModelsKeep DEF SweepOrphans, ListedWereThere

LEMMA RegisterKeeps ==
  ASSUME RoutingInv, NEW s \in Syncs, NEW h \in Heads, RegisterModel(s, h)
  PROVE  RoutingInv' /\ Default(Existing)' = Default(Existing) /\ Existing' = Existing
<1>0. RoutingTypeOK /\ ListedWereThere
  BY DEF RoutingInv
<1>1. models' \in [Heads -> Ids \cup {Nobody, NoRow}]
  BY <1>0 DEF RegisterModel, RoutingTypeOK
<1>2. sync' = [sync EXCEPT ![s].listing[h] = NoRow]
  BY DEF RegisterModel
<1>3. sync' \in [Syncs -> [swept : BOOLEAN, listing : [Heads -> Ids \cup {NoRow}], gone : SUBSET Ids]]
  BY <1>0, <1>2 DEF RoutingTypeOK
<1>4. \A t \in Syncs, k \in Heads : /\ sync'[t].listing[k] \in {sync[t].listing[k], NoRow}
                                  /\ sync'[t].gone = sync[t].gone
  BY <1>0, <1>2 DEF RoutingTypeOK
<1>5. \A t \in Syncs, k \in Heads : sync'[t].listing[k] \in Existing \cup sync'[t].gone \cup {NoRow}
  BY <1>0, <1>4 DEF ListedWereThere
<1> QED
  BY <1>1, <1>3, <1>5, ModelsKeep DEF RegisterModel

LEMMA ByHandKeeps ==
  ASSUME RoutingInv,
         \/ \E h \in Heads : EnableUnknown(h) \/ DeleteModel(h)
         \/ \E i \in Ids : DeleteForgotten(i)
  PROVE  RoutingInv' /\ Default(Existing)' = Default(Existing) /\ Existing' = Existing
<1>0. RoutingTypeOK /\ ListedWereThere
  BY DEF RoutingInv
<1>1. models' \in [Heads -> Ids \cup {Nobody, NoRow}]
  BY <1>0 DEF EnableUnknown, DeleteModel, DeleteForgotten, WithoutRows, RoutingTypeOK, Heads, Ids
<1>2. UNCHANGED <<order, provider, sync>>
  BY DEF EnableUnknown, DeleteModel, DeleteForgotten
<1> QED
  BY <1>0, <1>1, <1>2, ModelsKeep DEF RoutingTypeOK, ListedWereThere

LEMMA RestartKeeps ==
  ASSUME RoutingInv, RoutingRestart
  PROVE  RoutingInv' /\ (Default(Existing) # {} => Default(Existing)' # {})
<1>0. RoutingTypeOK /\ AtMostOne /\ ListedWereThere
  BY DEF RoutingInv
<1>1. /\ order' = order /\ models' = models
      /\ sync' = [s \in Syncs |-> [swept |-> TRUE, listing |-> Nothing, gone |-> {}]]
  BY DEF RoutingRestart
<1>a. /\ sync' \in [Syncs -> [swept : BOOLEAN, listing : [Heads -> Ids \cup {NoRow}], gone : SUBSET Ids]]
      /\ ListedWereThere'
  BY <1>1 DEF Nothing, ListedWereThere
<1>2. Existing' = Existing /\ Existing \in SUBSET Ids
  BY <1>0, <1>1, Ages DEF Existing
<1>3. CASE Default(Existing) = {} /\ Usable # {}
  <2> DEFINE h == Oldest(Usable)
  <2>1. Usable \in SUBSET Existing
    BY DEF Usable, Active
  <2>2. h \in Existing /\ h \in Ids
    BY <2>1, <1>0, <1>2, <1>3, OldestIsOne
  <2>3. provider' = [provider EXCEPT ![h].default = TRUE]
    BY <1>3 DEF RoutingRestart
  <2> HIDE DEF h
  <2>4. /\ provider' \in [Ids -> Forms]
        /\ \A j \in Ids \ {h} : provider'[j] = provider[j]
    BY <2>2, <2>3, <1>0, MarkGiven DEF RoutingTypeOK
  <2>5. \A j \in Existing : ~ provider[j].default
    BY <1>3 DEF Default
  <2>6. RoutingTypeOK'
    BY <2>4, <1>0, <1>1, <1>a DEF RoutingTypeOK
  <2>7. AtMostOne'
    BY <2>4, <2>5, <1>2 DEF AtMostOne
  <2> QED
    BY <2>6, <2>7, <1>a, <1>3 DEF RoutingInv
<1>4. CASE ~ (Default(Existing) = {} /\ Usable # {})
  <2>1. provider' = provider
    BY <1>4 DEF RoutingRestart
  <2> QED
    BY <2>1, <1>0, <1>1, <1>a, <1>2
    DEF RoutingInv, RoutingTypeOK, AtMostOne, ListedWereThere, Default
<1> QED
  BY <1>3, <1>4

LEMMA RoutingSteps ==
  ASSUME RoutingInv, [RoutingNext]_routingVars
  PROVE  /\ RoutingInv'
         /\ Default(Existing) # {} /\ Default(Existing)' = {} => Usable' = {}
<1>1. CASE UNCHANGED routingVars
  BY <1>1 DEF routingVars, modelVars, RoutingInv, RoutingTypeOK, AtMostOne, ListedWereThere, Existing, Default
<1>2. CASE \E i \in Ids, f \in Forms : CreateProvider(i, f) \/ UpdateProvider(i, f)
  BY <1>2, CreateKeeps, UpdateKeeps
<1>3. CASE \E i \in Ids : SetDefaultProvider(i) \/ DeleteProvider(i)
  BY <1>3, SetDefaultKeeps, DeleteKeeps
<1>4. CASE \E i \in Ids, active \in BOOLEAN : ToggleProvider(i, active)
  BY <1>4, ToggleKeeps
<1>5. CASE RoutingRestart
  BY <1>5, RestartKeeps
<1>6. CASE \E s \in Syncs : AggregateModels(s) \/ SweepOrphans(s)
  BY <1>6, AggregateKeeps, SweepKeeps
<1>7. CASE \E s \in Syncs, h \in Heads : RegisterModel(s, h)
  BY <1>7, RegisterKeeps
<1>8. CASE \/ \E h \in Heads : EnableUnknown(h) \/ DeleteModel(h)
           \/ \E i \in Ids : DeleteForgotten(i)
  BY <1>8, ByHandKeeps
<1> QED
  BY <1>1, <1>2, <1>3, <1>4, <1>5, <1>6, <1>7, <1>8 DEF RoutingNext

(* Types of the rows of providers and of the models that are listed of     *)
(* them, for any number of rows, names, prefixes and models                *)
(* (providers.go).                                                         *)
THEOREM RoutingTypesHold == RoutingSpec => []RoutingTypeOK
<1>1. RoutingInv /\ [RoutingNext]_routingVars => RoutingInv'
  BY RoutingSteps
<1>2. RoutingInv => RoutingTypeOK
  BY DEF RoutingInv
<1> QED
  BY RoutingStarts, <1>1, <1>2, PTL DEF RoutingSpec

(* The default provider is not lost while an active one is left            *)
(* (CreateProviderWithOptions, UpdateProviderWithOptions,                  *)
(* SetDefaultProvider, ToggleProvider, DeleteProvider).                    *)
THEOREM DefaultIsKept == RoutingSpec => DefaultKept
<1>1. RoutingInv /\ [RoutingNext]_routingVars => RoutingInv'
  BY RoutingSteps
<1>2. RoutingInv /\ [RoutingNext]_routingVars =>
        [Default(Existing) # {} /\ Default(Existing)' = {} => Usable' = {}]_routingVars
  BY RoutingSteps
<1> QED
  BY RoutingStarts, <1>1, <1>2, PTL DEF RoutingSpec, DefaultKept

(* Why a row of a model is left without a provider.                        *)
Caused(h) ==
  \/ \E s \in Syncs : sync[s].listing[h] = models'[h] /\ models'[h] \in sync[s].gone
  \/ models[h] = NoRow /\ models'[h] \in {h, Nobody}
  \/ \E i \in Existing \cap Existing' :
       provider[i].prefix = models[h] /\ provider'[i].prefix # models[h]

(* As long as no provider goes, only a new prefix leaves a row behind.     *)
LEMMA EditsCause ==
  ASSUME models' = models, Existing \subseteq Existing', NEW h \in Orphans' \ Orphans
  PROVE  Caused(h)
<1>1. models[h] # NoRow /\ models[h] \in Filed /\ models[h] \notin Filed'
  BY DEF Orphans
<1>2. PICK i \in Existing : provider[i].prefix = models[h]
  BY <1>1 DEF Filed
<1>3. provider'[i].prefix # models[h]
  BY <1>1, <1>2 DEF Filed
<1> QED
  BY <1>2, <1>3 DEF Caused

(* A provider that goes takes along whatever it alone was there for.       *)
LEMMA DeletionCauses ==
  ASSUME RoutingTypeOK, NEW i \in Ids, DeleteProvider(i), Existing' = Existing \ {i},
         NEW h \in Orphans' \ Orphans
  PROVE  Caused(h)
<1>1. h \in Heads /\ models'[h] # NoRow /\ models'[h] \notin Filed'
  BY DEF Orphans
<1>2. models' = WithoutRows(ModelsOf(i))
  BY DEF DeleteProvider
<1>3. h \notin ModelsOf(i) /\ models'[h] = models[h]
  BY <1>1, <1>2 DEF WithoutRows
<1>4. models[h] \in Filed /\ models[h] # i
  BY <1>1, <1>3 DEF Orphans, ModelsOf
<1>5. models[h] \notin Existing
  BY <1>1, <1>3, <1>4 DEF Filed
<1>6. PICK j \in Existing : provider[j].prefix = models[h]
  BY <1>4, <1>5 DEF Filed
<1>7. models[h] # NoPrefix
  BY <1>1, <1>3, RoutingAssumption DEF RoutingTypeOK, Ids, Nobody, NoPrefix, NoRow
<1>8. j # i
  BY <1>1, <1>3, <1>6, <1>7 DEF ModelsOf
<1>9. j \in Existing' /\ provider'[j].prefix # models[h]
  BY <1>1, <1>3, <1>6, <1>8 DEF Filed
<1> QED
  BY <1>6, <1>9 DEF Caused

LEMMA OrphansAreCaused ==
  ASSUME RoutingInv, [RoutingNext]_routingVars
  PROVE  \A h \in Orphans' \ Orphans : Caused(h)
<1>0. RoutingTypeOK /\ ListedWereThere
  BY DEF RoutingInv
<1> SUFFICES ASSUME NEW h \in Orphans' \ Orphans PROVE Caused(h)
  OBVIOUS
<1>1. CASE UNCHANGED routingVars
  BY <1>1, EditsCause DEF routingVars, modelVars, Existing
<1>2. ASSUME NEW i \in Ids, NEW f \in Forms, CreateProvider(i, f) \/ UpdateProvider(i, f)
      PROVE  Caused(h)
  <2>1. CASE CreateProvider(i, f)
    <3>1. models' = models /\ Existing' = Existing \cup {i}
      BY <1>0, <2>1, ListGrows DEF CreateProvider, modelVars, RoutingTypeOK, Existing
    <3> QED
      BY <3>1, EditsCause
  <2>2. CASE UpdateProvider(i, f)
    BY <2>2, EditsCause DEF UpdateProvider, modelVars, Existing
  <2> QED
    BY <1>2, <2>1, <2>2
<1>3. ASSUME NEW i \in Ids, DeleteProvider(i) PROVE Caused(h)
  <2>1. Existing' = Existing \ {i}
    <3>1. i \in Existing /\ order' = RemoveAt(order, Age(i))
      BY <1>3 DEF DeleteProvider
    <3>2. Age(i) \in 1 .. Len(order) /\ order[Age(i)] = i
      BY <1>0, <3>1, Ages
    <3> QED
      BY <1>0, <3>1, <3>2, ListShrinks DEF RoutingTypeOK, Existing
  <2> QED
    BY <1>0, <1>3, <2>1, DeletionCauses
<1>4. ASSUME \/ \E i \in Ids : SetDefaultProvider(i)
             \/ \E i \in Ids, active \in BOOLEAN : ToggleProvider(i, active)
             \/ RoutingRestart
             \/ \E s \in Syncs : AggregateModels(s)
      PROVE  Caused(h)
  BY <1>4, EditsCause
     DEF SetDefaultProvider, ToggleProvider, RoutingRestart, AggregateModels, modelVars, Existing
<1>5. ASSUME \/ \E s \in Syncs : SweepOrphans(s)
             \/ \E i \in Ids : DeleteForgotten(i)
             \/ \E k \in Heads : DeleteModel(k)
      PROVE  Caused(h)
  <2>1. UNCHANGED <<order, provider>> /\ \E S : models' = WithoutRows(S)
    BY <1>5 DEF SweepOrphans, DeleteForgotten, DeleteModel
  <2>2. Filed' = Filed
    BY <2>1 DEF Filed, Existing
  <2>3. h \in Heads /\ models'[h] # NoRow /\ models'[h] \notin Filed
    BY <2>2 DEF Orphans
  <2>4. models'[h] = models[h]
    BY <2>1, <2>3 DEF WithoutRows
  <2> QED
    BY <2>3, <2>4 DEF Orphans
<1>6. ASSUME NEW s \in Syncs, NEW k \in Heads, RegisterModel(s, k) PROVE Caused(h)
  <2>1. /\ UNCHANGED <<order, provider>> /\ sync[s].listing[k] # NoRow
        /\ models' = [models EXCEPT ![k] = sync[s].listing[k]]
    BY <1>6 DEF RegisterModel
  <2>2. Filed' = Filed /\ Existing \subseteq Filed
    BY <2>1 DEF Filed, Existing
  <2>3. h \in Heads /\ models'[h] # NoRow /\ models'[h] \notin Filed /\ models[h] \in Filed \cup {NoRow}
    BY <2>2 DEF Orphans
  <2>4. h = k /\ models'[h] = sync[s].listing[h]
    BY <1>0, <2>1, <2>3 DEF RoutingTypeOK
  <2>5. sync[s].listing[h] \in sync[s].gone
    BY <1>0, <2>1, <2>2, <2>3, <2>4 DEF ListedWereThere
  <2> QED
    BY <2>4, <2>5 DEF Caused
<1>7. ASSUME NEW k \in Heads, EnableUnknown(k) PROVE Caused(h)
  <2>1. /\ UNCHANGED <<order, provider>> /\ models[k] = NoRow
        /\ models' = [models EXCEPT ![k] = IF k = NoPrefix THEN Nobody ELSE k]
    BY <1>7 DEF EnableUnknown
  <2>2. Filed' = Filed
    BY <2>1 DEF Filed, Existing
  <2>3. h \in Heads /\ models'[h] # NoRow /\ models'[h] \notin Filed /\ models[h] \in Filed \cup {NoRow}
    BY <2>2 DEF Orphans
  <2>4. h = k /\ models'[h] \in {h, Nobody}
    BY <1>0, <2>1, <2>3 DEF RoutingTypeOK
  <2> QED
    BY <2>1, <2>4 DEF Caused
<1> QED
  BY <1>1, <1>2, <1>3, <1>4, <1>5, <1>6, <1>7 DEF RoutingNext

(* Deleting a provider leaves none of its models behind, for any number of *)
(* providers, prefixes and overlapping syncs: a row without a provider     *)
(* comes from a listing older than a deletion, from a Model ID enabled by  *)
(* hand, or from a changed prefix (DeleteProvider, applyListing,           *)
(* SetModelEnabled).                                                       *)
THEOREM OrphansAlwaysHaveACause == RoutingSpec => OrphansHaveACause
<1>1. RoutingInv /\ [RoutingNext]_routingVars => RoutingInv'
  BY RoutingSteps
<1>2. RoutingInv /\ [RoutingNext]_routingVars =>
        [ \A h \in Orphans' \ Orphans :
            \/ \E s \in Syncs : sync[s].listing[h] = models'[h] /\ models'[h] \in sync[s].gone
            \/ models[h] = NoRow /\ models'[h] \in {h, Nobody}
            \/ \E i \in Existing \cap Existing' :
                 provider[i].prefix = models[h] /\ provider'[i].prefix # models[h] ]_routingVars
  BY OrphansAreCaused DEF Caused
<1> QED
  BY RoutingStarts, <1>1, <1>2, PTL DEF RoutingSpec, OrphansHaveACause

(* No two rows come before each other.                                     *)
LEMMA BeforeIsAnOrder ==
  ASSUME RoutingTypeOK, NEW i \in Existing, NEW j \in Existing, Before(i, j)
  PROVE  ~ Before(j, i)
<1>1. /\ provider[i].default \in BOOLEAN /\ provider[i].active \in BOOLEAN /\ provider[i].name \in Nat
      /\ provider[j].default \in BOOLEAN /\ provider[j].active \in BOOLEAN /\ provider[j].name \in Nat
  BY Ages DEF RoutingTypeOK, Forms
<1>2. Age(i) \in Nat /\ Age(j) \in Nat
  BY Ages
<1> DEFINE x == Age(i)
           y == Age(j)
           a == provider[i]
           b == provider[j]
<1>3. x \in Nat /\ y \in Nat /\ a.name \in Nat /\ b.name \in Nat
  BY <1>1, <1>2
<1>4. IF a.default # b.default THEN a.default
      ELSE IF a.active # b.active THEN a.active
      ELSE IF a.name # b.name THEN a.name < b.name
      ELSE x < y
  BY DEF Before
<1>5. Before(j, i) = IF b.default # a.default THEN b.default
      ELSE IF b.active # a.active THEN b.active
      ELSE IF b.name # a.name THEN b.name < a.name
      ELSE y < x
  BY DEF Before
<1> HIDE DEF x, y
<1>6. ~ (x < y /\ y < x) /\ ~ (a.name < b.name /\ b.name < a.name)
  BY <1>3
<1> HIDE DEF a, b
<1> QED
  BY <1>1, <1>4, <1>5, <1>6, Zenon DEF a, b

(* Some row comes before all others: first by mark, then by use, by name   *)
(* and by age.                                                             *)
LEMMA SomeIsFirst ==
  ASSUME RoutingTypeOK, NEW S \in SUBSET Existing, S # {}
  PROVE  \E i \in S : \A j \in S \ {i} : Before(i, j)
<1> DEFINE S1 == IF Default(S) # {} THEN Default(S) ELSE S
           S2 == IF Active(S1) # {} THEN Active(S1) ELSE S1
           N  == {provider[i].name : i \in S2}
<1>1. \A j \in S : provider[j].default \in BOOLEAN /\ provider[j].active \in BOOLEAN /\ provider[j].name \in Nat
  BY Ages DEF RoutingTypeOK, Forms
<1>2. \A j \in S : Age(j) \in Nat
  BY Ages
<1>3. /\ S1 \in SUBSET S /\ S1 # {}
      /\ \A i \in S1, j \in S : provider[j].default => provider[i].default
      /\ \A i \in S1, j \in S : (provider[i].default => provider[j].default) => j \in S1
  <2>1. CASE Default(S) # {}
    <3>1. S1 = {j \in S : provider[j].default}
      BY <2>1 DEF Default
    <3>2. S1 \in SUBSET S /\ S1 # {}
      BY <3>1, <2>1
    <3>3. \A i \in S1 : provider[i].default
      BY <3>1
    <3>4. \A j \in S : provider[j].default => j \in S1
      BY <3>1
    <3> HIDE DEF S1
    <3> QED
      BY <3>2, <3>3, <3>4, <1>1
  <2>2. CASE Default(S) = {}
    <3>1. S1 = S /\ \A j \in S : ~ provider[j].default
      BY <2>2 DEF Default
    <3> QED
      BY <3>1, <1>1
  <2> QED
    BY <2>1, <2>2
<1> HIDE DEF S1
<1>4. /\ S2 \in SUBSET S1 /\ S2 # {}
      /\ \A i \in S2, j \in S1 : provider[j].active => provider[i].active
      /\ \A i \in S2, j \in S1 : (provider[i].active => provider[j].active) => j \in S2
  <2>0. \A j \in S1 : provider[j].active \in BOOLEAN
    BY <1>1, <1>3
  <2>1. CASE Active(S1) # {}
    <3>1. S2 = {j \in S1 : provider[j].active}
      BY <2>1 DEF Active
    <3>2. S2 \in SUBSET S1 /\ S2 # {}
      BY <3>1, <2>1
    <3>3. \A i \in S2 : provider[i].active
      BY <3>1
    <3>4. \A j \in S1 : provider[j].active => j \in S2
      BY <3>1
    <3> HIDE DEF S2
    <3> QED
      BY <3>2, <3>3, <3>4, <2>0
  <2>2. CASE Active(S1) = {}
    <3>1. S2 = S1 /\ \A j \in S1 : ~ provider[j].active
      BY <2>2 DEF Active
    <3> QED
      BY <3>1, <2>0, <1>3
  <2> QED
    BY <2>1, <2>2
<1> HIDE DEF S2
<1>5. N \in SUBSET Nat /\ N # {}
  BY <1>1, <1>3, <1>4
<1>6. PICK n \in N : \A k \in N : n <= k
  BY <1>5, LeastNat
<1> DEFINE S3 == {i \in S2 : provider[i].name = n}
           A  == {Age(i) : i \in S3}
<1>7. S3 # {} /\ S3 \in SUBSET S2
  BY <1>6
<1>8. \A j \in S2 : n <= provider[j].name
  BY <1>6
<1>9. A \in SUBSET Nat /\ A # {}
  BY <1>2, <1>3, <1>4, <1>7
<1>10. PICK x \in A : \A y \in A : x <= y
  BY <1>9, LeastNat
<1>11. PICK i \in S3 : \A j \in S3 : Age(i) <= Age(j)
  BY <1>10
<1>12. i \in S /\ i \in S1 /\ i \in S2 /\ provider[i].name = n /\ n \in Nat
  BY <1>3, <1>4, <1>5, <1>6, <1>7
<1>13. ASSUME NEW j \in S \ {i} PROVE Before(i, j)
  <2>0. provider[j].default => provider[i].default
    BY <1>3, <1>12
  <2>1. CASE provider[i].default # provider[j].default
    <3>1. provider[i].default \in BOOLEAN /\ provider[j].default \in BOOLEAN
      BY <1>1, <1>12
    <3>2. provider[i].default
      BY <3>1, <2>0, <2>1, Zenon
    <3> QED
      BY <3>2, <2>1, Zenon DEF Before
  <2>2. CASE provider[i].default = provider[j].default /\ provider[i].active # provider[j].active
    <3>1. j \in S1
      BY <2>2, <1>3, <1>12
    <3>2. provider[j].active => provider[i].active
      BY <3>1, <1>4, <1>12
    <3>3. provider[i].active \in BOOLEAN /\ provider[j].active \in BOOLEAN
      BY <1>1, <1>12
    <3>4. provider[i].active
      BY <3>2, <3>3, <2>2, Zenon
    <3> QED
      BY <3>4, <2>2, Zenon DEF Before
  <2>3. CASE provider[i].default = provider[j].default /\ provider[i].active = provider[j].active
    <3>1. j \in S2
      BY <2>3, <1>3, <1>4, <1>12
    <3>2. n <= provider[j].name /\ provider[j].name \in Nat
      BY <3>1, <1>1, <1>8
    <3>3. CASE provider[j].name # n
      <4>1. n < provider[j].name
        BY <3>2, <3>3, <1>12
      <4> QED
        BY <4>1, <3>3, <2>3, <1>12 DEF Before
    <3>4. CASE provider[j].name = n
      <4>1. j \in S3
        BY <3>1, <3>4
      <4>2. Age(i) <= Age(j) /\ Age(i) \in Nat /\ Age(j) \in Nat /\ Age(i) # Age(j)
        BY <4>1, <1>2, <1>11, <1>12, Ages
      <4>3. Age(i) < Age(j)
        BY <4>2
      <4> QED
        BY <4>3, <3>4, <2>3, <1>12 DEF Before
    <3> QED
      BY <3>3, <3>4
  <2> QED
    BY <2>1, <2>2, <2>3
<1> QED
  BY <1>12, <1>13

LEMMA FirstIsOne ==
  ASSUME RoutingTypeOK, NEW S \in SUBSET Existing, S # {}
  PROVE  First(S) \in S /\ \A j \in S \ {First(S)} : Before(First(S), j)
BY SomeIsFirst DEF First

(* Whatever comes before all others is the first.                          *)
LEMMA FirstIs ==
  ASSUME RoutingTypeOK, NEW S \in SUBSET Existing,
         NEW i \in S, \A j \in S \ {i} : Before(i, j)
  PROVE  First(S) = i
<1>1. First(S) \in S /\ \A j \in S \ {First(S)} : Before(First(S), j)
  BY FirstIsOne
<1>2. ASSUME First(S) # i PROVE FALSE
  <2>1. Before(First(S), i) /\ Before(i, First(S))
    BY <1>1, <1>2
  <2>2. First(S) \in Existing /\ i \in Existing
    BY <1>1
  <2> QED
    BY <2>1, <2>2, BeforeIsAnOrder
<1> QED
  BY <1>2

(* What is asked for: a name after prefixes.                               *)
LEMMA RequestedIsASequence ==
  ASSUME NEW m \in Requested
  PROVE  /\ m \in Seq(Bare \cup PrefixNames) /\ Len(m) >= 1
         /\ Len(m) > 1 => Head(m) \in PrefixNames
<1>1. \/ \E b \in Bare : m = <<b>>
      \/ \E h \in PrefixNames, b \in Bare : m = <<h, b>>
      \/ \E h \in PrefixNames, k \in PrefixNames, b \in Bare : m = <<h, k, b>>
  BY DEF Requested
<1>2. ASSUME NEW b \in Bare, m = <<b>>
      PROVE  m \in Seq(Bare \cup PrefixNames) /\ Len(m) = 1
  BY <1>2
<1>3. ASSUME NEW h \in PrefixNames, NEW b \in Bare, m = <<h, b>>
      PROVE  m \in Seq(Bare \cup PrefixNames) /\ Len(m) = 2 /\ Head(m) = h
  BY <1>3
<1>4. ASSUME NEW h \in PrefixNames, NEW k \in PrefixNames, NEW b \in Bare, m = <<h, k, b>>
      PROVE  m \in Seq(Bare \cup PrefixNames) /\ Len(m) = 3 /\ Head(m) = h
  BY <1>4
<1>5. CASE \E b \in Bare : m = <<b>>
  BY <1>2, <1>5
<1>6. CASE \E h \in PrefixNames, b \in Bare : m = <<h, b>>
  BY <1>3, <1>6
<1>7. CASE \E h \in PrefixNames, k \in PrefixNames, b \in Bare : m = <<h, k, b>>
  BY <1>4, <1>7
<1> QED
  BY <1>1, <1>5, <1>6, <1>7

(* The canonical ID of a model is its own canonical ID.                    *)
LEMMA ResolvedOnce ==
  ASSUME RoutingTypeOK, Usable # {}, NEW m \in Requested
  PROVE  /\ ResolveModelID(ResolveModelID(m)) = ResolveModelID(m)
         /\ FindProviderForModel(ResolveModelID(m)) = FindProviderForModel(m)
<1> DEFINE T == Bare \cup PrefixNames
           i == FindProviderForModel(m)
           h == provider[i].prefix
           c == ResolveModelID(m)
<1>1. m \in Seq(T) /\ Len(m) >= 1 /\ (Len(m) > 1 => Head(m) \in PrefixNames)
  BY RequestedIsASequence
<1>2. Usable \in SUBSET Existing /\ Existing \in SUBSET Ids
  BY Ages DEF Usable, Active
<1> HIDE DEF T
<1>3. CASE Matching(m) # {}
  <2>1. i = First(Matching(m)) /\ Matching(m) \in SUBSET Existing
    BY <1>2, <1>3 DEF FindProviderForModel, Matching
  <2>2. i \in Matching(m)
    BY <2>1, <1>3, FirstIsOne
  <2>3. Len(m) > 1 /\ h = Head(m)
    BY <2>2 DEF Matching
  <2>4. h # NoPrefix
    BY <1>1, <2>3, RoutingAssumption
  <2>5. c = <<h>> \o Tail(m)
    BY <1>3, <2>4 DEF ResolveModelID
  <2>6. <<Head(m)>> \o Tail(m) = m
    BY <1>1
  <2>7. c = m
    BY <2>3, <2>5, <2>6
  <2> QED
    BY <2>7
<1>4. CASE Matching(m) = {}
  <2> DEFINE D == IF Default(Usable) # {} THEN Default(Usable) ELSE Usable
  <2>1. /\ D \in SUBSET Usable /\ D # {} /\ i = First(D)
        /\ D = Usable \/ D = Default(Usable)
    BY <1>4 DEF FindProviderForModel, Default
  <2> HIDE DEF D
  <2>2. i \in D /\ \A j \in D \ {i} : Before(i, j)
    BY <1>2, <2>1, FirstIsOne
  <2>3. ASSUME NEW j \in Usable \ {i} PROVE Before(i, j)
    <3>1. CASE j \in D
      BY <3>1, <2>2, <2>3
    <3>2. CASE j \notin D
      <4>1. provider[i].default /\ ~ provider[j].default
        BY <2>1, <2>2, <2>3, <3>2 DEF Default
      <4> QED
        BY <4>1 DEF Before
    <3> QED
      BY <3>1, <3>2
  <2>4. c = IF h = NoPrefix THEN m ELSE <<h>> \o m
    BY <1>4 DEF ResolveModelID
  <2>5. CASE h = NoPrefix
    <3>1. c = m
      BY <2>4, <2>5
    <3> QED
      BY <3>1
  <2>6. CASE h # NoPrefix
    <3>1. c = <<h>> \o m
      BY <2>4, <2>6
    <3>2. /\ Len(c) > 1 /\ Head(c) = h /\ Tail(c) = m
      <4> HIDE DEF c, h
      <4> DEFINE U == T \cup {h}
      <4>1. m \in Seq(U) /\ h \in U /\ Len(m) >= 1
        BY <1>1
      <4> HIDE DEF U
      <4>2. Len(<<h>> \o m) = 1 + Len(m) /\ Head(<<h>> \o m) = h /\ Tail(<<h>> \o m) = m
        BY <4>1
      <4> QED
        BY <4>1, <4>2, <3>1
    <3>3. i \in Matching(c) /\ Matching(c) \in SUBSET Usable
      BY <2>1, <2>2, <3>2 DEF Matching
    <3>4. First(Matching(c)) = i
      BY <1>2, <2>3, <3>3, FirstIs
    <3>5. FindProviderForModel(c) = i
      BY <3>3, <3>4 DEF FindProviderForModel
    <3>6. ResolveModelID(c) = <<h>> \o Tail(c)
      BY <3>3, <3>5, <2>6 DEF ResolveModelID
    <3> QED
      BY <3>1, <3>2, <3>5, <3>6
  <2> QED
    BY <2>5, <2>6
<1> QED
  BY <1>3, <1>4

LEMMA RoutingSound == RoutingInv => RoutingIsSound
<1> SUFFICES ASSUME RoutingInv PROVE RoutingIsSound
  OBVIOUS
<1>0. RoutingTypeOK /\ AtMostOne /\ ListedWereThere
  BY DEF RoutingInv
<1>1. OneDefault
  <2> DEFINE D == Default(Existing)
  <2>1. \A i, j \in D : i = j
    BY <1>0 DEF AtMostOne, Default
  <2> HIDE DEF D
  <2>2. CASE D = {}
    <3>1. Cardinality(D) = 0
      BY <2>2, FS_EmptySet
    <3> QED
      BY <3>1 DEF D, OneDefault
  <2>3. CASE D # {}
    <3>1. PICK i : D = {i}
      BY <2>1, <2>3
    <3>2. Cardinality(D) = 1
      BY <3>1, FS_Singleton
    <3> QED
      BY <3>2 DEF D, OneDefault
  <2> QED
    BY <2>2, <2>3
<1>2. CanonicalIsFixed
  BY <1>0, ResolvedOnce DEF CanonicalIsFixed
<1> QED
  BY <1>0, <1>1, <1>2 DEF RoutingIsSound

(* At most one row is the default, and the canonical ID of a requested     *)
(* model is its own canonical ID and goes to the same provider, whatever   *)
(* rows and names there are (FindProviderForModel, ResolveModelID).        *)
THEOREM RoutingIsSoundAlways == RoutingSpec => []RoutingIsSound
<1>1. RoutingInv /\ [RoutingNext]_routingVars => RoutingInv'
  BY RoutingSteps
<1> QED
  BY RoutingStarts, <1>1, RoutingSound, PTL DEF RoutingSpec

-----------------------------------------------------------------------------
(* A behaviour of the parts together is a behaviour of each module.        *)
LEMMA PartsRun == ProvidersSpec => Spec /\ RoutingSpec
<1>1. ProvidersInit => Init /\ RoutingInit
  BY DEF ProvidersInit
<1>2. ASSUME [ProvidersNext]_providersVars
      PROVE  [Next]_vars /\ [RoutingNext]_routingVars
  <2>1. CASE UNCHANGED providersVars
    BY <2>1 DEF providersVars, guardVars
  <2>2. CASE GuardNext /\ UNCHANGED routingVars
    BY <2>2 DEF GuardNext, Next, Disturb, Administer
  <2>3. CASE RoutingNext /\ UNCHANGED guardVars
    BY <2>3 DEF guardVars
  <2>4. CASE Next /\ UNCHANGED routingVars
    BY <2>4
  <2> QED
    BY <1>2, <2>1, <2>2, <2>3, <2>4 DEF ProvidersNext
<1> QED
  BY <1>1, <1>2, PTL DEF ProvidersSpec, Spec, RoutingSpec

(* Types of both parts.                                                    *)
THEOREM ProvidersTypesHold == ProvidersSpec => []ProvidersTypeOK
<1>1. TypeOK /\ RoutingTypeOK => ProvidersTypeOK
  BY DEF ProvidersTypeOK
<1> QED
  BY <1>1, PartsRun, CatalogTypesHold, RoutingTypesHold, PTL
=============================================================================
