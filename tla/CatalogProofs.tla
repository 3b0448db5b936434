--------------------------- MODULE CatalogProofs ----------------------------
(***************************************************************************)
(* Proofs about ModelCatalog and GroupReloads, for any number of actors:   *)
(* types, and when the group cache is what is stored.                      *)
(***************************************************************************)
EXTENDS GroupReloads, FiniteSetTheorems, TLAPS

-----------------------------------------------------------------------------
(* ModelCatalog. What an actor is doing, field by field.                   *)
Doing(s, ls, lf, sn, g, k) == [step |-> s, listing |-> ls, left |-> lf, snap |-> sn, group |-> g, kept |-> k]

LEMMA EditStep ==
  ASSUME NEW x \in OpSet, NEW s
  PROVE  [x EXCEPT !.step = s] = Doing(s, x.listing, x.left, x.snap, x.group, x.kept)
  BY DEF OpSet, Doing

LEMMA EditOnlyLeft ==
  ASSUME NEW x \in OpSet, NEW v
  PROVE  [x EXCEPT !.left = v] = Doing(x.step, x.listing, v, x.snap, x.group, x.kept)
  BY DEF OpSet, Doing

LEMMA EditListing ==
  ASSUME NEW x \in OpSet, NEW s, NEW v
  PROVE  [x EXCEPT !.step = s, !.listing = v] = Doing(s, v, x.left, x.snap, x.group, x.kept)
<1> DEFINE y == [x EXCEPT !.step = s]
<1>1. y = Doing(s, x.listing, x.left, x.snap, x.group, x.kept)
  BY EditStep
<1>2. [x EXCEPT !.step = s, !.listing = v] = [y EXCEPT !.listing = v]
  OBVIOUS
<1> HIDE DEF y
<1>3. [y EXCEPT !.listing = v] = Doing(s, v, x.left, x.snap, x.group, x.kept)
  BY <1>1 DEF Doing
<1> QED
  BY <1>2, <1>3

LEMMA EditLeft ==
  ASSUME NEW x \in OpSet, NEW s, NEW v
  PROVE  [x EXCEPT !.step = s, !.left = v] = Doing(s, x.listing, v, x.snap, x.group, x.kept)
<1> DEFINE y == [x EXCEPT !.step = s]
<1>1. y = Doing(s, x.listing, x.left, x.snap, x.group, x.kept)
  BY EditStep
<1>2. [x EXCEPT !.step = s, !.left = v] = [y EXCEPT !.left = v]
  OBVIOUS
<1> HIDE DEF y
<1>3. [y EXCEPT !.left = v] = Doing(s, x.listing, v, x.snap, x.group, x.kept)
  BY <1>1 DEF Doing
<1> QED
  BY <1>2, <1>3

LEMMA EditSnap ==
  ASSUME NEW x \in OpSet, NEW s, NEW v
  PROVE  [x EXCEPT !.step = s, !.snap = v] = Doing(s, x.listing, x.left, v, x.group, x.kept)
<1> DEFINE y == [x EXCEPT !.step = s]
<1>1. y = Doing(s, x.listing, x.left, x.snap, x.group, x.kept)
  BY EditStep
<1>2. [x EXCEPT !.step = s, !.snap = v] = [y EXCEPT !.snap = v]
  OBVIOUS
<1> HIDE DEF y
<1>3. [y EXCEPT !.snap = v] = Doing(s, x.listing, x.left, v, x.group, x.kept)
  BY <1>1 DEF Doing
<1> QED
  BY <1>2, <1>3

LEMMA EditGroup ==
  ASSUME NEW x \in OpSet, NEW s, NEW v
  PROVE  [x EXCEPT !.step = s, !.group = v] = Doing(s, x.listing, x.left, x.snap, v, x.kept)
<1> DEFINE y == [x EXCEPT !.step = s]
<1>1. y = Doing(s, x.listing, x.left, x.snap, x.group, x.kept)
  BY EditStep
<1>2. [x EXCEPT !.step = s, !.group = v] = [y EXCEPT !.group = v]
  OBVIOUS
<1> HIDE DEF y
<1>3. [y EXCEPT !.group = v] = Doing(s, x.listing, x.left, x.snap, v, x.kept)
  BY <1>1 DEF Doing
<1> QED
  BY <1>2, <1>3

LEMMA EditKept ==
  ASSUME NEW x \in OpSet, NEW s, NEW v
  PROVE  [x EXCEPT !.step = s, !.kept = v] = Doing(s, x.listing, x.left, x.snap, x.group, v)
<1> DEFINE y == [x EXCEPT !.step = s]
<1>1. y = Doing(s, x.listing, x.left, x.snap, x.group, x.kept)
  BY EditStep
<1>2. [x EXCEPT !.step = s, !.kept = v] = [y EXCEPT !.kept = v]
  OBVIOUS
<1> HIDE DEF y
<1>3. [y EXCEPT !.kept = v] = Doing(s, x.listing, x.left, x.snap, x.group, v)
  BY <1>1 DEF Doing
<1> QED
  BY <1>2, <1>3

(* The step of one actor to what it does next.                             *)
Turns(a, s, ls, lf, sn, g, k) == op' = [op EXCEPT ![a] = Doing(s, ls, lf, sn, g, k)]

Back(a, s) == Turns(a, s, {}, {}, [g \in Groups |-> NoGroup], NoGroup, {})

(* What a turn says of its actor, and of the others.                       *)
LEMMA TurnsTo ==
  ASSUME op \in [Actors -> OpSet], NEW a \in Actors, NEW s, NEW ls, NEW lf, NEW sn, NEW g, NEW k,
         Turns(a, s, ls, lf, sn, g, k)
  PROVE  /\ op'[a].step = s /\ op'[a].listing = ls /\ op'[a].left = lf
         /\ op'[a].snap = sn /\ op'[a].group = g /\ op'[a].kept = k
         /\ \A b \in Actors : b # a => op'[b] = op[b]
  BY DEF Turns, Doing

(* Every statement of a sync, as a turn of its actor.                      *)
LEMMA SyncTurns ==
  ASSUME op \in [Actors -> OpSet], NEW a \in Actors
  PROVE  /\ \A L : Fetch(a, L) => Turns(a, "orphans", L, op[a].left, op[a].snap, op[a].group, op[a].kept)
         /\ DeleteOrphans(a) =>
              Turns(a, "register", op[a].listing, op[a].listing, op[a].snap, op[a].group, op[a].kept)
         /\ \A m : Register(a, m) =>
              Turns(a, op[a].step, op[a].listing, op[a].left \ {m}, op[a].snap, op[a].group, op[a].kept)
         /\ LockPending(a) =>
              Turns(a, "mark", op[a].listing, {ProviderOf[m] : m \in op[a].listing},
                    op[a].snap, op[a].group, op[a].kept)
         /\ \A r : Mark(a, r) =>
              Turns(a, op[a].step, op[a].listing, op[a].left \ {r}, op[a].snap, op[a].group, op[a].kept)
         /\ EndSync(a) => Turns(a, "reload", {}, op[a].left, op[a].snap, op[a].group, op[a].kept)
<1> DEFINE x == op[a]
<1>0. x \in OpSet
  OBVIOUS
<1>1. ASSUME NEW L, Fetch(a, L) PROVE Turns(a, "orphans", L, x.left, x.snap, x.group, x.kept)
  <2>1. op' = [op EXCEPT ![a] = [x EXCEPT !.step = "orphans", !.listing = L]]
    BY <1>1 DEF Fetch
  <2> HIDE DEF x
  <2>2. [x EXCEPT !.step = "orphans", !.listing = L] = Doing("orphans", L, x.left, x.snap, x.group, x.kept)
    BY <1>0, EditListing
  <2> QED
    BY <2>1, <2>2 DEF Turns
<1>2. ASSUME DeleteOrphans(a) PROVE Turns(a, "register", x.listing, x.listing, x.snap, x.group, x.kept)
  <2>1. op' = [op EXCEPT ![a] = [x EXCEPT !.step = "register", !.left = x.listing]]
    BY <1>2 DEF DeleteOrphans
  <2> HIDE DEF x
  <2>2. [x EXCEPT !.step = "register", !.left = x.listing]
          = Doing("register", x.listing, x.listing, x.snap, x.group, x.kept)
    BY <1>0, EditLeft
  <2> QED
    BY <2>1, <2>2 DEF Turns
<1>3. ASSUME NEW m, Register(a, m)
      PROVE  Turns(a, x.step, x.listing, x.left \ {m}, x.snap, x.group, x.kept)
  <2>1. op' = [op EXCEPT ![a] = [x EXCEPT !.left = x.left \ {m}]]
    BY <1>3 DEF Register
  <2> HIDE DEF x
  <2>2. [x EXCEPT !.left = x.left \ {m}] = Doing(x.step, x.listing, x.left \ {m}, x.snap, x.group, x.kept)
    BY <1>0, EditOnlyLeft
  <2> QED
    BY <2>1, <2>2 DEF Turns
<1>4. ASSUME LockPending(a)
      PROVE  Turns(a, "mark", x.listing, {ProviderOf[m] : m \in x.listing}, x.snap, x.group, x.kept)
  <2> DEFINE S == {ProviderOf[m] : m \in x.listing}
  <2>1. op' = [op EXCEPT ![a] = [x EXCEPT !.step = "mark", !.left = S]]
    BY <1>4 DEF LockPending
  <2> HIDE DEF x, S
  <2>2. [x EXCEPT !.step = "mark", !.left = S] = Doing("mark", x.listing, S, x.snap, x.group, x.kept)
    BY <1>0, EditLeft
  <2> QED
    BY <2>1, <2>2 DEF Turns, S
<1>5. ASSUME NEW r, Mark(a, r)
      PROVE  Turns(a, x.step, x.listing, x.left \ {r}, x.snap, x.group, x.kept)
  <2>1. op' = [op EXCEPT ![a] = [x EXCEPT !.left = x.left \ {r}]]
    BY <1>5 DEF Mark
  <2> HIDE DEF x
  <2>2. [x EXCEPT !.left = x.left \ {r}] = Doing(x.step, x.listing, x.left \ {r}, x.snap, x.group, x.kept)
    BY <1>0, EditOnlyLeft
  <2> QED
    BY <2>1, <2>2 DEF Turns
<1>6. ASSUME EndSync(a) PROVE Turns(a, "reload", {}, x.left, x.snap, x.group, x.kept)
  <2> DEFINE v == {}
  <2>1. op' = [op EXCEPT ![a] = [x EXCEPT !.step = "reload", !.listing = v]]
    BY <1>6 DEF EndSync
  <2> HIDE DEF x, v
  <2>2. [x EXCEPT !.step = "reload", !.listing = v] = Doing("reload", v, x.left, x.snap, x.group, x.kept)
    BY <1>0, EditListing
  <2> QED
    BY <2>1, <2>2 DEF Turns, v
<1> QED
  BY <1>1, <1>2, <1>3, <1>4, <1>5, <1>6

LEMMA IdleIs ==
  /\ Idle = Doing("idle", {}, {}, [g \in Groups |-> NoGroup], NoGroup, {})
  /\ [Idle EXCEPT !.step = "reload"] = Doing("reload", {}, {}, [g \in Groups |-> NoGroup], NoGroup, {})
  BY DEF Idle, Doing

(* Every statement of a reload.                                            *)
LEMMA ReloadTurns ==
  ASSUME op \in [Actors -> OpSet], NEW a \in Actors
  PROVE  /\ ReadGroups(a) => Turns(a, "avail", op[a].listing, op[a].left, groups, op[a].group, op[a].kept)
         /\ LoadAvailability(a) =>
              Turns(a, "swap", op[a].listing, op[a].left, op[a].snap, op[a].group, Removed)
         /\ SwapCache(a) => Back(a, "idle")
<1> DEFINE x == op[a]
<1>0. x \in OpSet
  OBVIOUS
<1>1. ASSUME ReadGroups(a) PROVE Turns(a, "avail", x.listing, x.left, groups, x.group, x.kept)
  <2>1. op' = [op EXCEPT ![a] = [x EXCEPT !.step = "avail", !.snap = groups]]
    BY <1>1 DEF ReadGroups
  <2> HIDE DEF x
  <2>2. [x EXCEPT !.step = "avail", !.snap = groups]
          = Doing("avail", x.listing, x.left, groups, x.group, x.kept)
    BY <1>0, EditSnap
  <2> QED
    BY <2>1, <2>2 DEF Turns
<1>2. ASSUME LoadAvailability(a) PROVE Turns(a, "swap", x.listing, x.left, x.snap, x.group, Removed)
  <2> DEFINE v == Removed
  <2>1. op' = [op EXCEPT ![a] = [x EXCEPT !.step = "swap", !.kept = v]]
    BY <1>2 DEF LoadAvailability
  <2> HIDE DEF x, v
  <2>2. [x EXCEPT !.step = "swap", !.kept = v] = Doing("swap", x.listing, x.left, x.snap, x.group, v)
    BY <1>0, EditKept
  <2> QED
    BY <2>1, <2>2 DEF Turns, v
<1>3. ASSUME SwapCache(a) PROVE Back(a, "idle")
  BY <1>3, IdleIs DEF SwapCache, Back, Turns
<1> QED
  BY <1>1, <1>2, <1>3

(* Every statement of an administrator's edit.                             *)
LEMMA EditTurns ==
  ASSUME op \in [Actors -> OpSet], NEW a \in Actors
  PROVE  /\ \A g, S : SetGroup(a, g, S) =>
              Turns(a, "reload", op[a].listing, op[a].left, op[a].snap, op[a].group, op[a].kept)
         /\ \A g : CheckUnlinked(a, g) =>
              Turns(a, "delete", op[a].listing, op[a].left, op[a].snap, g, op[a].kept)
         /\ DeleteGroup(a) => IF groups[op[a].group] = NoGroup THEN Back(a, "idle") ELSE Back(a, "reload")
         /\ \A g : PruneRead(a, g) =>
              Turns(a, "filter", op[a].listing, op[a].left, op[a].snap, g, groups[g])
         /\ PruneFilter(a) =>
              \/ Back(a, "reload")
              \/ Turns(a, "prune", op[a].listing, op[a].left, op[a].snap, op[a].group, op[a].kept \ Removed)
         /\ PruneWrite(a) => IF groups[op[a].group] = NoGroup THEN Back(a, "idle") ELSE Back(a, "reload")
<1> DEFINE x == op[a]
<1>0. x \in OpSet
  OBVIOUS
<1>1. ASSUME NEW g, NEW S, SetGroup(a, g, S)
      PROVE  Turns(a, "reload", x.listing, x.left, x.snap, x.group, x.kept)
  <2>1. op' = [op EXCEPT ![a] = [x EXCEPT !.step = "reload"]]
    BY <1>1 DEF SetGroup, Goto
  <2> HIDE DEF x
  <2>2. [x EXCEPT !.step = "reload"] = Doing("reload", x.listing, x.left, x.snap, x.group, x.kept)
    BY <1>0, EditStep
  <2> QED
    BY <2>1, <2>2 DEF Turns
<1>2. ASSUME NEW g, CheckUnlinked(a, g)
      PROVE  Turns(a, "delete", x.listing, x.left, x.snap, g, x.kept)
  <2>1. op' = [op EXCEPT ![a] = [x EXCEPT !.step = "delete", !.group = g]]
    BY <1>2 DEF CheckUnlinked
  <2> HIDE DEF x
  <2>2. [x EXCEPT !.step = "delete", !.group = g] = Doing("delete", x.listing, x.left, x.snap, g, x.kept)
    BY <1>0, EditGroup
  <2> QED
    BY <2>1, <2>2 DEF Turns
<1>3. ASSUME DeleteGroup(a) PROVE IF groups[x.group] = NoGroup THEN Back(a, "idle") ELSE Back(a, "reload")
  <2>1. op' = [op EXCEPT ![a] = IF groups[x.group] = NoGroup THEN Idle ELSE [Idle EXCEPT !.step = "reload"]]
    BY <1>3 DEF DeleteGroup
  <2> HIDE DEF x
  <2> QED
    BY <2>1, IdleIs DEF Turns, Back
<1>4. ASSUME NEW g, PruneRead(a, g)
      PROVE  Turns(a, "filter", x.listing, x.left, x.snap, g, groups[g])
  <2> DEFINE v == groups[g]
  <2>1. op' = [op EXCEPT ![a] = [x EXCEPT !.step = "filter", !.group = g, !.kept = v]]
    BY <1>4 DEF PruneRead
  <2> HIDE DEF x, v
  <2>2. [x EXCEPT !.step = "filter", !.group = g, !.kept = v]
          = Doing("filter", x.listing, x.left, x.snap, g, v)
    <3> DEFINE y == [x EXCEPT !.step = "filter", !.group = g]
    <3>1. y = Doing("filter", x.listing, x.left, x.snap, g, x.kept)
      BY <1>0, EditGroup
    <3>2. [x EXCEPT !.step = "filter", !.group = g, !.kept = v] = [y EXCEPT !.kept = v]
      OBVIOUS
    <3> HIDE DEF y
    <3> QED
      BY <3>1, <3>2 DEF Doing
  <2> QED
    BY <2>1, <2>2 DEF Turns, v
<1>5. ASSUME PruneFilter(a)
      PROVE  \/ Back(a, "reload")
             \/ Turns(a, "prune", x.listing, x.left, x.snap, x.group, x.kept \ Removed)
  <2> DEFINE v == x.kept \ Removed
  <2>1. CASE v = x.kept
    <3>1. op' = [op EXCEPT ![a] = [Idle EXCEPT !.step = "reload"]]
      BY <1>5, <2>1 DEF PruneFilter
    <3> QED
      BY <3>1, IdleIs DEF Turns, Back
  <2>2. CASE v # x.kept
    <3>1. op' = [op EXCEPT ![a] = [x EXCEPT !.step = "prune", !.kept = v]]
      BY <1>5, <2>2 DEF PruneFilter
    <3> HIDE DEF x, v
    <3>2. [x EXCEPT !.step = "prune", !.kept = v] = Doing("prune", x.listing, x.left, x.snap, x.group, v)
      BY <1>0, EditKept
    <3> QED
      BY <3>1, <3>2 DEF Turns, v
  <2> QED
    BY <2>1, <2>2
<1>6. ASSUME PruneWrite(a) PROVE IF groups[x.group] = NoGroup THEN Back(a, "idle") ELSE Back(a, "reload")
  <2>1. op' = [op EXCEPT ![a] = IF groups[x.group] = NoGroup THEN Idle ELSE [Idle EXCEPT !.step = "reload"]]
    BY <1>6 DEF PruneWrite
  <2> HIDE DEF x
  <2> QED
    BY <2>1, IdleIs DEF Turns, Back
<1> QED
  BY <1>1, <1>2, <1>3, <1>4, <1>5, <1>6

(* What is under way has what its step needs: the group that an edit       *)
(* writes, and entries of a group that are left by a prune.                *)
OpOK(o) ==
  /\ o \in OpSet
  /\ o.step \in {"delete", "filter", "prune"} => o.group \in Groups
  /\ o.step \in {"filter", "prune"} => o.kept \in MemberSets

OpsOK == op \in [Actors -> OpSet] /\ \A a \in Actors : OpOK(op[a])

CatalogInv == TypeOK /\ OpsOK

LEMMA TurnsTyped ==
  ASSUME OpsOK, NEW a \in Actors, NEW s, NEW ls, NEW lf, NEW sn, NEW g, NEW k,
         OpOK(Doing(s, ls, lf, sn, g, k)), Turns(a, s, ls, lf, sn, g, k)
  PROVE  OpsOK'
  BY DEF OpsOK, OpOK, Turns

LEMMA BackTyped ==
  ASSUME OpsOK, NEW a \in Actors, NEW s \in {"idle", "reload"}, Back(a, s)
  PROVE  OpsOK'
<1>1. OpOK(Doing(s, {}, {}, [g \in Groups |-> NoGroup], NoGroup, {}))
  BY DEF OpOK, OpSet, Doing, Steps, Members
<1> QED
  BY <1>1, TurnsTyped DEF Back

LEMMA NotAGroup == NoGroup \in Members /\ MemberSets \subseteq Members
                   /\ \A S \in MemberSets : S # NoGroup /\ S \in SUBSET Models /\ SUBSET S \subseteq MemberSets
  BY GroupAssumption DEF Members

LEMMA OpsTyped ==
  ASSUME OpsOK, NEW a \in Actors
  PROVE  /\ op[a] \in OpSet /\ op[a].step \in Steps /\ op[a].listing \in SUBSET Models
         /\ op[a].left \in SUBSET (Models \cup Providers) /\ op[a].snap \in [Groups -> Members]
         /\ op[a].group \in Groups \cup {NoGroup} /\ op[a].kept \in SUBSET Models /\ OpOK(op[a])
  BY DEF OpsOK, OpSet

LEMMA DoingTyped ==
  ASSUME NEW s \in Steps, NEW ls \in SUBSET Models, NEW lf \in SUBSET (Models \cup Providers),
         NEW sn \in [Groups -> Members], NEW g \in Groups \cup {NoGroup}, NEW k \in SUBSET Models,
         s \in {"delete", "filter", "prune"} => g \in Groups,
         s \in {"filter", "prune"} => k \in MemberSets
  PROVE  OpOK(Doing(s, ls, lf, sn, g, k))
  BY DEF OpOK, OpSet, Doing

LEMMA SyncOps ==
  ASSUME CatalogInv, NEW a \in Actors,
         \/ \E L \in SUBSET Models : Fetch(a, L)
         \/ DeleteOrphans(a) \/ \E m \in Models : Register(a, m)
         \/ LockPending(a) \/ EndSync(a) \/ \E r \in Providers : Mark(a, r)
  PROVE  OpsOK'
<1> DEFINE x == op[a]
<1>0. /\ op \in [Actors -> OpSet] /\ OpsOK
      /\ x.listing \in SUBSET Models /\ x.left \in SUBSET (Models \cup Providers)
      /\ x.snap \in [Groups -> Members] /\ x.group \in Groups \cup {NoGroup} /\ x.kept \in SUBSET Models
  BY OpsTyped DEF CatalogInv, OpsOK
<1>1. ASSUME NEW L \in SUBSET Models, Fetch(a, L) PROVE OpsOK'
  <2>1. Turns(a, "orphans", L, x.left, x.snap, x.group, x.kept)
    BY <1>0, <1>1, SyncTurns
  <2>2. OpOK(Doing("orphans", L, x.left, x.snap, x.group, x.kept))
    BY <1>0, DoingTyped DEF Steps
  <2> QED
    BY <1>0, <2>1, <2>2, TurnsTyped
<1>2. ASSUME DeleteOrphans(a) PROVE OpsOK'
  <2>1. Turns(a, "register", x.listing, x.listing, x.snap, x.group, x.kept)
    BY <1>0, <1>2, SyncTurns
  <2>2. OpOK(Doing("register", x.listing, x.listing, x.snap, x.group, x.kept))
    BY <1>0, DoingTyped DEF Steps
  <2> QED
    BY <1>0, <2>1, <2>2, TurnsTyped
<1>3. ASSUME NEW m \in Models, Register(a, m) PROVE OpsOK'
  <2>1. Turns(a, x.step, x.listing, x.left \ {m}, x.snap, x.group, x.kept) /\ x.step = "register"
    BY <1>0, <1>3, SyncTurns DEF Register
  <2>2. OpOK(Doing("register", x.listing, x.left \ {m}, x.snap, x.group, x.kept))
    BY <1>0, DoingTyped DEF Steps
  <2> QED
    BY <1>0, <2>1, <2>2, TurnsTyped
<1>4. ASSUME LockPending(a) PROVE OpsOK'
  <2> DEFINE S == {ProviderOf[m] : m \in x.listing}
  <2>1. Turns(a, "mark", x.listing, S, x.snap, x.group, x.kept)
    BY <1>0, <1>4, SyncTurns
  <2>2. S \in SUBSET (Models \cup Providers)
    BY <1>0, ProviderAssumption
  <2> HIDE DEF S
  <2>3. OpOK(Doing("mark", x.listing, S, x.snap, x.group, x.kept))
    BY <1>0, <2>2, DoingTyped DEF Steps
  <2> QED
    BY <1>0, <2>1, <2>3, TurnsTyped
<1>5. ASSUME NEW r \in Providers, Mark(a, r) PROVE OpsOK'
  <2>1. Turns(a, x.step, x.listing, x.left \ {r}, x.snap, x.group, x.kept) /\ x.step = "mark"
    BY <1>0, <1>5, SyncTurns DEF Mark
  <2>2. OpOK(Doing("mark", x.listing, x.left \ {r}, x.snap, x.group, x.kept))
    BY <1>0, DoingTyped DEF Steps
  <2> QED
    BY <1>0, <2>1, <2>2, TurnsTyped
<1>6. ASSUME EndSync(a) PROVE OpsOK'
  <2>1. Turns(a, "reload", {}, x.left, x.snap, x.group, x.kept)
    BY <1>0, <1>6, SyncTurns
  <2>2. OpOK(Doing("reload", {}, x.left, x.snap, x.group, x.kept))
    BY <1>0, DoingTyped DEF Steps
  <2> QED
    BY <1>0, <2>1, <2>2, TurnsTyped
<1> QED
  BY <1>1, <1>2, <1>3, <1>4, <1>5, <1>6

LEMMA OtherOps ==
  ASSUME CatalogInv, NEW a \in Actors,
         \/ ReadGroups(a) \/ LoadAvailability(a) \/ SwapCache(a)
         \/ DeleteGroup(a) \/ PruneFilter(a) \/ PruneWrite(a)
         \/ \E g \in Groups : CheckUnlinked(a, g) \/ PruneRead(a, g)
         \/ \E g \in Groups, S \in MemberSets : SetGroup(a, g, S)
  PROVE  OpsOK'
<1> DEFINE x == op[a]
<1>0. /\ op \in [Actors -> OpSet] /\ OpsOK /\ groups \in [Groups -> Members]
      /\ x.listing \in SUBSET Models /\ x.left \in SUBSET (Models \cup Providers)
      /\ x.snap \in [Groups -> Members] /\ x.group \in Groups \cup {NoGroup} /\ x.kept \in SUBSET Models
      /\ OpOK(x)
  BY OpsTyped DEF CatalogInv, OpsOK, TypeOK
<1>1. ASSUME ReadGroups(a) PROVE OpsOK'
  <2>1. Turns(a, "avail", x.listing, x.left, groups, x.group, x.kept)
    BY <1>0, <1>1, ReloadTurns
  <2>2. OpOK(Doing("avail", x.listing, x.left, groups, x.group, x.kept))
    BY <1>0, DoingTyped DEF Steps
  <2> QED
    BY <1>0, <2>1, <2>2, TurnsTyped
<1>2. ASSUME LoadAvailability(a) PROVE OpsOK'
  <2>1. Turns(a, "swap", x.listing, x.left, x.snap, x.group, Removed)
    BY <1>0, <1>2, ReloadTurns
  <2>2. OpOK(Doing("swap", x.listing, x.left, x.snap, x.group, Removed))
    <3>1. Removed \in SUBSET Models
      BY DEF Removed
    <3> QED
      BY <1>0, <3>1, DoingTyped DEF Steps
  <2> QED
    BY <1>0, <2>1, <2>2, TurnsTyped
<1>3. ASSUME SwapCache(a) \/ DeleteGroup(a) \/ PruneWrite(a) PROVE OpsOK'
  BY <1>0, <1>3, ReloadTurns, EditTurns, BackTyped
<1>4. ASSUME PruneFilter(a) PROVE OpsOK'
  <2>1. CASE Back(a, "reload")
    BY <1>0, <2>1, BackTyped
  <2>2. CASE Turns(a, "prune", x.listing, x.left, x.snap, x.group, x.kept \ Removed)
    <3>1. x.group \in Groups /\ x.kept \in MemberSets
      BY <1>0, <1>4 DEF PruneFilter, OpOK
    <3>2. x.kept \ Removed \in MemberSets /\ x.kept \ Removed \in SUBSET Models
      BY <1>0, <3>1, NotAGroup
    <3>3. OpOK(Doing("prune", x.listing, x.left, x.snap, x.group, x.kept \ Removed))
      BY <1>0, <3>1, <3>2, DoingTyped DEF Steps
    <3> QED
      BY <1>0, <2>2, <3>3, TurnsTyped
  <2> QED
    BY <1>0, <1>4, <2>1, <2>2, EditTurns
<1>5. ASSUME NEW g \in Groups, CheckUnlinked(a, g) PROVE OpsOK'
  <2>1. Turns(a, "delete", x.listing, x.left, x.snap, g, x.kept)
    BY <1>0, <1>5, EditTurns
  <2>2. OpOK(Doing("delete", x.listing, x.left, x.snap, g, x.kept))
    BY <1>0, DoingTyped DEF Steps
  <2> QED
    BY <1>0, <2>1, <2>2, TurnsTyped
<1>6. ASSUME NEW g \in Groups, PruneRead(a, g) PROVE OpsOK'
  <2>1. Turns(a, "filter", x.listing, x.left, x.snap, g, groups[g])
    BY <1>0, <1>6, EditTurns
  <2>2. groups[g] \in MemberSets /\ groups[g] \in SUBSET Models
    BY <1>0, <1>6, NotAGroup DEF PruneRead, Members
  <2>3. OpOK(Doing("filter", x.listing, x.left, x.snap, g, groups[g]))
    BY <1>0, <2>2, DoingTyped DEF Steps
  <2> QED
    BY <1>0, <2>1, <2>3, TurnsTyped
<1>7. ASSUME NEW g \in Groups, NEW S \in MemberSets, SetGroup(a, g, S) PROVE OpsOK'
  <2>1. Turns(a, "reload", x.listing, x.left, x.snap, x.group, x.kept)
    BY <1>0, <1>7, EditTurns
  <2>2. OpOK(Doing("reload", x.listing, x.left, x.snap, x.group, x.kept))
    BY <1>0, DoingTyped DEF Steps
  <2> QED
    BY <1>0, <2>1, <2>2, TurnsTyped
<1> QED
  BY <1>1, <1>2, <1>3, <1>4, <1>5, <1>6, <1>7

(* What each step leaves of the tables and of memory.                      *)
LEMMA ListedTyped == ASSUME TypeOK PROVE Listed \in SUBSET Models
  BY DEF Listed, TypeOK

LEMMA TablesTyped ==
  ASSUME CatalogInv, Next
  PROVE  /\ catalog' \in SUBSET Models /\ configured' \in SUBSET Providers
         /\ rows' \in [Models -> {"absent", "present", "removed"}] /\ pending' \in SUBSET Providers
         /\ groups' \in [Groups -> Members] /\ links' \in [Keys -> SUBSET Groups]
         /\ memGroups' \in [Groups -> Members] /\ memRemoved' \in SUBSET Models
<1>0. /\ TypeOK /\ OpsOK /\ Removed \in SUBSET Models
      /\ catalog \in SUBSET Models /\ configured \in SUBSET Providers
      /\ rows \in [Models -> {"absent", "present", "removed"}] /\ pending \in SUBSET Providers
      /\ groups \in [Groups -> Members] /\ links \in [Keys -> SUBSET Groups]
      /\ memGroups \in [Groups -> Members] /\ memRemoved \in SUBSET Models
  BY DEF CatalogInv, TypeOK, Removed
<1> DEFINE Goal == /\ catalog' \in SUBSET Models /\ configured' \in SUBSET Providers
                   /\ rows' \in [Models -> {"absent", "present", "removed"}] /\ pending' \in SUBSET Providers
                   /\ groups' \in [Groups -> Members] /\ links' \in [Keys -> SUBSET Groups]
                   /\ memGroups' \in [Groups -> Members] /\ memRemoved' \in SUBSET Models
<1>1. CASE CatalogChanges \/ Restart \/ \E r \in Providers : ProviderDeleted(r)
  BY <1>0, <1>1 DEF CatalogChanges, Restart, ProviderDeleted, tables, memory
<1>2. ASSUME NEW a \in Actors, \E L : Fetch(a, L) PROVE Goal
  BY <1>0, <1>2 DEF Fetch, tables, memory
<1>3. ASSUME NEW a \in Actors, DeleteOrphans(a) \/ (\E m \in Models : Register(a, m))
                                \/ LockPending(a) \/ EndSync(a) PROVE Goal
  BY <1>0, <1>3 DEF DeleteOrphans, Register, LockPending, EndSync, tables, memory
<1>4. ASSUME NEW a \in Actors, NEW r \in Providers, Mark(a, r) PROVE Goal
  BY <1>0, <1>4 DEF Mark, memory
<1>5. ASSUME NEW a \in Actors, ReadGroups(a) \/ LoadAvailability(a) \/ SwapCache(a) PROVE Goal
  <2>1. op[a].snap \in [Groups -> Members] /\ op[a].kept \in SUBSET Models
    BY <1>0, OpsTyped
  <2> QED
    BY <1>0, <1>5, <2>1 DEF ReadGroups, LoadAvailability, SwapCache, tables, memory
<1>6. ASSUME NEW a \in Actors, DeleteGroup(a) \/ PruneFilter(a) \/ PruneWrite(a) PROVE Goal
  <2>1. PruneWrite(a) => op[a].kept \in Members
    BY <1>0, OpsTyped, NotAGroup DEF OpOK, PruneWrite
  <2>2. groups' \in [Groups -> Members]
    BY <1>0, <1>6, <2>1, NotAGroup DEF DeleteGroup, PruneFilter,
               PruneWrite, tables
  <2> QED
    BY <1>0, <1>6, <2>2 DEF DeleteGroup, PruneFilter,
               PruneWrite, tables, memory
<1>7. ASSUME NEW a \in Actors, Administer(a) PROVE Goal
  <2>1. ASSUME NEW g \in Groups, CheckUnlinked(a, g) \/ PruneRead(a, g) PROVE Goal
    BY <1>0, <2>1 DEF CheckUnlinked, PruneRead, tables, memory
  <2>2. ASSUME NEW g \in Groups, NEW S \in MemberSets, SetGroup(a, g, S) PROVE Goal
    BY <1>0, <2>2, NotAGroup DEF SetGroup, memory
  <2>3. ASSUME NEW k \in Keys, NEW G \in SUBSET Groups, LinkKey(a, k, G) PROVE Goal
    BY <1>0, <2>3 DEF LinkKey, memory
  <2>4. ASSUME NEW m \in Models, SetModelEnabled(a, m) PROVE Goal
    BY <1>0, <2>4 DEF SetModelEnabled, memory
  <2>5. ASSUME NEW S, DeleteModels(a, S) PROVE Goal
    BY <1>0, <2>5 DEF DeleteModels, memory
  <2> QED
    BY <1>7, <2>1, <2>2, <2>3, <2>4, <2>5 DEF Administer
<1> HIDE DEF Goal
<1>8. Goal
  BY <1>1, <1>2, <1>3, <1>4, <1>5, <1>6, <1>7
     DEF Next, Disturb, Continue, FetchWhole, FetchPart, FetchTruncated, Goal
<1> QED
  BY <1>8 DEF Goal

(* No step leaves what an actor is doing ill typed.                        *)
LEMMA OpsStayTyped == ASSUME CatalogInv, Next PROVE OpsOK'
<1>0. TypeOK /\ OpsOK
  BY DEF CatalogInv
<1>1. CASE UNCHANGED op
  BY <1>0, <1>1 DEF OpsOK
<1>2. CASE Restart
  <2>1. OpOK(Idle)
    <3>1. OpOK(Doing("idle", {}, {}, [g \in Groups |-> NoGroup], NoGroup, {}))
      BY DEF OpOK, OpSet, Doing, Steps, Members
    <3> QED
      BY <3>1, IdleIs
  <2> QED
    BY <1>2, <2>1 DEF Restart, OpsOK, OpOK
<1>3. ASSUME NEW a \in Actors, FetchWhole(a) \/ FetchPart(a) \/ FetchTruncated(a) PROVE OpsOK'
  <2>1. PICK L \in SUBSET Models : Fetch(a, L)
    BY <1>0, <1>3, ListedTyped DEF FetchWhole, FetchPart, FetchTruncated
  <2> QED
    BY <2>1, SyncOps
<1>4. ASSUME NEW a \in Actors, Continue(a) PROVE OpsOK'
  <2>1. \/ \/ DeleteOrphans(a) \/ \E m \in Models : Register(a, m)
           \/ LockPending(a) \/ EndSync(a) \/ \E r \in Providers : Mark(a, r)
        \/ \/ ReadGroups(a) \/ LoadAvailability(a) \/ SwapCache(a)
           \/ DeleteGroup(a) \/ PruneFilter(a) \/ PruneWrite(a)
    BY <1>4 DEF Continue
  <2> QED
    BY <2>1, SyncOps, OtherOps
<1>5. ASSUME NEW a \in Actors, Administer(a) PROVE OpsOK'
  <2>1. CASE \E g \in Groups : CheckUnlinked(a, g) \/ PruneRead(a, g)
    BY <2>1, OtherOps
  <2>2. CASE \E g \in Groups, S \in MemberSets : SetGroup(a, g, S)
    BY <2>2, OtherOps
  <2>3. CASE UNCHANGED op
    BY <1>1, <2>3
  <2> QED
    BY <1>5, <2>1, <2>2, <2>3 DEF Administer, LinkKey, SetModelEnabled, DeleteModels
<1>6. CASE CatalogChanges \/ \E r \in Providers : ProviderDeleted(r)
  BY <1>1, <1>6 DEF CatalogChanges, ProviderDeleted
<1> QED
  BY <1>2, <1>3, <1>4, <1>5, <1>6 DEF Next, Disturb

LEMMA CatalogInitInv == Init => CatalogInv
<1> SUFFICES ASSUME Init PROVE CatalogInv
  OBVIOUS
<1>1. Idle \in OpSet /\ Idle.step = "idle"
  BY DEF Idle, OpSet, Steps, Members
<1>2. op \in [Actors -> OpSet] /\ \A a \in Actors : op[a].step = "idle"
  BY <1>1 DEF Init
<1>3. TypeOK
  BY <1>2 DEF Init, TypeOK
<1> QED
  BY <1>2, <1>3 DEF CatalogInv, OpsOK, OpOK

LEMMA CatalogNextInv == CatalogInv /\ [Next]_vars => CatalogInv'
<1> SUFFICES ASSUME CatalogInv, [Next]_vars PROVE CatalogInv'
  OBVIOUS
<1>1. CASE Next
  <2>1. OpsOK'
    BY <1>1, OpsStayTyped
  <2>2. TypeOK'
    BY <1>1, <2>1, TablesTyped DEF TypeOK, OpsOK, OpOK
  <2> QED
    BY <2>1, <2>2 DEF CatalogInv
<1>2. CASE UNCHANGED vars
  BY <1>2 DEF vars, tables, memory, CatalogInv, TypeOK, OpsOK
<1> QED
  BY <1>1, <1>2

(* Types of the catalog, the groups and what every actor is doing, for any *)
(* number of actors, providers, models, groups and keys (applyListing,     *)
(* RemoveUnavailableEntries, ReloadGroupCache).                            *)
THEOREM CatalogTypesHold == Spec => []TypeOK
<1>1. CatalogInv => TypeOK
  BY DEF CatalogInv
<1> QED
  BY <1>1, CatalogInitInv, CatalogNextInv, PTL DEF Spec

-----------------------------------------------------------------------------
(* GroupReloads. What the steps of others leave of a reload: one that is   *)
(* due stays due, and one under way keeps what it has read.                *)
Keeps(b) ==
  /\ op[b].step = "reload" => op'[b].step = "reload"
  /\ op[b].step \in {"avail", "swap"} => op'[b].step \in {"avail", "swap"} /\ op'[b].snap = op[b].snap

KeepsAll == \A b \in Actors : Keeps(b)

LEMMA TurnKeeps ==
  ASSUME op \in [Actors -> OpSet], NEW a \in Actors, NEW s, NEW ls, NEW lf, NEW sn, NEW g, NEW k,
         Turns(a, s, ls, lf, sn, g, k), op[a].step = "reload" => s = "reload",
         op[a].step \in {"avail", "swap"} => s \in {"avail", "swap"} /\ sn = op[a].snap
  PROVE  KeepsAll
<1>1. /\ op'[a].step = s /\ op'[a].snap = sn
      /\ \A b \in Actors : b # a => op'[b] = op[b]
  BY TurnsTo
<1> QED
  BY <1>1 DEF Keeps, KeepsAll

(* A sync or an edit that is not at its reload leaves every reload alone,  *)
(* and ends with one when it has changed the groups.                       *)
LEMMA SyncKeeps ==
  ASSUME CatalogInv, NEW a \in Actors,
         \/ \E L : Fetch(a, L)
         \/ DeleteOrphans(a) \/ \E m \in Models : Register(a, m)
         \/ LockPending(a) \/ EndSync(a) \/ \E r \in Providers : Mark(a, r)
  PROVE  KeepsAll /\ groups' = groups /\ memGroups' = memGroups
<1> DEFINE x == op[a]
<1>0. op \in [Actors -> OpSet]
  BY DEF CatalogInv, OpsOK
<1>1. groups' = groups /\ memGroups' = memGroups
  BY DEF Fetch, DeleteOrphans, Register, LockPending, EndSync, Mark, tables, memory
<1>2. ASSUME NEW L, Fetch(a, L) PROVE KeepsAll
  <2>1. Turns(a, "orphans", L, x.left, x.snap, x.group, x.kept) /\ x.step = "idle"
    BY <1>0, <1>2, SyncTurns DEF Fetch
  <2> QED
    BY <1>0, <2>1, TurnKeeps
<1>3. ASSUME DeleteOrphans(a) PROVE KeepsAll
  <2>1. Turns(a, "register", x.listing, x.listing, x.snap, x.group, x.kept) /\ x.step = "orphans"
    BY <1>0, <1>3, SyncTurns DEF DeleteOrphans
  <2> QED
    BY <1>0, <2>1, TurnKeeps
<1>4. ASSUME NEW m \in Models, Register(a, m) PROVE KeepsAll
  <2>1. Turns(a, x.step, x.listing, x.left \ {m}, x.snap, x.group, x.kept) /\ x.step = "register"
    BY <1>0, <1>4, SyncTurns DEF Register
  <2> QED
    BY <1>0, <2>1, TurnKeeps
<1>5. ASSUME LockPending(a) PROVE KeepsAll
  <2>1. /\ Turns(a, "mark", x.listing, {ProviderOf[m] : m \in x.listing}, x.snap, x.group, x.kept)
        /\ x.step = "register"
    BY <1>0, <1>5, SyncTurns DEF LockPending
  <2> QED
    BY <1>0, <2>1, TurnKeeps
<1>6. ASSUME EndSync(a) PROVE KeepsAll
  <2>1. Turns(a, "reload", {}, x.left, x.snap, x.group, x.kept) /\ x.step = "mark"
    BY <1>0, <1>6, SyncTurns DEF EndSync
  <2> QED
    BY <1>0, <2>1, TurnKeeps
<1>7. ASSUME NEW r \in Providers, Mark(a, r) PROVE KeepsAll
  <2>1. Turns(a, x.step, x.listing, x.left \ {r}, x.snap, x.group, x.kept) /\ x.step = "mark"
    BY <1>0, <1>7, SyncTurns DEF Mark
  <2> QED
    BY <1>0, <2>1, TurnKeeps
<1> QED
  BY <1>1, <1>2, <1>3, <1>4, <1>5, <1>6, <1>7

LEMMA EditKeeps ==
  ASSUME CatalogInv, NEW a \in Actors,
         \/ \E g \in Groups : CheckUnlinked(a, g) \/ PruneRead(a, g)
         \/ \E g \in Groups, S \in MemberSets : SetGroup(a, g, S)
         \/ DeleteGroup(a) \/ PruneFilter(a) \/ PruneWrite(a)
  PROVE  /\ KeepsAll /\ memGroups' = memGroups
         /\ groups' = groups \/ op'[a].step = "reload"
<1> DEFINE x == op[a]
           Goal == /\ KeepsAll /\ memGroups' = memGroups
                   /\ groups' = groups \/ op'[a].step = "reload"
<1>0. op \in [Actors -> OpSet] /\ groups \in [Groups -> Members]
  BY DEF CatalogInv, OpsOK, TypeOK
<1>1. ASSUME NEW g \in Groups, CheckUnlinked(a, g) PROVE Goal
  <2>1. Turns(a, "delete", x.listing, x.left, x.snap, g, x.kept) /\ x.step = "idle"
    BY <1>0, <1>1, EditTurns DEF CheckUnlinked
  <2>2. KeepsAll
    BY <1>0, <2>1, TurnKeeps
  <2> QED
    BY <1>1, <2>2 DEF CheckUnlinked, tables, memory
<1>2. ASSUME NEW g \in Groups, PruneRead(a, g) PROVE Goal
  <2>1. Turns(a, "filter", x.listing, x.left, x.snap, g, groups[g]) /\ x.step = "idle"
    BY <1>0, <1>2, EditTurns DEF PruneRead
  <2>2. KeepsAll
    BY <1>0, <2>1, TurnKeeps
  <2> QED
    BY <1>2, <2>2 DEF PruneRead, tables, memory
<1>3. ASSUME NEW g \in Groups, NEW S \in MemberSets, SetGroup(a, g, S) PROVE Goal
  <2>1. Turns(a, "reload", x.listing, x.left, x.snap, x.group, x.kept) /\ x.step = "idle"
    BY <1>0, <1>3, EditTurns DEF SetGroup
  <2>2. KeepsAll
    BY <1>0, <2>1, TurnKeeps
  <2>3. op'[a].step = "reload"
    BY <1>0, <2>1, TurnsTo
  <2> QED
    BY <1>3, <2>2, <2>3 DEF SetGroup, memory
<1>4. CASE DeleteGroup(a) \/ PruneWrite(a)
  <2>0. x.step \in {"delete", "prune"} /\ memGroups' = memGroups
    BY <1>4 DEF DeleteGroup, PruneWrite, memory
  <2>1. CASE groups[x.group] = NoGroup
    <3>1. Back(a, "idle")
      BY <1>0, <1>4, <2>1, EditTurns
    <3>2. KeepsAll
      BY <1>0, <2>0, <3>1, TurnKeeps DEF Back
    <3>3. groups' = groups
      BY <1>0, <1>4, <2>1 DEF DeleteGroup, PruneWrite
    <3> QED
      BY <2>0, <3>2, <3>3
  <2>2. CASE groups[x.group] # NoGroup
    <3>1. Back(a, "reload")
      BY <1>0, <1>4, <2>2, EditTurns
    <3>2. KeepsAll
      BY <1>0, <2>0, <3>1, TurnKeeps DEF Back
    <3>3. op'[a].step = "reload"
      BY <1>0, <3>1, TurnsTo DEF Back
    <3> QED
      BY <2>0, <3>2, <3>3
  <2> QED
    BY <2>1, <2>2
<1>5. CASE PruneFilter(a)
  <2>0. x.step = "filter"
    BY <1>5 DEF PruneFilter
  <2>1. \/ Back(a, "reload")
        \/ Turns(a, "prune", x.listing, x.left, x.snap, x.group, x.kept \ Removed)
    BY <1>0, <1>5, EditTurns
  <2>2. KeepsAll
    BY <1>0, <2>0, <2>1, TurnKeeps DEF Back
  <2> QED
    BY <1>5, <2>2 DEF PruneFilter, tables, memory
<1> QED
  BY <1>1, <1>2, <1>3, <1>4, <1>5

LEMMA OthersKeep ==
  ASSUME CatalogInv, Next, ~ Restart, \A a \in Actors : ~ ReadGroups(a) /\ ~ SwapCache(a)
  PROVE  /\ KeepsAll /\ memGroups' = memGroups
         /\ groups' = groups \/ \E b \in Actors : op'[b].step = "reload"
<1> DEFINE Goal == /\ KeepsAll /\ memGroups' = memGroups
                   /\ groups' = groups \/ \E b \in Actors : op'[b].step = "reload"
<1>0. op \in [Actors -> OpSet]
  BY DEF CatalogInv, OpsOK
<1>1. CASE UNCHANGED <<op, groups, memGroups>>
  BY <1>1 DEF KeepsAll, Keeps
<1>2. CASE CatalogChanges \/ \E r \in Providers : ProviderDeleted(r)
  BY <1>1, <1>2 DEF CatalogChanges, ProviderDeleted, tables, memory
<1>3. ASSUME NEW a \in Actors, FetchWhole(a) \/ FetchPart(a) \/ FetchTruncated(a) PROVE Goal
  <2>1. \E L : Fetch(a, L)
    BY <1>3 DEF FetchWhole, FetchPart, FetchTruncated
  <2> QED
    BY <2>1, SyncKeeps
<1>4. ASSUME NEW a \in Actors, LoadAvailability(a) PROVE Goal
  <2>1. /\ Turns(a, "swap", op[a].listing, op[a].left, op[a].snap, op[a].group, Removed)
        /\ op[a].step = "avail"
    BY <1>0, <1>4, ReloadTurns DEF LoadAvailability
  <2>2. KeepsAll
    BY <1>0, <2>1, TurnKeeps
  <2> QED
    BY <1>4, <2>2 DEF LoadAvailability, tables, memory
<1>5. ASSUME NEW a \in Actors, Continue(a) PROVE Goal
  <2>1. CASE DeleteGroup(a) \/ PruneFilter(a) \/ PruneWrite(a)
    BY <2>1, EditKeeps
  <2>2. CASE DeleteOrphans(a) \/ LockPending(a) \/ EndSync(a)
    BY <2>2, SyncKeeps
  <2>3. CASE (\E m \in Models : Register(a, m)) \/ \E r \in Providers : Mark(a, r)
    BY <2>3, SyncKeeps
  <2> QED
    BY <1>4, <1>5, <2>1, <2>2, <2>3 DEF Continue
<1>6. ASSUME NEW a \in Actors, Administer(a) PROVE Goal
  <2>1. CASE (\E g \in Groups : CheckUnlinked(a, g) \/ PruneRead(a, g))
             \/ \E g \in Groups, S \in MemberSets : SetGroup(a, g, S)
    BY <2>1, EditKeeps
  <2>2. CASE \/ \E k \in Keys, G \in SUBSET Groups : LinkKey(a, k, G)
             \/ \E m \in Models : SetModelEnabled(a, m)
             \/ \E S : DeleteModels(a, S)
    BY <1>1, <2>2 DEF LinkKey, SetModelEnabled, DeleteModels, memory
  <2> QED
    BY <1>6, <2>1, <2>2 DEF Administer
<1> QED
  BY <1>2, <1>3, <1>5, <1>6 DEF Next, Disturb

(* A reload is due, or the newest reading holds what is stored, or it has  *)
(* been stored and nothing older after it.                                 *)
CacheKnown ==
  \/ \E a \in Actors : op[a].step = "reload"
  \/ newest # NoActor /\ op[newest].snap = groups
  \/ newest = NoActor /\ (overtaken \/ memGroups = groups)

ReloadsInv ==
  /\ CatalogInv /\ ReloadsTypeOK /\ CacheKnown
  /\ newest # NoActor => op[newest].step \in {"avail", "swap"}

LEMMA ReloadsInitInv == ReloadsInit => ReloadsInv
  BY CatalogInitInv DEF ReloadsInit, ReloadsInv, CatalogInv, ReloadsTypeOK, CacheKnown, Init

LEMMA ReloadsAreSteps == [ReloadsNext]_reloadsVars => [Next]_vars
  BY DEF ReloadsNext, reloadsVars, Reads, Stores, Restarts, Next, Continue, Disturb

LEMMA ReloadsNextInv == ReloadsInv /\ [ReloadsNext]_reloadsVars => ReloadsInv'
<1> SUFFICES ASSUME ReloadsInv, [ReloadsNext]_reloadsVars PROVE ReloadsInv'
  OBVIOUS
<1>0. /\ CatalogInv /\ newest \in Actors \cup {NoActor} /\ overtaken \in BOOLEAN
      /\ op \in [Actors -> OpSet] /\ NoActor \notin Actors
  BY NoActorAssumption DEF ReloadsInv, ReloadsTypeOK, CatalogInv, OpsOK
<1>1. CatalogInv' /\ TypeOK'
  BY ReloadsAreSteps, CatalogNextInv DEF ReloadsInv, CatalogInv
<1> DEFINE Known == /\ newest' \in Actors \cup {NoActor} /\ overtaken' \in BOOLEAN /\ CacheKnown'
                    /\ newest' # NoActor => op'[newest'].step \in {"avail", "swap"}
<1>2. ASSUME NEW a \in Actors, Reads(a) PROVE Known
  <2>1. Turns(a, "avail", op[a].listing, op[a].left, groups, op[a].group, op[a].kept)
    BY <1>0, <1>2, ReloadTurns DEF Reads
  <2>2. op'[a].step = "avail" /\ op'[a].snap = groups
    BY <1>0, <2>1, TurnsTo
  <2> QED
    BY <1>0, <1>2, <2>2 DEF Reads, ReadGroups, tables, CacheKnown
<1>3. ASSUME NEW a \in Actors, Stores(a) PROVE Known
  <2>1. /\ op[a].step = "swap" /\ memGroups' = op[a].snap /\ groups' = groups
        /\ newest' = (IF a = newest THEN NoActor ELSE newest)
        /\ overtaken' = (newest = NoActor \/ (overtaken /\ a # newest))
    BY <1>3 DEF Stores, SwapCache, tables
  <2>2. Back(a, "idle")
    BY <1>0, <1>3, ReloadTurns DEF Stores
  <2>3. op'[a].step = "idle" /\ \A b \in Actors : b # a => op'[b] = op[b]
    BY <1>0, <2>2, TurnsTo DEF Back
  <2>4. newest' \in Actors \cup {NoActor} /\ overtaken' \in BOOLEAN
    BY <1>0, <2>1
  <2>5. newest' # NoActor => op'[newest'].step \in {"avail", "swap"} /\ op'[newest'].snap = op[newest'].snap
    BY <1>0, <2>1, <2>3 DEF ReloadsInv
  <2>6. ASSUME \E b \in Actors : op[b].step = "reload" PROVE CacheKnown'
    <3>1. PICK b \in Actors : op[b].step = "reload"
      BY <2>6
    <3>2. b # a /\ op'[b].step = "reload"
      BY <2>1, <2>3, <3>1
    <3> QED
      BY <3>2 DEF CacheKnown
  <2>7. ASSUME newest # NoActor /\ op[newest].snap = groups PROVE CacheKnown'
    <3>1. CASE newest = a
      BY <2>1, <2>7, <3>1 DEF CacheKnown
    <3>2. CASE newest # a
      BY <2>1, <2>5, <2>7, <3>2 DEF CacheKnown
    <3> QED
      BY <3>1, <3>2
  <2>8. ASSUME newest = NoActor PROVE CacheKnown'
    BY <1>0, <2>1, <2>8 DEF CacheKnown
  <2>9. CacheKnown'
    BY <2>6, <2>7, <2>8 DEF ReloadsInv, CacheKnown
  <2> QED
    BY <2>4, <2>5, <2>9
<1>4. ASSUME Restarts PROVE Known
  <2>1. newest' = NoActor /\ overtaken' = FALSE /\ memGroups' = groups'
    BY <1>4 DEF Restarts, Restart, tables
  <2> QED
    BY <2>1 DEF CacheKnown
<1>5. ASSUME Next, ~ Restart, \A a \in Actors : ~ ReadGroups(a) /\ ~ SwapCache(a),
             UNCHANGED <<newest, overtaken>>
      PROVE  Known
  <2>1. /\ KeepsAll /\ memGroups' = memGroups
        /\ groups' = groups \/ \E b \in Actors : op'[b].step = "reload"
    BY <1>0, <1>5, OthersKeep
  <2>2. newest # NoActor => op'[newest].step \in {"avail", "swap"} /\ op'[newest].snap = op[newest].snap
    BY <1>0, <2>1 DEF ReloadsInv, KeepsAll, Keeps
  <2>3. CacheKnown'
    BY <1>0, <1>5, <2>1, <2>2 DEF ReloadsInv, CacheKnown, KeepsAll, Keeps
  <2>4. newest' = newest /\ overtaken' = overtaken
    BY <1>5
  <2> QED
    BY <1>0, <2>2, <2>3, <2>4
<1>6. ASSUME UNCHANGED reloadsVars PROVE Known
  <2>1. newest' = newest /\ overtaken' = overtaken /\ op' = op /\ groups' = groups /\ memGroups' = memGroups
    BY <1>6 DEF reloadsVars, vars, tables, memory
  <2>2. CacheKnown'
    BY <2>1 DEF ReloadsInv, CacheKnown
  <2> QED
    BY <1>0, <2>1, <2>2 DEF ReloadsInv
<1> HIDE DEF Known
<1>7. Known
  BY <1>0, <1>2, <1>3, <1>4, <1>5, <1>6 DEF ReloadsNext
<1> QED
  BY <1>1, <1>7 DEF Known, ReloadsInv, ReloadsTypeOK

(* Whatever any number of actors do at once, access is decided by the      *)
(* groups as they are stored once nothing is under way, unless a reload    *)
(* put in place what it had read before another that was through already:  *)
(* every statement that changes groups is followed by a reload, and the    *)
(* one that reads last has read them all (ReloadGroupCache).               *)
THEOREM OnlyOvertakenCachesAreStale == ReloadsSpec => []OnlyOvertakenIsStale
<1>1. ReloadsInv => OnlyOvertakenIsStale
  BY DEF ReloadsInv, ReloadsTypeOK, CacheKnown, OnlyOvertakenIsStale
<1> QED
  BY <1>1, ReloadsInitInv, ReloadsNextInv, PTL DEF ReloadsSpec

LEMMA ReloadsTypesHold == ReloadsSpec => []ReloadsTypeOK
<1>1. ReloadsInv => ReloadsTypeOK
  BY DEF ReloadsInv
<1> QED
  BY <1>1, ReloadsInitInv, ReloadsNextInv, PTL DEF ReloadsSpec
=============================================================================
