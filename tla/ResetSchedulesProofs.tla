------------------------ MODULE ResetSchedulesProofs ------------------------
(***************************************************************************)
(* Proofs about ResetSchedules for any keys, schedules, periods and        *)
(* calendar that satisfy the assumptions of QuotaWindows, under the        *)
(* hypothesis SerialEdits: one administrator, whose edit is over before    *)
(* the next instant. Run schedules_two_admins shows a second administrator *)
(* moving a window, and a slow edit can do so too (README, section 6).      *)
(***************************************************************************)
EXTENDS ResetSchedules, TLAPS

SerialEdits ==
  /\ \E a \in Admins : Admins = {a}
  /\ ClockMovesDuringEdit = FALSE

(* A Transitional Window never lies in the future.                         *)
HasBegun(rule, t) ==
  \A p \in Periods : rule.pins[p].start <= t \/ rule.pins[p].until <= rule.pins[p].start

SoundRule(rule, t) == EndsOnSchedule(rule, t) /\ HasBegun(rule, t)

SameStart(rule1, rule2, t) ==
  \A p \in Periods : CalcQuotaWindow(p, rule1, t).start = CalcQuotaWindow(p, rule2, t).start

RulesSound ==
  \A k \in Keys : SoundRule(StoredRule(k), now) /\ SoundRule(cache[k], now)

StartsAgree == \A k \in Keys : SameStart(cache[k], StoredRule(k), now)

InMemoryAsStored ==
  memGlobal = dbGlobal /\ \A k \in Keys : cache[k] = StoredRule(k)

(* What is known at each step of an edit.                                  *)
EditProgress ==
  \A a \in Admins :
    /\ edit[a].step = "idle" => InMemoryAsStored
    /\ edit[a].step \in {"setGlobal", "clear"} =>
         /\ InMemoryAsStored
         /\ edit[a].global = memGlobal
         /\ edit[a].at = now
    /\ edit[a].step = "publish" => dbGlobal = edit[a].schedule
    /\ edit[a].step = "load" => memGlobal = dbGlobal

IInv == TypeOK /\ RulesSound /\ StartsAgree /\ EditProgress

-----------------------------------------------------------------------------
(* A window computed for an instant contains it.                           *)
LEMMA WindowContainsNow ==
  ASSUME NEW rule \in RuleSet, NEW t \in Instants, NEW p \in Periods
  PROVE  /\ CalcQuotaWindow(p, rule, t) \in WindowSet
         /\ CalcQuotaWindow(p, rule, t).start <= t
         /\ t < CalcQuotaWindow(p, rule, t).until
  BY CalendarAssumption, InstantsAssumption
     DEF CalcQuotaWindow, Covers, CalendarWindow, RuleSet, WindowSet

(* PinsForChange of pins.go yields well-formed pins.                       *)
LEMMA PinsAfterChangeType ==
  ASSUME NEW rule \in RuleSet, NEW s \in AnySchedule, NEW t \in Instants
  PROVE  PinsAfterChange(rule, s, t) \in [Periods -> WindowSet]
<1>1. CASE rule.schedule = s
  BY <1>1 DEF PinsAfterChange, RuleSet
<1>2. CASE rule.schedule # s
  <2>1. ASSUME NEW p \in Periods
        PROVE  /\ CalcQuotaWindow(p, rule, t).start \in Int
               /\ ResetOf[s][p][t] \in Int
    BY WindowContainsNow, CalendarAssumption DEF WindowSet
  <2>2. NoPin \in WindowSet
    BY DEF NoPin, WindowSet
  <2> QED
    BY <1>2, <2>1, <2>2 DEF PinsAfterChange, PinsForChange, WindowSet
<1> QED
  BY <1>1, <1>2

(* The pins written with a schedule change keep the start of the running   *)
(* window of every period, and leave a sound rule.                         *)
LEMMA ChangeKeepsStart ==
  ASSUME NEW rule \in RuleSet, NEW s \in AnySchedule, NEW t \in Instants,
         SoundRule(rule, t)
  PROVE  LET new == Rule(s, PinsAfterChange(rule, s, t))
         IN  new \in RuleSet /\ SoundRule(new, t) /\ SameStart(new, rule, t)
<1> DEFINE new == Rule(s, PinsAfterChange(rule, s, t))
<1>1. new \in RuleSet
  BY PinsAfterChangeType DEF Rule, RuleSet
<1>2. CASE rule.schedule = s
  <2>1. new = rule
    BY <1>2 DEF Rule, RuleSet, PinsAfterChange
  <2> QED
    BY <1>1, <2>1 DEF SameStart
<1>3. CASE rule.schedule # s
  <2> SUFFICES ASSUME NEW p \in Periods
               PROVE  /\ Covers(new.pins[p], t) => new.pins[p].until = ResetOf[s][p][t]
                      /\ \/ new.pins[p].start <= t
                         \/ new.pins[p].until <= new.pins[p].start
                      /\ CalcQuotaWindow(p, new, t).start = CalcQuotaWindow(p, rule, t).start
    BY <1>1 DEF SoundRule, EndsOnSchedule, HasBegun, SameStart, Rule
  <2> DEFINE start == CalcQuotaWindow(p, rule, t).start
  <2>1. start \in Int /\ start <= t /\ t \in Int /\ ResetOf[s][p][t] \in Int /\ t < ResetOf[s][p][t]
    BY WindowContainsNow, CalendarAssumption, InstantsAssumption DEF WindowSet
  <2>2. new.schedule = s
    BY DEF Rule
  <2>3. CASE start = StartOf[s][p][t]
    <3>1. new.pins[p] = NoPin
      BY <1>3, <2>3 DEF Rule, PinsAfterChange, PinsForChange
    <3> QED
      BY <2>1, <2>2, <2>3, <3>1 DEF NoPin, Covers, CalcQuotaWindow, CalendarWindow
  <2>4. CASE start # StartOf[s][p][t]
    <3>1. new.pins[p] = [start |-> start, until |-> ResetOf[s][p][t]]
      BY <1>3, <2>4 DEF Rule, PinsAfterChange, PinsForChange
    <3>2. Covers(new.pins[p], t)
      BY <2>1, <3>1 DEF Covers
    <3>3. CalcQuotaWindow(p, new, t) = new.pins[p]
      BY <3>2 DEF CalcQuotaWindow
    <3> QED
      BY <2>1, <3>1, <3>3
  <2> QED
    BY <2>3, <2>4
<1> QED
  BY <1>1, <1>2, <1>3

(* When the clock moves on, a sound rule stays sound, and its window goes  *)
(* on or is followed without a gap.                                        *)
LEMMA ClockTilesWindows ==
  ASSUME NEW rule \in RuleSet, NEW t \in Instants, t + 1 \in Instants,
         SoundRule(rule, t)
  PROVE  /\ SoundRule(rule, t + 1)
         /\ \A p \in Periods :
              \/ CalcQuotaWindow(p, rule, t + 1).start = CalcQuotaWindow(p, rule, t).start
              \/ /\ CalcQuotaWindow(p, rule, t + 1).start = CalcQuotaWindow(p, rule, t).until
                 /\ t + 1 = CalcQuotaWindow(p, rule, t).until
<1> SUFFICES ASSUME NEW p \in Periods
             PROVE  /\ Covers(rule.pins[p], t + 1) =>
                         rule.pins[p].until = ResetOf[rule.schedule][p][t + 1]
                    /\ \/ rule.pins[p].start <= t + 1
                       \/ rule.pins[p].until <= rule.pins[p].start
                    /\ \/ CalcQuotaWindow(p, rule, t + 1).start = CalcQuotaWindow(p, rule, t).start
                       \/ /\ CalcQuotaWindow(p, rule, t + 1).start = CalcQuotaWindow(p, rule, t).until
                          /\ t + 1 = CalcQuotaWindow(p, rule, t).until
  BY DEF SoundRule, EndsOnSchedule, HasBegun
<1> DEFINE s   == rule.schedule
           pin == rule.pins[p]
<1>1. /\ s \in AnySchedule
      /\ pin \in WindowSet /\ pin.start \in Int /\ pin.until \in Int
      /\ t \in Int
  BY InstantsAssumption DEF RuleSet, WindowSet
<1>2. /\ StartOf[s][p][t] \in Int /\ ResetOf[s][p][t] \in Int
      /\ StartOf[s][p][t] <= t /\ t < ResetOf[s][p][t]
      /\ StartOf[s][p][t + 1] \in Int /\ ResetOf[s][p][t + 1] \in Int
      /\ StartOf[s][p][t + 1] <= t + 1 /\ t + 1 < ResetOf[s][p][t + 1]
      /\ t + 1 < ResetOf[s][p][t] =>
           /\ StartOf[s][p][t + 1] = StartOf[s][p][t]
           /\ ResetOf[s][p][t + 1] = ResetOf[s][p][t]
      /\ ~(t + 1 < ResetOf[s][p][t]) => StartOf[s][p][t + 1] = ResetOf[s][p][t]
  BY <1>1, CalendarAssumption
<1>3. /\ Covers(pin, t) => pin.until = ResetOf[s][p][t]
      /\ pin.start <= t \/ pin.until <= pin.start
  BY DEF SoundRule, EndsOnSchedule, HasBegun
<1>4. /\ CalcQuotaWindow(p, rule, t) =
           IF Covers(pin, t) THEN pin ELSE [start |-> StartOf[s][p][t], until |-> ResetOf[s][p][t]]
      /\ CalcQuotaWindow(p, rule, t + 1) =
           IF Covers(pin, t + 1) THEN pin
           ELSE [start |-> StartOf[s][p][t + 1], until |-> ResetOf[s][p][t + 1]]
  BY DEF CalcQuotaWindow, CalendarWindow
<1> HIDE DEF s, pin
<1>5. /\ Covers(pin, t + 1) => pin.until = ResetOf[s][p][t + 1]
      /\ pin.start <= t + 1 \/ pin.until <= pin.start
  BY <1>1, <1>2, <1>3 DEF Covers
<1>6. \/ CalcQuotaWindow(p, rule, t + 1).start = CalcQuotaWindow(p, rule, t).start
      \/ /\ CalcQuotaWindow(p, rule, t + 1).start = CalcQuotaWindow(p, rule, t).until
         /\ t + 1 = CalcQuotaWindow(p, rule, t).until
  BY <1>1, <1>2, <1>3, <1>4 DEF Covers
<1> QED
  BY <1>5, <1>6 DEF s, pin

-----------------------------------------------------------------------------
(* What the database prescribes for a key is a Reset Rule.                 *)
LEMMA StoredRuleType ==
  ASSUME TypeOK, NEW k \in Keys
  PROVE  StoredRule(k) \in RuleSet
  BY DEF TypeOK, StoredRule, Rule, RuleSet, EffectiveSchedule, AnySchedule

(* NewManager on an unedited database is well typed.                       *)
LEMMA InitType == Init => TypeOK
<1> SUFFICES ASSUME Init PROVE TypeOK
  OBVIOUS
<1>1. Unset \in AnySchedule /\ NoPins \in [Periods -> WindowSet]
  BY DEF AnySchedule, NoPins, NoPin, WindowSet
<1>2. cache \in [Keys -> RuleSet]
  BY <1>1 DEF Init, RuleSet, Rule, EffectiveSchedule
<1>3. edit \in [Admins -> EditSet] /\ \A a \in Admins : edit[a].step = "idle"
  BY <1>1 DEF Init, Idle, EditSet, EditSteps
<1> QED
  BY <1>1, <1>2, <1>3 DEF Init, TypeOK

(* Every step of every administrator, the clock and a restart keep the types. *)
LEMMA StepType == TypeOK /\ [Next]_vars => TypeOK'
<1> SUFFICES ASSUME TypeOK, [Next]_vars PROVE TypeOK'
  OBVIOUS
<1> USE DEF TypeOK
<1>0. Unset \in AnySchedule
  BY DEF AnySchedule
<1>1. CASE Tick
  BY <1>1 DEF Tick, db, mem
<1>2. CASE Restart
  BY <1>0, <1>2, StoredRuleType DEF Restart, db, Idle, EditSet, EditSteps
<1>3. ASSUME NEW a \in Admins, AdminStep(a) PROVE TypeOK'
  <2>1. ASSUME NEW s \in AnySchedule, SetGlobalBegin(a, s) PROVE TypeOK'
    BY <2>1, InstantsAssumption DEF SetGlobalBegin, db, mem, EditSet, EditSteps
  <2>2. CASE SetGlobalTx(a)
    <3>1. edit[a] \in EditSet /\ edit[a].at \in Instants
      BY <2>2 DEF SetGlobalTx
    <3>2. ASSUME NEW k \in Keys
          PROVE  PinsAfterChange(Rule(edit[a].global, dbPins[k]), edit[a].schedule, edit[a].at)
                   \in [Periods -> WindowSet]
      BY <3>1, PinsAfterChangeType DEF Rule, RuleSet, EditSet
    <3>3. dbPins' \in [Keys -> [Periods -> WindowSet]]
      BY <2>2, <3>2 DEF SetGlobalTx
    <3> QED
      BY <2>2, <3>1, <3>3 DEF SetGlobalTx, mem, EditSet, EditSteps
  <2>3. CASE PublishGlobal(a)
    BY <2>3 DEF PublishGlobal, db, EditSet, EditSteps
  <2>4. CASE ClearBegin(a)
    BY <1>0, <2>4, InstantsAssumption DEF ClearBegin, db, mem, EditSet, EditSteps
  <2>5. CASE ClearTx(a)
    <3>1. edit[a] \in EditSet /\ edit[a].at \in Instants
      BY <2>5 DEF ClearTx
    <3>2. ASSUME NEW k \in Keys
          PROVE  PinsAfterChange(Rule(dbOwn[k], dbPins[k]), edit[a].global, edit[a].at)
                   \in [Periods -> WindowSet]
      BY <3>1, PinsAfterChangeType DEF Rule, RuleSet, EditSet
    <3>3. dbPins' \in [Keys -> [Periods -> WindowSet]]
      BY <2>5, <3>2 DEF ClearTx
    <3> QED
      BY <1>0, <2>5, <3>1, <3>3 DEF ClearTx, mem, EditSet, EditSteps
  <2>6. ASSUME NEW k \in Keys, NEW own \in AnySchedule, UpdateKeyTx(a, k, own) PROVE TypeOK'
    <3>1. /\ LoadedRule(k, memGlobal) \in RuleSet
          /\ EffectiveSchedule(own, memGlobal) \in AnySchedule
      BY DEF LoadedRule, Rule, RuleSet, EffectiveSchedule
    <3>2. PinsAfterChange(LoadedRule(k, memGlobal), EffectiveSchedule(own, memGlobal), now)
            \in [Periods -> WindowSet]
      BY <3>1, PinsAfterChangeType
    <3> QED
      BY <2>6, <3>2 DEF UpdateKeyTx, mem, EditSet, EditSteps
  <2>7. CASE OtherEdit(a)
    BY <2>7 DEF OtherEdit, db, mem, EditSet, EditSteps
  <2>8. CASE LoadLocalCache(a)
    BY <1>0, <2>8 DEF LoadLocalCache, db, Idle, EditSet, EditSteps,
                      LoadedRule, Rule, RuleSet, EffectiveSchedule
  <2> QED
    BY <1>3, <2>1, <2>2, <2>3, <2>4, <2>5, <2>6, <2>7, <2>8 DEF AdminStep
<1>4. CASE UNCHANGED vars
  BY <1>4 DEF vars, db, mem
<1> QED
  BY <1>1, <1>2, <1>3, <1>4 DEF Next

(* Every reachable state is well typed, whatever the administrators do and *)
(* however long their edits take.                                          *)
THEOREM TypeCorrect == Spec => []TypeOK
  BY InitType, StepType, PTL DEF Spec

-----------------------------------------------------------------------------
(* A step of an edit keeps the start of every window the database          *)
(* prescribes, and leaves its rules sound.                                 *)
LEMMA StoredKept ==
  ASSUME IInv, NEW a \in Admins, AdminStep(a), NEW k \in Keys
  PROVE  /\ now' = now
         /\ SoundRule(StoredRule(k)', now)
         /\ SameStart(StoredRule(k)', StoredRule(k), now)
<1>0. /\ TypeOK /\ StoredRule(k) \in RuleSet /\ SoundRule(StoredRule(k), now)
      /\ SameStart(StoredRule(k), StoredRule(k), now)
  BY StoredRuleType DEF IInv, RulesSound, SameStart
<1>1. CASE UNCHANGED <<now, db>>
  <2>1. StoredRule(k)' = StoredRule(k)
    BY <1>1 DEF StoredRule, db
  <2> QED
    BY <1>0, <1>1, <2>1
<1>2. CASE SetGlobalTx(a)
  <2> DEFINE s == edit[a].schedule
  <2>1. /\ s \in AnySchedule /\ now' = now
        /\ edit[a].global = dbGlobal /\ edit[a].at = now
        /\ dbOwn' = dbOwn /\ dbGlobal' = s
        /\ dbPins'[k] = IF dbOwn[k] # Unset THEN dbPins[k]
                        ELSE PinsAfterChange(Rule(dbGlobal, dbPins[k]), s, now)
    BY <1>0, <1>2 DEF SetGlobalTx, TypeOK, EditSet, IInv, EditProgress, InMemoryAsStored
  <2>2. CASE dbOwn[k] # Unset
    <3>1. StoredRule(k)' = StoredRule(k)
      BY <2>1, <2>2 DEF StoredRule, EffectiveSchedule
    <3> QED
      BY <1>0, <2>1, <3>1
  <2>3. CASE dbOwn[k] = Unset
    <3>1. /\ StoredRule(k) = Rule(dbGlobal, dbPins[k])
          /\ StoredRule(k)' = Rule(s, PinsAfterChange(StoredRule(k), s, now))
      BY <2>1, <2>3 DEF StoredRule, EffectiveSchedule
    <3> QED
      BY <1>0, <2>1, <3>1, ChangeKeepsStart DEF TypeOK
  <2> QED
    BY <2>2, <2>3
<1>3. CASE ClearTx(a)
  <2>1. /\ dbGlobal \in AnySchedule /\ now' = now
        /\ edit[a].global = dbGlobal /\ edit[a].at = now
        /\ dbOwn'[k] = Unset /\ dbGlobal' = dbGlobal
        /\ dbPins'[k] = IF dbOwn[k] = Unset THEN dbPins[k]
                        ELSE PinsAfterChange(Rule(dbOwn[k], dbPins[k]), dbGlobal, now)
    BY <1>0, <1>3 DEF ClearTx, TypeOK, IInv, EditProgress, InMemoryAsStored
  <2>2. CASE dbOwn[k] = Unset
    <3>1. StoredRule(k)' = StoredRule(k)
      BY <2>1, <2>2 DEF StoredRule, EffectiveSchedule
    <3> QED
      BY <1>0, <2>1, <3>1
  <2>3. CASE dbOwn[k] # Unset
    <3>1. /\ StoredRule(k) = Rule(dbOwn[k], dbPins[k])
          /\ StoredRule(k)' = Rule(dbGlobal, PinsAfterChange(StoredRule(k), dbGlobal, now))
      BY <2>1, <2>3 DEF StoredRule, EffectiveSchedule
    <3> QED
      BY <1>0, <2>1, <3>1, ChangeKeepsStart DEF TypeOK
  <2> QED
    BY <2>2, <2>3
<1>4. ASSUME NEW j \in Keys, NEW own \in AnySchedule, UpdateKeyTx(a, j, own)
      PROVE  /\ now' = now
             /\ SoundRule(StoredRule(k)', now)
             /\ SameStart(StoredRule(k)', StoredRule(k), now)
  <2>1. /\ memGlobal = dbGlobal /\ now' = now /\ dbGlobal' = dbGlobal
        /\ dbOwn' = [dbOwn EXCEPT ![j] = own]
        /\ dbPins' = [dbPins EXCEPT ![j] =
             PinsAfterChange(StoredRule(j), EffectiveSchedule(own, dbGlobal), now)]
    BY <1>4 DEF UpdateKeyTx, IInv, EditProgress, InMemoryAsStored, LoadedRule, StoredRule
  <2>2. CASE k # j
    <3>1. StoredRule(k)' = StoredRule(k)
      BY <1>0, <2>1, <2>2 DEF StoredRule, TypeOK
    <3> QED
      BY <1>0, <2>1, <3>1
  <2>3. CASE k = j
    <3> DEFINE s == EffectiveSchedule(own, dbGlobal)
    <3>1. s \in AnySchedule
      BY <1>0 DEF EffectiveSchedule, TypeOK
    <3>2. StoredRule(k)' = Rule(s, PinsAfterChange(StoredRule(k), s, now))
      BY <1>0, <2>1, <2>3 DEF StoredRule, TypeOK
    <3> HIDE DEF s
    <3> QED
      BY <1>0, <2>1, <3>1, <3>2, ChangeKeepsStart DEF TypeOK
  <2> QED
    BY <2>2, <2>3
<1> QED
  BY <1>1, <1>2, <1>3, <1>4
     DEF AdminStep, SetGlobalBegin, PublishGlobal, ClearBegin, OtherEdit, LoadLocalCache, db

(* The same of the cache: only a load changes it, and by then the cached   *)
(* global schedule is the stored one.                                      *)
LEMMA CacheKept ==
  ASSUME IInv, NEW a \in Admins, AdminStep(a), NEW k \in Keys
  PROVE  /\ SoundRule(cache'[k], now)
         /\ SameStart(cache'[k], cache[k], now)
<1>0. /\ SoundRule(cache[k], now) /\ SoundRule(StoredRule(k), now)
      /\ SameStart(cache[k], StoredRule(k), now)
  BY DEF IInv, RulesSound, StartsAgree
<1>1. CASE UNCHANGED cache
  BY <1>0, <1>1 DEF SameStart
<1>2. CASE LoadLocalCache(a)
  <2>1. cache'[k] = StoredRule(k)
    BY <1>2 DEF LoadLocalCache, LoadedRule, StoredRule, IInv, EditProgress
  <2> QED
    BY <1>0, <2>1 DEF SameStart
<1> QED
  BY <1>1, <1>2
     DEF AdminStep, SetGlobalBegin, SetGlobalTx, PublishGlobal, ClearBegin, ClearTx,
         UpdateKeyTx, OtherEdit, mem

(* What a step of an edit knows survives it: nobody else edits.            *)
LEMMA ProgressStep ==
  ASSUME SerialEdits, IInv, NEW a \in Admins, AdminStep(a)
  PROVE  EditProgress'
<1>0. /\ TypeOK /\ Admins = {a}
      /\ edit \in [Admins -> EditSet]
  BY DEF SerialEdits, IInv, TypeOK
<1> SUFFICES
      /\ edit'[a].step = "idle" => InMemoryAsStored'
      /\ edit'[a].step \in {"setGlobal", "clear"} =>
           InMemoryAsStored' /\ edit'[a].global = memGlobal' /\ edit'[a].at = now'
      /\ edit'[a].step = "publish" => dbGlobal' = edit'[a].schedule
      /\ edit'[a].step = "load" => memGlobal' = dbGlobal'
  BY <1>0 DEF EditProgress
<1>1. /\ edit[a].step = "idle" => InMemoryAsStored
      /\ edit[a].step = "publish" => dbGlobal = edit[a].schedule
      /\ edit[a].step = "load" => memGlobal = dbGlobal
      /\ edit[a].step = "clear" => memGlobal = dbGlobal
  BY DEF IInv, EditProgress, InMemoryAsStored
<1>2. ASSUME NEW s \in AnySchedule, SetGlobalBegin(a, s)
      PROVE  /\ InMemoryAsStored'
             /\ edit'[a].step = "setGlobal"
             /\ edit'[a].global = memGlobal' /\ edit'[a].at = now'
  BY <1>0, <1>1, <1>2 DEF SetGlobalBegin, InMemoryAsStored, StoredRule, db, mem
<1>3. ASSUME ClearBegin(a)
      PROVE  /\ InMemoryAsStored'
             /\ edit'[a].step = "clear"
             /\ edit'[a].global = memGlobal' /\ edit'[a].at = now'
  BY <1>0, <1>1, <1>3 DEF ClearBegin, InMemoryAsStored, StoredRule, db, mem
<1>4. ASSUME SetGlobalTx(a)
      PROVE  edit'[a].step = "publish" /\ dbGlobal' = edit'[a].schedule
  BY <1>0, <1>4 DEF SetGlobalTx, EditSet
<1>5. ASSUME PublishGlobal(a)
      PROVE  edit'[a].step = "load" /\ memGlobal' = dbGlobal'
  BY <1>0, <1>1, <1>5 DEF PublishGlobal, EditSet, db
<1>6. ASSUME ClearTx(a)
      PROVE  edit'[a].step = "load" /\ memGlobal' = dbGlobal'
  BY <1>0, <1>1, <1>6 DEF ClearTx, EditSet, mem
<1>7. ASSUME NEW k \in Keys, NEW own \in AnySchedule, UpdateKeyTx(a, k, own)
      PROVE  edit'[a].step = "load" /\ memGlobal' = dbGlobal'
  BY <1>0, <1>1, <1>7 DEF UpdateKeyTx, InMemoryAsStored, EditSet, mem
<1>8. ASSUME OtherEdit(a)
      PROVE  edit'[a].step = "load" /\ memGlobal' = dbGlobal'
  BY <1>0, <1>1, <1>8 DEF OtherEdit, InMemoryAsStored, EditSet, db, mem
<1>9. ASSUME LoadLocalCache(a)
      PROVE  edit'[a].step = "idle" /\ InMemoryAsStored'
  <2>1. /\ edit'[a] = Idle /\ memGlobal' = dbGlobal'
        /\ \A k \in Keys : cache'[k] = LoadedRule(k, memGlobal) /\ StoredRule(k)' = StoredRule(k)
    BY <1>0, <1>1, <1>9 DEF LoadLocalCache, StoredRule, db
  <2> QED
    BY <1>1, <1>9, <2>1 DEF Idle, InMemoryAsStored, LoadedRule, StoredRule, LoadLocalCache
<1> HIDE DEF InMemoryAsStored
<1>10. CASE \E s \in AnySchedule : SetGlobalBegin(a, s)
  BY <1>2, <1>10
<1>11. CASE \E k \in Keys, own \in AnySchedule : UpdateKeyTx(a, k, own)
  BY <1>7, <1>11
<1>12. CASE ClearBegin(a)
  BY <1>3, <1>12
<1>13. CASE SetGlobalTx(a) \/ PublishGlobal(a) \/ ClearTx(a) \/ OtherEdit(a) \/ LoadLocalCache(a)
  BY <1>4, <1>5, <1>6, <1>8, <1>9, <1>13
<1> QED
  BY <1>10, <1>11, <1>12, <1>13 DEF AdminStep

(* The inductive invariant holds after NewManager: there are no pins, and  *)
(* the cache was just loaded.                                              *)
LEMMA InitInvariant == Init => IInv
<1> SUFFICES ASSUME Init PROVE IInv
  OBVIOUS
<1>1. TypeOK
  BY InitType
<1>2. /\ memGlobal = dbGlobal
      /\ \A k \in Keys : cache[k] = StoredRule(k) /\ StoredRule(k).pins = NoPins
  BY DEF Init, StoredRule, Rule
<1>3. \A k \in Keys : SoundRule(StoredRule(k), now)
  BY <1>1, <1>2, InstantsAssumption
     DEF SoundRule, EndsOnSchedule, HasBegun, NoPins, NoPin, Covers, TypeOK
<1>4. \A a \in Admins : edit[a].step = "idle"
  BY DEF Init, Idle
<1> QED
  BY <1>1, <1>2, <1>3, <1>4
     DEF IInv, RulesSound, StartsAgree, SameStart, EditProgress, InMemoryAsStored

(* What one step of the system does to a key's windows.                    *)
KeepsUsage ==
  now' = now => \A k \in Keys : /\ SameStart(cache'[k], cache[k], now)
                                /\ SameStart(StoredRule(k)', StoredRule(k), now)

Tiles ==
  now' # now =>
    \A k \in Keys, p \in Periods :
      \/ CalcQuotaWindow(p, cache'[k], now').start = CalcQuotaWindow(p, cache[k], now).start
      \/ /\ CalcQuotaWindow(p, cache'[k], now').start = CalcQuotaWindow(p, cache[k], now).until
         /\ now' = CalcQuotaWindow(p, cache[k], now).until

(* Every step keeps the inductive invariant, and does to the windows what  *)
(* the action properties say it may.                                       *)
LEMMA StepInvariant ==
  ASSUME SerialEdits, IInv, [Next]_vars
  PROVE  IInv' /\ KeepsUsage /\ Tiles
<1>0. /\ TypeOK /\ TypeOK' /\ now \in Int
      /\ \A k \in Keys : /\ SoundRule(StoredRule(k), now) /\ SoundRule(cache[k], now)
                          /\ SameStart(cache[k], StoredRule(k), now)
                          /\ cache[k] \in RuleSet /\ StoredRule(k) \in RuleSet
  BY StepType, StoredRuleType, InstantsAssumption DEF IInv, RulesSound, StartsAgree, TypeOK
<1>1. CASE Tick
  <2>1. /\ now' = now + 1 /\ now + 1 \in Instants /\ now \in Instants
        /\ cache' = cache /\ memGlobal' = memGlobal /\ dbGlobal' = dbGlobal /\ edit' = edit
        /\ \A k \in Keys : StoredRule(k)' = StoredRule(k)
        /\ \A a \in Admins : edit[a].step = "idle"
    BY <1>0, <1>1 DEF Tick, StoredRule, db, mem, SerialEdits, TypeOK
  <2>2. InMemoryAsStored
    BY <2>1 DEF SerialEdits, IInv, EditProgress
  <2>3. \A k \in Keys : SoundRule(cache[k], now + 1) /\ SoundRule(StoredRule(k), now + 1)
    BY <1>0, <2>1, ClockTilesWindows
  <2>4. Tiles
    BY <1>0, <2>1, ClockTilesWindows DEF Tiles
  <2>5. RulesSound'
    BY <2>1, <2>3 DEF RulesSound
  <2>6. StartsAgree'
    BY <2>1, <2>2 DEF StartsAgree, SameStart, InMemoryAsStored
  <2>7. EditProgress'
    BY <2>1, <2>2 DEF EditProgress, InMemoryAsStored
  <2> QED
    BY <1>0, <2>1, <2>4, <2>5, <2>6, <2>7 DEF IInv, KeepsUsage
<1>2. CASE Restart
  <2>1. /\ now' = now /\ memGlobal' = dbGlobal /\ dbGlobal' = dbGlobal
        /\ \A k \in Keys : cache'[k] = StoredRule(k) /\ StoredRule(k)' = StoredRule(k)
        /\ \A a \in Admins : edit'[a].step = "idle"
    BY <1>2 DEF Restart, StoredRule, db, Idle
  <2>2. RulesSound' /\ StartsAgree' /\ EditProgress'
    BY <1>0, <2>1 DEF RulesSound, StartsAgree, SameStart, EditProgress, InMemoryAsStored
  <2>3. KeepsUsage /\ Tiles
    BY <1>0, <2>1 DEF KeepsUsage, Tiles, SameStart
  <2> QED
    BY <1>0, <2>2, <2>3 DEF IInv
<1>3. ASSUME NEW a \in Admins, AdminStep(a) PROVE IInv' /\ KeepsUsage /\ Tiles
  <2>1. \A k \in Keys : /\ now' = now
                        /\ SoundRule(StoredRule(k)', now)
                        /\ SameStart(StoredRule(k)', StoredRule(k), now)
                        /\ SoundRule(cache'[k], now)
                        /\ SameStart(cache'[k], cache[k], now)
    BY <1>3, StoredKept, CacheKept
  <2>2. now' = now
    BY <1>3 DEF AdminStep, SetGlobalBegin, SetGlobalTx, PublishGlobal, ClearBegin, ClearTx,
                UpdateKeyTx, OtherEdit, LoadLocalCache
  <2>3. RulesSound'
    BY <2>1, <2>2 DEF RulesSound
  <2>4. StartsAgree'
    BY <1>0, <2>1, <2>2 DEF StartsAgree, SameStart
  <2>5. EditProgress'
    BY <1>3, ProgressStep
  <2>6. KeepsUsage /\ Tiles
    BY <2>1, <2>2 DEF KeepsUsage, Tiles
  <2> QED
    BY <1>0, <2>3, <2>4, <2>5, <2>6 DEF IInv
<1>4. CASE UNCHANGED vars
  <2>1. /\ now' = now /\ cache' = cache /\ memGlobal' = memGlobal /\ dbGlobal' = dbGlobal
        /\ edit' = edit /\ \A k \in Keys : StoredRule(k)' = StoredRule(k)
    BY <1>4 DEF vars, db, mem, StoredRule
  <2>2. RulesSound' /\ StartsAgree' /\ EditProgress'
    BY <2>1 DEF IInv, RulesSound, StartsAgree, SameStart, EditProgress, InMemoryAsStored
  <2> QED
    BY <1>0, <2>1, <2>2 DEF IInv, KeepsUsage, Tiles, SameStart
<1> QED
  BY <1>1, <1>2, <1>3, <1>4 DEF Next

(* The inductive invariant holds in every reachable state.                 *)
LEMMA InvariantHolds == ASSUME SerialEdits PROVE Spec => []IInv
<1>1. IInv /\ [Next]_vars => IInv'
  BY StepInvariant
<1> QED
  BY InitInvariant, <1>1, PTL DEF Spec

-----------------------------------------------------------------------------
(* ADR 0010 #5 for every calendar and every number of keys: with edits one *)
(* at a time, no edit, refresh or restart moves the start of a window.     *)
THEOREM UsageIsKept == ASSUME SerialEdits PROVE Spec => UsageKept
<1>1. IInv /\ [Next]_vars =>
        [ now' = now =>
            \A k \in Keys, p \in Periods :
              /\ Enforced(k, p)'.start = Enforced(k, p).start
              /\ Stored(k, p)'.start = Stored(k, p).start ]_vars
  <2> SUFFICES ASSUME IInv, [Next]_vars, now' = now, NEW k \in Keys, NEW p \in Periods
               PROVE  /\ Enforced(k, p)'.start = Enforced(k, p).start
                      /\ Stored(k, p)'.start = Stored(k, p).start
    OBVIOUS
  <2>1. SameStart(cache'[k], cache[k], now) /\ SameStart(StoredRule(k)', StoredRule(k), now)
    BY StepInvariant DEF KeepsUsage
  <2> QED
    BY <2>1 DEF SameStart, Enforced, Stored
<1> QED
  BY <1>1, InvariantHolds, PTL DEF Spec, UsageKept

(* ADR 0010 #6 for every calendar that tiles: the windows a key is         *)
(* enforced in leave no gap and do not overlap, edits or not.              *)
THEOREM EnforcedWindowsTile == ASSUME SerialEdits PROVE Spec => WindowsTile
<1>1. IInv /\ [Next]_vars =>
        [ now' # now =>
            \A k \in Keys, p \in Periods :
              \/ Enforced(k, p)'.start = Enforced(k, p).start
              \/ /\ Enforced(k, p)'.start = Enforced(k, p).until
                 /\ now' = Enforced(k, p).until ]_vars
  BY StepInvariant DEF Tiles, Enforced
<1> QED
  BY <1>1, InvariantHolds, PTL DEF Spec, WindowsTile

(* A Transitional Window in force leads over to the schedule in effect.    *)
THEOREM PinsLeadOver == ASSUME SerialEdits PROVE Spec => []PinsEndOnSchedule
<1>1. IInv => PinsEndOnSchedule
  BY DEF IInv, RulesSound, SoundRule, PinsEndOnSchedule
<1> QED
  BY <1>1, InvariantHolds, PTL

(* Between edits the cache enforces what the database holds.               *)
THEOREM CacheIsCoherent == ASSUME SerialEdits PROVE Spec => []CacheCoherent
<1>1. IInv => CacheCoherent
  BY DEF SerialEdits, IInv, EditProgress, InMemoryAsStored, CacheCoherent
<1> QED
  BY <1>1, InvariantHolds, PTL
=============================================================================
