--------------------------- MODULE PluginsProofs ----------------------------
(***************************************************************************)
(* Proofs about MCPlugins: the plugins that requests are served by         *)
(* (PluginRegistry) and the prices that they are charged (PriceList),      *)
(* however many administrators edit at once.                               *)
(***************************************************************************)
EXTENDS CatalogProofs, MCPlugins

-----------------------------------------------------------------------------
(* PluginRegistry, for any number of requests that edit at once.           *)

LEMMA ConstantTypes ==
  /\ NoRow \in RowSet /\ NoBindings \in BindingSet /\ GlobalBindings \in BindingSet
  /\ NoEdit \in EditSet /\ Rows \in SUBSET RowSet
<1>1. NoRow \in RowSet /\ NoBindings \in BindingSet /\ Rows \in SUBSET RowSet
  BY DEF NoRow, RowSet, NoBindings, BindingSet, Scopes, States, Rows, Normal
<1>2. GlobalBindings \in BindingSet
  BY <1>1 DEF GlobalBindings, BindingSet, Scopes, States
<1>3. NoEdit \in EditSet
  BY <1>1 DEF NoEdit, EditSet
<1> QED
  BY <1>1, <1>2, <1>3

LEMMA SeededType ==
  ASSUME NEW k \in {"guard", "builtin", "http"}, NEW r \in RowSet
  PROVE  Seeded(k, r) \in RowSet
  BY DEF Seeded, RowSet

LEMMA NormalType == \A r \in RowSet : Normal(r) \in RowSet
  BY DEF Normal, RowSet

LEMMA FilledType ==
  ASSUME NEW form \in Forms, NEW r \in RowSet
  PROVE  Filled(form, r) \in RowSet
  BY DEF Filled, Forms, RowSet

(* What an edit may become, one field at a time.                           *)
LEMMA EditTypes ==
  ASSUME NEW x \in EditSet, NEW w \in RowSet, NEW b \in BindingSet, NEW a \in BOOLEAN
  PROVE  /\ [x EXCEPT !.step = "bindings", !.copy = w] \in EditSet
         /\ [x EXCEPT !.step = "swap", !.copied = b] \in EditSet
         /\ [x EXCEPT !.step = "write", !.written = w] \in EditSet
         /\ [NoEdit EXCEPT !.step = "update", !.admin = a, !.written = w] \in EditSet
         /\ [NoEdit EXCEPT !.step = "reload"] \in EditSet
  BY ConstantTypes DEF EditSet, NoEdit

LEMMA BeginTypes ==
  ASSUME RegistryTypeOK, NEW e \in Editors, Begin(e, "reload")
  PROVE  edit' \in [Editors -> EditSet] /\ editsOverlapped' \in BOOLEAN
<1>1. [NoEdit EXCEPT !.step = "reload"] \in EditSet
  BY ConstantTypes DEF EditSet, NoEdit
<1> QED
  BY <1>1 DEF RegistryTypeOK, Begin, Under

-----------------------------------------------------------------------------
LEMMA InitTypes == RegistryInit => RegistryTypeOK
  BY ConstantTypes, SeededType DEF RegistryInit, RegistryTypeOK

LEMMA NextTypes == RegistryTypeOK /\ [RegistryNext]_pluginVars => RegistryTypeOK'
<1> SUFFICES ASSUME RegistryTypeOK, [RegistryNext]_pluginVars
             PROVE  RegistryTypeOK'
  OBVIOUS
<1> USE DEF RegistryTypeOK, pluginRows, pluginMemory
<1>1. ASSUME NEW e \in Editors, DeletePlugin(e)
      PROVE  RegistryTypeOK'
  <2>1. [NoRow EXCEPT !.life = "gone"] \in RowSet
    BY DEF NoRow, RowSet
  <2> QED
    BY <1>1, <2>1, BeginTypes, ConstantTypes DEF DeletePlugin
<1>2. ASSUME NEW e \in Editors, OtherEdit(e)
      PROVE  RegistryTypeOK'
  BY <1>2, BeginTypes DEF OtherEdit
<1>3. ASSUME NEW e \in Editors, NEW r \in Rows, CreateHTTPPlugin(e, r)
      PROVE  RegistryTypeOK'
  <2>1. binding' \in BindingSet
    BY <1>3 DEF CreateHTTPPlugin, BindingSet, Scopes, States
  <2> QED
    BY <1>3, <2>1, BeginTypes, ConstantTypes DEF CreateHTTPPlugin
<1>4. ASSUME NEW e \in Editors, NEW admin \in BOOLEAN, NEW form \in Forms, UpdateBegin(e, admin, form)
      PROVE  RegistryTypeOK'
  <2>1. [NoEdit EXCEPT !.step = "update", !.admin = admin, !.written = Filled(form, memRow)] \in EditSet
    BY FilledType, EditTypes, ConstantTypes
  <2> QED
    BY <1>4, <2>1 DEF UpdateBegin, Under
<1>5. ASSUME NEW e \in Editors, NEW s \in Scopes, NEW st \in States, UpsertBinding(e, s, st)
      PROVE  RegistryTypeOK'
  <2>1. binding' \in BindingSet
    BY <1>5 DEF UpsertBinding, BindingSet, States
  <2> QED
    BY <1>5, <2>1, BeginTypes DEF UpsertBinding
<1>6. ASSUME NEW e \in Editors, UpdateMerge(e)
      PROVE  RegistryTypeOK'
  <2> DEFINE w == Merged(edit[e].written)
  <2>1. w \in RowSet
    <3>1. edit[e].written \in RowSet /\ memRow \in RowSet
      BY DEF EditSet
    <3> HIDE DEF RegistryTypeOK
    <3>2. [edit[e].written EXCEPT !.bypassable = @ \/ (kind # "http" /\ memRow.bypassable)] \in RowSet
      BY <3>1 DEF RowSet
    <3> QED
      BY <3>2, NormalType DEF Merged
  <2>2. [edit[e] EXCEPT !.step = "write", !.written = w] \in EditSet
    BY <2>1, EditTypes, ConstantTypes
  <2>3. CASE There(memRow)
    <3>1. edit' = [edit EXCEPT ![e] = [edit[e] EXCEPT !.step = "write", !.written = w]]
      BY <1>6, <2>3 DEF UpdateMerge
    <3> QED
      BY <1>6, <2>2, <3>1 DEF UpdateMerge
  <2>4. CASE ~ There(memRow)
    BY <1>6, <2>4, ConstantTypes DEF UpdateMerge
  <2> QED
    BY <2>3, <2>4
<1>7. ASSUME NEW e \in Editors, UpdateWrite(e)
      PROVE  RegistryTypeOK'
  <2>1. [NoEdit EXCEPT !.step = "reload"] \in EditSet /\ edit[e].written \in RowSet
    BY ConstantTypes DEF EditSet, NoEdit
  <2> QED
    BY <1>7, <2>1 DEF UpdateWrite
<1>8. ASSUME NEW e \in Editors, ReadPluginRows(e)
      PROVE  RegistryTypeOK'
  <2>1. [edit[e] EXCEPT !.step = "bindings", !.copy = row] \in EditSet
    BY EditTypes, ConstantTypes
  <2> QED
    BY <1>8, <2>1 DEF ReadPluginRows
<1>9. ASSUME NEW e \in Editors, ReadBindingRows(e)
      PROVE  RegistryTypeOK'
  <2>1. [edit[e] EXCEPT !.step = "swap", !.copied = binding] \in EditSet
    BY EditTypes, ConstantTypes
  <2> QED
    BY <1>9, <2>1 DEF ReadBindingRows
<1>10. ASSUME NEW e \in Editors, SwapCopies(e)
       PROVE  RegistryTypeOK'
  <2>1. edit[e].copy \in RowSet /\ edit[e].copied \in BindingSet
    BY DEF EditSet
  <2> QED
    BY <1>10, <2>1, ConstantTypes DEF SwapCopies
<1>11. ASSUME NEW s \in scopes, DeleteScope(s)
       PROVE  RegistryTypeOK'
  <2>1. binding' \in BindingSet
    BY <1>11 DEF DeleteScope, BindingSet
  <2> QED
    BY <1>11, <2>1 DEF DeleteScope
<1>12. CASE RegistryRestart
  BY <1>12, SeededType, ConstantTypes DEF RegistryRestart
<1>13. CASE UNCHANGED pluginVars
  BY <1>13 DEF pluginVars
<1> QED
  BY <1>1, <1>2, <1>3, <1>4, <1>5, <1>6, <1>7, <1>8, <1>9, <1>10, <1>11, <1>12, <1>13 DEF RegistryNext

(* Rows, copies and edits under way keep their types (plugins.Manager).    *)
THEOREM RegistryTypesHold == RegistrySpec => []RegistryTypeOK
  BY InitTypes, NextTypes, PTL DEF RegistrySpec

-----------------------------------------------------------------------------
(* A plugin that protects is not bypassable, in the rows, in the copy, in  *)
(* what an edit is about to write and in what a reload has read.           *)
Guarded(r) == r.policy = "closed" => ~ r.bypassable

Protects ==
  /\ Guarded(row) /\ Guarded(memRow)
  /\ \A e \in Editors : /\ Guarded(edit[e].copy)
                        /\ edit[e].step = "write" => Guarded(edit[e].written)

GInv == RegistryTypeOK /\ Protects

LEMMA NormalGuarded == \A r \in RowSet : Guarded(Normal(r))
  BY DEF Guarded, Normal, RowSet

LEMMA SeededGuarded ==
  ASSUME NEW k \in {"guard", "builtin", "http"}, NEW r \in RowSet, Guarded(r)
  PROVE  Guarded(Seeded(k, r))
  BY DEF Guarded, Seeded

LEMMA BlankGuarded ==
  /\ Guarded(NoRow) /\ Guarded(NoEdit.copy) /\ NoEdit.step = "idle"
  /\ \A r \in Rows : Guarded(r)
<1>1. \A r \in Rows : Guarded(r)
  <2>1. \A r \in [life : {"there"}, policy : {"open", "closed"}, bypassable : BOOLEAN] : r \in RowSet
    BY DEF RowSet
  <2> QED
    BY <2>1, NormalGuarded DEF Rows
<1> QED
  BY <1>1 DEF Guarded, NoRow, NoEdit

LEMMA BeginGuarded ==
  ASSUME GInv, NEW e \in Editors, Begin(e, "reload")
  PROVE  \A d \in Editors : /\ Guarded(edit'[d].copy)
                            /\ edit'[d].step = "write" => Guarded(edit'[d].written)
<1>1. edit'[e].copy = NoEdit.copy /\ edit'[e].step = "reload"
  BY DEF Begin, GInv, RegistryTypeOK, NoEdit
<1>2. \A d \in Editors \ {e} : edit'[d] = edit[d]
  BY DEF Begin, GInv, RegistryTypeOK
<1> QED
  BY <1>1, <1>2, BlankGuarded DEF GInv, Protects

LEMMA InitGuarded == RegistryInit => GInv
<1> SUFFICES ASSUME RegistryInit
             PROVE  Protects
  BY InitTypes DEF GInv
<1>1. Guarded(row)
  BY SeededGuarded, BlankGuarded, ConstantTypes DEF RegistryInit
<1> QED
  BY <1>1, BlankGuarded DEF RegistryInit, Protects

LEMMA NextGuarded == GInv /\ [RegistryNext]_pluginVars => GInv'
<1> SUFFICES ASSUME GInv, [RegistryNext]_pluginVars
             PROVE  Protects'
  BY NextTypes DEF GInv
<1> USE DEF pluginRows, pluginMemory
<1>1. ASSUME NEW e \in Editors, DeletePlugin(e)
      PROVE  Protects'
  <2>1. Guarded(row')
    BY <1>1 DEF DeletePlugin, Guarded, NoRow
  <2> QED
    BY <1>1, <2>1, BeginGuarded DEF DeletePlugin, GInv, Protects
<1>2. ASSUME NEW e \in Editors, OtherEdit(e)
      PROVE  Protects'
  BY <1>2, BeginGuarded DEF OtherEdit, GInv, Protects
<1>3. ASSUME NEW e \in Editors, NEW r \in Rows, CreateHTTPPlugin(e, r)
      PROVE  Protects'
  BY <1>3, BeginGuarded, BlankGuarded DEF CreateHTTPPlugin, GInv, Protects
<1>4. ASSUME NEW e \in Editors, NEW admin \in BOOLEAN, NEW form \in Forms, UpdateBegin(e, admin, form)
      PROVE  Protects'
  <2>1. edit'[e].copy = NoEdit.copy /\ edit'[e].step = "update"
    BY <1>4 DEF UpdateBegin, GInv, RegistryTypeOK, NoEdit
  <2>2. \A d \in Editors \ {e} : edit'[d] = edit[d]
    BY <1>4 DEF UpdateBegin, GInv, RegistryTypeOK
  <2> QED
    BY <1>4, <2>1, <2>2, BlankGuarded DEF UpdateBegin, GInv, Protects
<1>5. ASSUME NEW e \in Editors, NEW s \in Scopes, NEW st \in States, UpsertBinding(e, s, st)
      PROVE  Protects'
  BY <1>5, BeginGuarded DEF UpsertBinding, GInv, Protects
<1>6. ASSUME NEW e \in Editors, UpdateMerge(e)
      PROVE  Protects'
  <2>1. edit'[e].copy \in {edit[e].copy, NoEdit.copy}
    BY <1>6 DEF UpdateMerge, GInv, RegistryTypeOK, EditSet
  <2>2. edit'[e].step = "write" => edit'[e].written = Merged(edit[e].written)
    BY <1>6 DEF UpdateMerge, GInv, RegistryTypeOK, EditSet, NoEdit
  <2>3. Guarded(Merged(edit[e].written))
    <3>1. edit[e].written \in RowSet
      BY DEF GInv, RegistryTypeOK, EditSet
    <3>2. [edit[e].written EXCEPT !.bypassable = @ \/ (kind # "http" /\ memRow.bypassable)] \in RowSet
      <4>1. memRow.bypassable \in BOOLEAN
        BY DEF GInv, RegistryTypeOK, RowSet
      <4> QED
        BY <3>1, <4>1 DEF RowSet
    <3> QED
      BY <3>2, NormalGuarded DEF Merged
  <2>4. \A d \in Editors \ {e} : edit'[d] = edit[d]
    BY <1>6 DEF UpdateMerge, GInv, RegistryTypeOK
  <2> QED
    BY <1>6, <2>1, <2>2, <2>3, <2>4, BlankGuarded DEF UpdateMerge, GInv, Protects
<1>7. ASSUME NEW e \in Editors, UpdateWrite(e)
      PROVE  Protects'
  <2>1. edit'[e].copy = NoEdit.copy /\ edit'[e].step = "reload"
    BY <1>7 DEF UpdateWrite, GInv, RegistryTypeOK, NoEdit
  <2>2. \A d \in Editors \ {e} : edit'[d] = edit[d]
    BY <1>7 DEF UpdateWrite, GInv, RegistryTypeOK
  <2>3. Guarded(row')
    BY <1>7 DEF UpdateWrite, GInv, Protects
  <2> QED
    BY <1>7, <2>1, <2>2, <2>3, BlankGuarded DEF UpdateWrite, GInv, Protects
<1>8. ASSUME NEW e \in Editors, ReadPluginRows(e)
      PROVE  Protects'
  <2>1. edit'[e].copy = row /\ edit'[e].step = "bindings"
    BY <1>8 DEF ReadPluginRows, GInv, RegistryTypeOK, EditSet
  <2>2. \A d \in Editors \ {e} : edit'[d] = edit[d]
    BY <1>8 DEF ReadPluginRows, GInv, RegistryTypeOK
  <2> QED
    BY <1>8, <2>1, <2>2 DEF ReadPluginRows, GInv, Protects
<1>9. ASSUME NEW e \in Editors, ReadBindingRows(e)
      PROVE  Protects'
  <2>1. edit'[e].copy = edit[e].copy /\ edit'[e].step = "swap"
    BY <1>9 DEF ReadBindingRows, GInv, RegistryTypeOK, EditSet
  <2>2. \A d \in Editors \ {e} : edit'[d] = edit[d]
    BY <1>9 DEF ReadBindingRows, GInv, RegistryTypeOK
  <2> QED
    BY <1>9, <2>1, <2>2 DEF ReadBindingRows, GInv, Protects
<1>10. ASSUME NEW e \in Editors, SwapCopies(e)
       PROVE  Protects'
  <2>1. edit'[e] = NoEdit /\ \A d \in Editors \ {e} : edit'[d] = edit[d]
    BY <1>10 DEF SwapCopies, GInv, RegistryTypeOK
  <2> QED
    BY <1>10, <2>1, BlankGuarded DEF SwapCopies, GInv, Protects
<1>11. ASSUME NEW s \in scopes, DeleteScope(s)
       PROVE  Protects'
  BY <1>11 DEF DeleteScope, GInv, Protects
<1>12. CASE RegistryRestart
  <2>1. Guarded(row')
    BY <1>12, SeededGuarded DEF RegistryRestart, GInv, Protects, RegistryTypeOK
  <2>2. \A e \in Editors : edit'[e] = NoEdit
    BY <1>12 DEF RegistryRestart
  <2> QED
    BY <1>12, <2>1, <2>2, BlankGuarded DEF RegistryRestart, Protects
<1>13. CASE UNCHANGED pluginVars
  BY <1>13 DEF pluginVars, GInv, Protects
<1> QED
  BY <1>1, <1>2, <1>3, <1>4, <1>5, <1>6, <1>7, <1>8, <1>9, <1>10, <1>11, <1>12, <1>13 DEF RegistryNext

(* "Plugins that protect (fail-closed) are never bypassable", however many *)
(* administrators merge their forms with copies that are out of date       *)
(* (Manager.UpdatePlugin).                                                 *)
THEOREM ProtectorsAreNeverBypassable == RegistrySpec => []ClosedNeverBypassable
<1>1. GInv => ClosedNeverBypassable
  BY DEF GInv, Protects, Guarded, ClosedNeverBypassable
<1> QED
  BY <1>1, InitGuarded, NextGuarded, PTL DEF RegistrySpec

-----------------------------------------------------------------------------
(* As long as edits do not overlap: one at a time is under way; outside a  *)
(* reload the copy is what the rows say, and inside one so is what it has  *)
(* read; and an operator's edit carries the policy that is stored.         *)
Same(b) == \A s \in scopes \cup {"global"} : b[s] = binding[s]

Reloading(x) == x.step \in {"reload", "bindings", "swap"}

Alone == \A d, e \in Editors : Under(d) /\ Under(e) => d = e

InStep(x) ==
  /\ x.step \in {"bindings", "swap"} => x.copy = row
  /\ x.step = "swap" => Same(x.copied)
  /\ x.step \in {"update", "write"} /\ ~ x.admin => x.written.policy = row.policy

Orderly ==
  ~ editsOverlapped =>
    /\ Alone
    /\ (\A e \in Editors : ~ Reloading(edit[e])) => memRow = row /\ Same(memBinding)
    /\ \A e \in Editors : InStep(edit[e])

OInv == RegistryTypeOK /\ Orderly

LEMMA BlankEdit == ~ Reloading(NoEdit) /\ InStep(NoEdit) /\ NoEdit.step = "idle"
  BY DEF NoEdit, Reloading, InStep

LEMMA InitOrderly == RegistryInit => OInv
<1> SUFFICES ASSUME RegistryInit
             PROVE  Orderly
  BY InitTypes DEF OInv
<1>1. \A e \in Editors : edit[e] = NoEdit
  BY DEF RegistryInit
<1>2. Alone
  BY <1>1, BlankEdit DEF Alone, Under
<1> QED
  BY <1>1, <1>2, BlankEdit DEF RegistryInit, Orderly, Same

(* An edit begins while no other is under way, and reloads whatever it has *)
(* written.                                                                *)
LEMMA BeginsAlone ==
  ASSUME OInv, NEW e \in Editors, ~ Under(e),
         editsOverlapped' = (editsOverlapped \/ \E d \in Editors : Under(d)),
         ~ editsOverlapped'
  PROVE  /\ \A d \in Editors : ~ Under(d) /\ ~ Reloading(edit[d])
         /\ memRow = row /\ Same(memBinding)
<1>1. ~ editsOverlapped /\ \A d \in Editors : ~ Under(d)
  BY DEF OInv, RegistryTypeOK
<1>2. \A d \in Editors : ~ Reloading(edit[d])
  BY <1>1 DEF Under, Reloading
<1> QED
  BY <1>1, <1>2 DEF OInv, Orderly

LEMMA BeginOrderly == ASSUME OInv, NEW e \in Editors, Begin(e, "reload") PROVE Orderly'
<1> SUFFICES ASSUME ~ editsOverlapped'
             PROVE  /\ Alone' /\ \E d \in Editors : Reloading(edit'[d])
                    /\ \A d \in Editors : InStep(edit[d])'
  BY DEF Orderly
<1>1. \A d \in Editors : ~ Under(d)
  BY BeginsAlone DEF Begin
<1>2. edit'[e] = [NoEdit EXCEPT !.step = "reload"] /\ edit'[e].step = "reload"
  BY DEF Begin, OInv, RegistryTypeOK, NoEdit
<1>3. \A d \in Editors \ {e} : edit'[d] = edit[d] /\ edit'[d].step = "idle"
  BY <1>1 DEF Begin, OInv, RegistryTypeOK, Under
<1>4. Alone'
  BY <1>3 DEF Alone, Under
<1>5. Reloading(edit'[e])
  BY <1>2 DEF Reloading
<1>6. \A d \in Editors : InStep(edit[d])'
  BY <1>2, <1>3 DEF InStep
<1> QED
  BY <1>4, <1>5, <1>6

(* A step of the only edit under way; rows and copy are as they were.      *)
LEMMA StepOrderly ==
  ASSUME OInv, NEW e \in Editors, Under(e),
         UNCHANGED <<row, binding, scopes, memRow, memBinding, editsOverlapped>>,
         \A d \in Editors \ {e} : edit'[d] = edit[d],
         ~ editsOverlapped => InStep(edit[e])',
         Reloading(edit[e]) => Reloading(edit'[e])
  PROVE  Orderly'
<1> SUFFICES ASSUME ~ editsOverlapped'
             PROVE  /\ Alone'
                    /\ (\A d \in Editors : ~ Reloading(edit'[d])) =>
                          memRow' = row' /\ Same(memBinding)'
                    /\ \A d \in Editors : InStep(edit[d])'
  BY DEF Orderly
<1>1. ~ editsOverlapped /\ \A d \in Editors \ {e} : ~ Under(d)
  BY DEF OInv, Orderly, Alone
<1>2. Alone'
  BY <1>1 DEF Alone, Under
<1>3. (\A d \in Editors : ~ Reloading(edit'[d])) => memRow' = row' /\ Same(memBinding)'
  <2>1. (\A d \in Editors : ~ Reloading(edit'[d])) => \A d \in Editors : ~ Reloading(edit[d])
    OBVIOUS
  <2> QED
    BY <1>1, <2>1 DEF OInv, Orderly, Same
<1>4. \A d \in Editors : InStep(edit[d])'
  <2>1. \A d \in Editors \ {e} : InStep(edit[d])'
    BY <1>1 DEF OInv, Orderly, InStep, Same
  <2> QED
    BY <1>1, <2>1
<1> QED
  BY <1>2, <1>3, <1>4

LEMMA NextOrderly == OInv /\ [RegistryNext]_pluginVars => OInv'
<1> SUFFICES ASSUME OInv, [RegistryNext]_pluginVars
             PROVE  Orderly'
  BY NextTypes DEF OInv
<1> USE DEF pluginRows, pluginMemory
<1>1. ASSUME NEW e \in Editors, DeletePlugin(e)
      PROVE  Orderly'
  BY <1>1, BeginOrderly DEF DeletePlugin
<1>2. ASSUME NEW e \in Editors, OtherEdit(e)
      PROVE  Orderly'
  BY <1>2, BeginOrderly DEF OtherEdit
<1>3. ASSUME NEW e \in Editors, NEW r \in Rows, CreateHTTPPlugin(e, r)
      PROVE  Orderly'
  BY <1>3, BeginOrderly DEF CreateHTTPPlugin
<1>4. ASSUME NEW e \in Editors, NEW admin \in BOOLEAN, NEW form \in Forms, UpdateBegin(e, admin, form)
      PROVE  Orderly'
  <2> SUFFICES ASSUME ~ editsOverlapped'
               PROVE  /\ Alone' /\ memRow' = row' /\ Same(memBinding)'
                      /\ \A d \in Editors : InStep(edit[d])'
    BY DEF Orderly
  <2>1. /\ \A d \in Editors : ~ Under(d)
        /\ memRow = row /\ Same(memBinding)
    BY <1>4, BeginsAlone DEF UpdateBegin
  <2>2. /\ edit'[e].step = "update" /\ edit'[e].admin = admin
        /\ edit'[e].written = Filled(form, memRow)
    BY <1>4 DEF UpdateBegin, OInv, RegistryTypeOK, NoEdit
  <2>3. \A d \in Editors \ {e} : edit'[d] = edit[d] /\ edit'[d].step = "idle"
    BY <1>4, <2>1 DEF UpdateBegin, OInv, RegistryTypeOK, Under
  <2>4. memRow' = row' /\ Same(memBinding)' /\ row' = row
    BY <1>4, <2>1 DEF UpdateBegin, Same
  <2>5. ~ admin => Filled(form, memRow).policy = row.policy
    BY <1>4, <2>1 DEF UpdateBegin, Filled
  <2>6. Alone'
    BY <2>3 DEF Alone, Under
  <2>7. \A d \in Editors : InStep(edit[d])'
    BY <2>2, <2>3, <2>4, <2>5 DEF InStep
  <2> QED
    BY <2>4, <2>6, <2>7
<1>5. ASSUME NEW e \in Editors, NEW s \in Scopes, NEW st \in States, UpsertBinding(e, s, st)
      PROVE  Orderly'
  BY <1>5, BeginOrderly DEF UpsertBinding
<1>6. ASSUME NEW e \in Editors, UpdateMerge(e)
      PROVE  Orderly'
  <2>1. Under(e) /\ ~ Reloading(edit[e])
    BY <1>6 DEF UpdateMerge, Under, Reloading
  <2>2. \A d \in Editors \ {e} : edit'[d] = edit[d]
    BY <1>6 DEF UpdateMerge, OInv, RegistryTypeOK
  <2>3. ASSUME ~ editsOverlapped
        PROVE  InStep(edit[e])'
    <3>1. edit[e].step = "update" /\ InStep(edit[e])
      BY <1>6, <2>3 DEF UpdateMerge, OInv, Orderly
    <3>2. CASE There(memRow)
      <4>1. /\ edit'[e].step = "write" /\ edit'[e].admin = edit[e].admin
            /\ edit'[e].written = Merged(edit[e].written)
        BY <1>6, <3>2 DEF UpdateMerge, OInv, RegistryTypeOK, EditSet
      <4>2. edit[e].written \in RowSet
        BY DEF OInv, RegistryTypeOK, EditSet
      <4>3. Merged(edit[e].written).policy = edit[e].written.policy
        BY <4>2 DEF Merged, Normal, RowSet
      <4> QED
        BY <1>6, <3>1, <4>1, <4>3 DEF UpdateMerge, InStep
    <3>3. CASE ~ There(memRow)
      <4>1. edit'[e] = NoEdit
        BY <1>6, <3>3 DEF UpdateMerge, OInv, RegistryTypeOK
      <4> QED
        BY <4>1, BlankEdit DEF InStep
    <3> QED
      BY <3>2, <3>3
  <2> QED
    BY <1>6, <2>1, <2>2, <2>3, StepOrderly DEF UpdateMerge
<1>7. ASSUME NEW e \in Editors, UpdateWrite(e)
      PROVE  Orderly'
  <2> SUFFICES ASSUME ~ editsOverlapped'
               PROVE  /\ Alone' /\ Reloading(edit'[e])
                      /\ \A d \in Editors : InStep(edit[d])'
    BY DEF Orderly
  <2>1. Under(e) /\ ~ editsOverlapped
    BY <1>7 DEF UpdateWrite, Under
  <2>2. edit'[e].step = "reload"
    BY <1>7 DEF UpdateWrite, OInv, RegistryTypeOK, NoEdit
  <2>3. \A d \in Editors \ {e} : edit'[d] = edit[d] /\ edit'[d].step = "idle"
    BY <1>7, <2>1 DEF UpdateWrite, OInv, RegistryTypeOK, Orderly, Alone, Under
  <2>4. Alone' /\ Reloading(edit'[e])
    BY <2>2, <2>3 DEF Alone, Under, Reloading
  <2>5. \A d \in Editors : InStep(edit[d])'
    BY <2>2, <2>3 DEF InStep
  <2> QED
    BY <2>4, <2>5
<1>8. ASSUME NEW e \in Editors, ReadPluginRows(e)
      PROVE  Orderly'
  <2>1. Under(e) /\ edit'[e].step = "bindings" /\ edit'[e].copy = row
    BY <1>8 DEF ReadPluginRows, Under, OInv, RegistryTypeOK, EditSet
  <2>2. \A d \in Editors \ {e} : edit'[d] = edit[d]
    BY <1>8 DEF ReadPluginRows, OInv, RegistryTypeOK
  <2>3. InStep(edit[e])' /\ Reloading(edit'[e])
    BY <1>8, <2>1 DEF ReadPluginRows, InStep, Reloading
  <2> QED
    BY <1>8, <2>1, <2>2, <2>3, StepOrderly DEF ReadPluginRows
<1>9. ASSUME NEW e \in Editors, ReadBindingRows(e)
      PROVE  Orderly'
  <2>1. /\ Under(e) /\ edit[e].step = "bindings"
        /\ edit'[e].step = "swap" /\ edit'[e].copy = edit[e].copy /\ edit'[e].copied = binding
    BY <1>9 DEF ReadBindingRows, Under, OInv, RegistryTypeOK, EditSet
  <2>2. \A d \in Editors \ {e} : edit'[d] = edit[d]
    BY <1>9 DEF ReadBindingRows, OInv, RegistryTypeOK
  <2>3. Reloading(edit'[e]) /\ (~ editsOverlapped => edit[e].copy = row)
    BY <2>1 DEF Reloading, OInv, Orderly, InStep
  <2>4. ~ editsOverlapped => InStep(edit[e])'
    BY <1>9, <2>1, <2>3 DEF ReadBindingRows, InStep, Same
  <2> QED
    BY <1>9, <2>1, <2>2, <2>3, <2>4, StepOrderly DEF ReadBindingRows
<1>10. ASSUME NEW e \in Editors, SwapCopies(e)
       PROVE  Orderly'
  <2> SUFFICES ASSUME ~ editsOverlapped'
               PROVE  /\ Alone' /\ memRow' = row' /\ Same(memBinding)'
                      /\ \A d \in Editors : InStep(edit[d])'
    BY DEF Orderly
  <2>1. Under(e) /\ ~ editsOverlapped /\ edit[e].copy = row /\ Same(edit[e].copied)
    BY <1>10 DEF SwapCopies, Under, OInv, Orderly, InStep
  <2>2. edit'[e] = NoEdit
    BY <1>10 DEF SwapCopies, OInv, RegistryTypeOK
  <2>3. \A d \in Editors \ {e} : edit'[d] = edit[d] /\ edit'[d].step = "idle"
    BY <1>10, <2>1 DEF SwapCopies, OInv, RegistryTypeOK, Orderly, Alone, Under
  <2>4. Alone' /\ \A d \in Editors : InStep(edit[d])'
    BY <2>2, <2>3, BlankEdit DEF Alone, Under, InStep
  <2>5. memRow' = row' /\ Same(memBinding)'
    BY <1>10, <2>1 DEF SwapCopies, Same
  <2> QED
    BY <2>4, <2>5
<1>11. ASSUME NEW s \in scopes, DeleteScope(s)
       PROVE  Orderly'
  <2>1. s # "global"
    BY OverridesAssumption DEF OInv, RegistryTypeOK
  <2>2. \A x \in scopes' \cup {"global"} : x \in scopes \cup {"global"} /\ binding'[x] = binding[x]
    BY <1>11, <2>1 DEF DeleteScope, OInv, RegistryTypeOK, BindingSet
  <2>3. ASSUME NEW b, Same(b)
        PROVE  \A x \in scopes' \cup {"global"} : b[x] = binding'[x]
    BY <2>2, <2>3 DEF Same
  <2>4. Same(memBinding) => Same(memBinding)'
    BY <1>11, <2>3 DEF DeleteScope, Same
  <2>5. \A d \in Editors : InStep(edit[d]) => InStep(edit[d])'
    BY <1>11, <2>3 DEF DeleteScope, InStep, Same
  <2> QED
    BY <1>11, <2>4, <2>5 DEF DeleteScope, OInv, Orderly, Alone, Under
<1>12. CASE RegistryRestart
  <2>1. \A d \in Editors : edit'[d] = NoEdit
    BY <1>12 DEF RegistryRestart
  <2>2. Alone' /\ \A d \in Editors : InStep(edit[d])'
    BY <2>1, BlankEdit DEF Alone, Under, InStep
  <2> QED
    BY <1>12, <2>2 DEF RegistryRestart, Orderly, Same
<1>13. CASE UNCHANGED pluginVars
  BY <1>13 DEF pluginVars, OInv, Orderly, Alone, Under, InStep, Same
<1> QED
  BY <1>1, <1>2, <1>3, <1>4, <1>5, <1>6, <1>7, <1>8, <1>9, <1>10, <1>11, <1>12, <1>13 DEF RegistryNext

(* Requests run the plugins that the rows say when no edit is under way,   *)
(* unless edits overlapped since the start: also for scopes whose bindings *)
(* were deleted without a reload (Manager.ReloadCache).                    *)
THEOREM StoredPluginsRun == RegistrySpec => []RunsWhatIsStored
<1>1. OInv => RunsWhatIsStored
  <2> SUFFICES ASSUME OInv, \A e \in Editors : ~ Under(e), ~ editsOverlapped
               PROVE  /\ memRow = row
                      /\ \A c \in SUBSET scopes :
                           EffectiveState(memBinding, c \cup {"global"}) =
                             EffectiveState(binding, c \cup {"global"})
    BY DEF RunsWhatIsStored
  <2>1. memRow = row /\ Same(memBinding)
    BY DEF OInv, Orderly, Under, Reloading
  <2>2. ASSUME NEW c \in SUBSET scopes
        PROVE  EffectiveState(memBinding, c \cup {"global"}) =
                 EffectiveState(binding, c \cup {"global"})
    <3>1. \A s \in c \cup {"global"} : memBinding[s] = binding[s]
      BY <2>1 DEF Same
    <3> QED
      BY <3>1 DEF EffectiveState
  <2> QED
    BY <2>1, <2>2
<1> QED
  BY <1>1, InitOrderly, NextOrderly, PTL DEF RegistrySpec

(* "failure-policy change are admin-only" (endpoint UpdatePlugin), with    *)
(* the two exceptions that PolicyChangesAreAdministrators names.           *)
THEOREM AdministratorsChangePolicies == RegistrySpec => PolicyChangesAreAdministrators
<1> DEFINE Permitted ==
      There(row) /\ There(row') /\ row'.policy # row.policy =>
        \/ \E e \in Editors : edit[e].step = "write" /\ edit[e].admin /\ edit'[e].step = "reload"
        \/ editsOverlapped
        \/ kind # "http" /\ row' = Seeded(kind, row) /\ memRow' = row'
<1>1. OInv /\ [RegistryNext]_pluginVars => [Permitted]_pluginVars
  <2> SUFFICES ASSUME OInv, RegistryNext, There(row), There(row'), row'.policy # row.policy
               PROVE  Permitted
    OBVIOUS
  <2>1. ASSUME NEW e \in Editors, UpdateWrite(e)
        PROVE  Permitted
    <3>1. edit[e].step = "write" /\ row' = edit[e].written /\ edit'[e].step = "reload"
      BY <2>1 DEF UpdateWrite, OInv, RegistryTypeOK, NoEdit
    <3>2. edit[e].admin \/ editsOverlapped
      BY <3>1 DEF OInv, Orderly, InStep
    <3> QED
      BY <3>1, <3>2
  <2>2. CASE RegistryRestart
    BY <2>2 DEF RegistryRestart, Seeded
  <2>3. ASSUME NEW e \in Editors, DeletePlugin(e)
        PROVE  FALSE
    BY <2>3 DEF DeletePlugin, There, NoRow
  <2>4. ASSUME NEW e \in Editors, NEW r \in Rows, CreateHTTPPlugin(e, r)
        PROVE  FALSE
    BY <2>4 DEF CreateHTTPPlugin, There, NoRow
  <2>5. ASSUME row' = row
        PROVE  FALSE
    BY <2>5
  <2> QED
    BY <2>1, <2>2, <2>3, <2>4, <2>5
    DEF RegistryNext, OtherEdit, UpdateBegin, UpsertBinding, UpdateMerge, ReadPluginRows,
        ReadBindingRows, SwapCopies, DeleteScope, pluginRows
<1> QED
  BY <1>1, InitOrderly, NextOrderly, PTL DEF RegistrySpec, PolicyChangesAreAdministrators

-----------------------------------------------------------------------------
(* PriceList. Who will give the rows of a model new costs, and who will    *)
(* first bring the overrides into memory.                                  *)
Reloads(e, m)  == priceEdit[e].model = m /\ priceEdit[e].step \in {"reload", "swap"}
Reprices(e, s) ==
  /\ priceEdit[e].model = traffic[s].model
  /\ \/ priceEdit[e].step \in {"reload", "swap"}
     \/ traffic[s].step = "row" /\ priceEdit[e].step = "select"
     \/ traffic[s].step = "row" /\ priceEdit[e].step = "price" /\ s \in priceEdit[e].targets

(* The mutex is held from the first query of a reload to its swap, so that *)
(* what has been read is current when nobody has yet to read.              *)
OneReloads ==
  /\ \A e \in PriceEditors : priceEdit[e].step = "swap" <=> holder = e
  /\ (\A e \in PriceEditors : priceEdit[e].step # "reload") =>
       /\ \A e \in PriceEditors : priceEdit[e].step = "swap" => priceEdit[e].copy = list
       /\ holder = NoEditor => memList = list

(* An override that is not in memory has an edit that will bring it there. *)
OverridesCome ==
  \A m \in PricedModels : memOverride[m] = override[m] \/ \E e \in PriceEditors : Reloads(e, m)

(* A request that is charged or a row has the price of the override, or an *)
(* edit will give it: when the edit reloads, a request that is no row yet  *)
(* becomes one that is missed.                                             *)
CostsCome ==
  \A s \in Slots :
    ~ traffic[s].missed /\ traffic[s].step # "none" /\ override[traffic[s].model] # NoPrice =>
      \/ traffic[s].cost = override[traffic[s].model]
      \/ \E e \in PriceEditors : Reprices(e, s)

(* A request that is charged, or a row, is one for a model; rows do not go *)
(* away while they are priced.                                             *)
HasModel ==
  /\ \A s \in Slots : traffic[s].step # "none" => traffic[s].model \in PricedModels
  /\ \A e \in PriceEditors : priceEdit[e].step = "price" =>
       \A s \in priceEdit[e].targets : traffic[s].step = "row"

PriceInv == PricesTypeOK /\ HasModel /\ OneReloads /\ OverridesCome /\ CostsCome

-----------------------------------------------------------------------------
LEMMA LoadedOverrides ==
  ASSUME override \in [PricedModels -> Costs], NEW o \in Loaded(override)
  PROVE  /\ o \in [PricedModels \cup Families -> Costs]
         /\ \A m \in PricedModels : o[m] = override[m]
  BY DEF Loaded

LEMMA BlankPriceEdit ==
  /\ NoPriceEdit \in PriceEditSet
  /\ NoPriceEdit.step = "idle" /\ NoPriceEdit.model = "none" /\ NoPriceEdit.targets = {}
  BY DEF NoPriceEdit, PriceEditSet, Costs

LEMMA Entered ==
  ASSUME PricesTypeOK, NEW e \in PriceEditors, NEW s \in {"reload", "select"},
         NEW m \in PricedModels \cup {"none", "all"}, Enter(e, s, m)
  PROVE  /\ priceEdit' \in [PriceEditors -> PriceEditSet]
         /\ priceEdit[e].step = "idle" /\ priceEdit'[e].step = s /\ priceEdit'[e].model = m
         /\ \A x \in PriceEditors \ {e} : priceEdit'[x] = priceEdit[x]
<1> DEFINE w == [NoPriceEdit EXCEPT !.step = s, !.model = m]
<1>1. w \in PriceEditSet /\ w.step = s /\ w.model = m
  BY BlankPriceEdit DEF PriceEditSet
<1>2. priceEdit' = [priceEdit EXCEPT ![e] = w] /\ priceEdit[e].step = "idle"
  BY DEF Enter
<1> HIDE DEF w
<1> QED
  BY <1>1, <1>2 DEF PricesTypeOK

(* An edit that goes on keeps its model.                                   *)
LEMMA ListRead ==
  ASSUME PricesTypeOK, NEW e \in PriceEditors, ReadList(e)
  PROVE  /\ priceEdit' \in [PriceEditors -> PriceEditSet] /\ priceEdit[e].step = "reload"
         /\ priceEdit'[e].step = "swap" /\ priceEdit'[e].model = priceEdit[e].model
         /\ priceEdit'[e].copy = list
         /\ \A x \in PriceEditors \ {e} : priceEdit'[x] = priceEdit[x]
<1> DEFINE w == [priceEdit[e] EXCEPT !.step = "swap", !.copy = list]
<1>0. priceEdit[e] \in PriceEditSet
  BY DEF PricesTypeOK
<1>1. w \in PriceEditSet /\ w.step = "swap" /\ w.model = priceEdit[e].model /\ w.copy = list
  BY <1>0 DEF PriceEditSet, PricesTypeOK
<1>2. priceEdit' = [priceEdit EXCEPT ![e] = w] /\ priceEdit[e].step = "reload"
  BY <1>0 DEF ReadList, PriceEditSet, PricesTypeOK
<1> HIDE DEF w
<1> QED
  BY <1>1, <1>2 DEF PricesTypeOK

LEMMA Swapped ==
  ASSUME PricesTypeOK, NEW e \in PriceEditors, ReadOverridesAndSwap(e)
  PROVE  /\ priceEdit' \in [PriceEditors -> PriceEditSet] /\ priceEdit[e].step = "swap"
         /\ \/ priceEdit[e].model = "none" /\ priceEdit'[e].step = "idle"
            \/ priceEdit'[e].step = "select" /\ priceEdit'[e].model = priceEdit[e].model
         /\ \A x \in PriceEditors \ {e} : priceEdit'[x] = priceEdit[x]
<1> DEFINE w == [priceEdit[e] EXCEPT !.step = "select", !.copy = NoPriceEdit.copy]
<1>0. priceEdit[e] \in PriceEditSet /\ NoPriceEdit.copy \in [Families -> Costs]
  BY DEF PricesTypeOK, NoPriceEdit, Costs
<1>1. w \in PriceEditSet /\ w.step = "select" /\ w.model = priceEdit[e].model
  BY <1>0 DEF PriceEditSet
<1>2. /\ priceEdit' = [priceEdit EXCEPT ![e] = IF priceEdit[e].model = "none" THEN NoPriceEdit ELSE w]
      /\ priceEdit[e].step = "swap"
  BY <1>0 DEF ReadOverridesAndSwap, PricesTypeOK
<1> HIDE DEF w
<1> QED
  BY <1>1, <1>2, BlankPriceEdit DEF PricesTypeOK

LEMMA Selected ==
  ASSUME PricesTypeOK, NEW e \in PriceEditors, SelectRows(e)
  PROVE  /\ priceEdit' \in [PriceEditors -> PriceEditSet] /\ priceEdit[e].step = "select"
         /\ priceEdit'[e].step = "price" /\ priceEdit'[e].model = priceEdit[e].model
         /\ \A s \in Slots : traffic[s].step = "row" /\ traffic[s].model = priceEdit[e].model =>
              s \in priceEdit'[e].targets
         /\ \A s \in priceEdit'[e].targets : traffic[s].step = "row"
         /\ \A x \in PriceEditors \ {e} : priceEdit'[x] = priceEdit[x]
<1> DEFINE T == {s \in Slots : traffic[s].step = "row" /\ priceEdit[e].model \in {"all", traffic[s].model}}
           w == [priceEdit[e] EXCEPT !.step = "price", !.targets = T]
<1>0. priceEdit[e] \in PriceEditSet
  BY DEF PricesTypeOK
<1>1. w \in PriceEditSet /\ w.step = "price" /\ w.model = priceEdit[e].model /\ w.targets = T
  BY <1>0 DEF PriceEditSet
<1>2. priceEdit' = [priceEdit EXCEPT ![e] = w] /\ priceEdit[e].step = "select"
  BY <1>0 DEF SelectRows, PriceEditSet, PricesTypeOK
<1>3. /\ \A s \in Slots : traffic[s].step = "row" /\ traffic[s].model = priceEdit[e].model => s \in T
      /\ \A s \in T : traffic[s].step = "row"
  OBVIOUS
<1> HIDE DEF w, T
<1> QED
  BY <1>1, <1>2, <1>3 DEF PricesTypeOK

LEMMA PriceTyped ==
  ASSUME PricesTypeOK, NEW m \in PricedModels
  PROVE  PriceFor(m) \in Costs
<1>1. FamilyOf[m] \in Families
  BY PriceAssumption
<1> QED
  BY <1>1 DEF PriceFor, PricesTypeOK

(* What a request is charged, or a row priced, when its model has an       *)
(* override: its price, or an edit will still bring the override.          *)
LEMMA PriceIsOverride ==
  ASSUME PriceInv, NEW m \in PricedModels, override[m] # NoPrice
  PROVE  PriceFor(m) = override[m] \/ \E e \in PriceEditors : Reloads(e, m)
  BY DEF PriceInv, OverridesCome, PriceFor

-----------------------------------------------------------------------------
LEMMA InitPrices == PricesInit => PriceInv
<1> SUFFICES ASSUME PricesInit
             PROVE  PriceInv
  OBVIOUS
<1>1. PricesTypeOK
  <2>1. override \in [PricedModels -> Costs] /\ list \in [Families -> Costs]
    BY DEF PricesInit, Costs
  <2>2. memOverride \in [PricedModels \cup Families -> Costs]
    BY <2>1, LoadedOverrides DEF PricesInit
  <2>3. NoRequest \in TrafficSet
    BY DEF NoRequest, TrafficSet, Costs
  <2> QED
    BY <2>1, <2>2, <2>3, BlankPriceEdit DEF PricesInit, PricesTypeOK
<1>2. \A e \in PriceEditors : priceEdit[e].step = "idle"
  BY BlankPriceEdit DEF PricesInit
<1>3. \A s \in Slots : traffic[s].step = "none"
  BY DEF PricesInit, NoRequest
<1>4. \A m \in PricedModels : memOverride[m] = override[m]
  BY <1>1, LoadedOverrides DEF PricesInit, PricesTypeOK
<1> QED
  BY <1>1, <1>2, <1>3, <1>4, PriceAssumption
     DEF PricesInit, PriceInv, HasModel, OneReloads, OverridesCome, CostsCome

(* An edit that begins, with what it stores.                               *)
LEMMA EditBegins ==
  ASSUME PriceInv, NEW e \in PriceEditors, NEW st \in {"reload", "select"},
         NEW m \in PricedModels \cup {"none", "all"}, Enter(e, st, m),
         override' \in [PricedModels -> Costs], list' \in [Families -> Costs],
         \A n \in PricedModels : override'[n] # override[n] => st = "reload" /\ n = m,
         list' # list => st = "reload",
         UNCHANGED <<priceMemory, holder, traffic>>
  PROVE  PriceInv'
<1>0. PricesTypeOK /\ UNCHANGED <<memList, memOverride, holder, traffic>>
  BY DEF PriceInv, priceMemory
<1>1. /\ priceEdit' \in [PriceEditors -> PriceEditSet]
      /\ priceEdit[e].step = "idle" /\ priceEdit'[e].step = st /\ priceEdit'[e].model = m
      /\ \A x \in PriceEditors \ {e} : priceEdit'[x] = priceEdit[x]
  BY <1>0, Entered
<1>2. PricesTypeOK' /\ HasModel'
  BY <1>0, <1>1 DEF PriceInv, PricesTypeOK, HasModel
<1>3. OneReloads'
  <2>1. \A x \in PriceEditors : (priceEdit'[x].step = "swap" <=> holder' = x)
    BY <1>0, <1>1 DEF PriceInv, OneReloads
  <2>2. ASSUME \A x \in PriceEditors : priceEdit'[x].step # "reload"
        PROVE  /\ \A x \in PriceEditors : priceEdit'[x].step = "swap" => priceEdit'[x].copy = list'
               /\ holder' = NoEditor => memList' = list'
    <3>1. list' = list /\ \A x \in PriceEditors : priceEdit[x].step # "reload"
      BY <1>1, <2>2
    <3> QED
      BY <1>0, <1>1, <3>1 DEF PriceInv, OneReloads
  <2> QED
    BY <2>1, <2>2 DEF OneReloads
<1>4. OverridesCome'
  <2> SUFFICES ASSUME NEW n \in PricedModels, memOverride'[n] # override'[n]
               PROVE  \E x \in PriceEditors : Reloads(x, n)'
    BY DEF OverridesCome
  <2>1. CASE override'[n] # override[n]
    BY <1>1, <2>1 DEF Reloads
  <2>2. CASE override'[n] = override[n]
    BY <1>0, <1>1, <2>2 DEF Reloads, PriceInv, OverridesCome
  <2> QED
    BY <2>1, <2>2
<1>5. CostsCome'
  <2> SUFFICES ASSUME NEW s \in Slots, ~ traffic[s].missed, traffic[s].step # "none",
                      override'[traffic[s].model] # NoPrice,
                      traffic[s].cost # override'[traffic[s].model]
               PROVE  \E x \in PriceEditors : Reprices(x, s)'
    BY <1>0 DEF CostsCome, Reprices, Reloads
  <2>0. traffic[s].model \in PricedModels
    BY DEF PriceInv, HasModel
  <2>1. CASE override'[traffic[s].model] # override[traffic[s].model]
    BY <1>0, <1>1, <2>0, <2>1 DEF Reprices, Reloads
  <2>2. CASE override'[traffic[s].model] = override[traffic[s].model]
    <3>1. PICK x \in PriceEditors : Reprices(x, s)
      BY <2>2 DEF PriceInv, CostsCome
    <3>2. x # e
      BY <1>1, <3>1 DEF Reprices
    <3> QED
      BY <1>0, <1>1, <3>1, <3>2 DEF Reprices, Reloads
  <2> QED
    BY <2>1, <2>2
<1> QED
  BY <1>2, <1>3, <1>4, <1>5 DEF PriceInv

LEMMA NextPrices == PriceInv /\ [PricesNext]_priceVars => PriceInv'
<1> SUFFICES ASSUME PriceInv, [PricesNext]_priceVars
             PROVE  PriceInv'
  OBVIOUS
<1>0. PricesTypeOK
  BY DEF PriceInv
<1>1. ASSUME NEW e \in PriceEditors, NEW m \in PricedModels, NEW c \in Costs,
             Enter(e, "reload", m), override' = [override EXCEPT ![m] = c],
             UNCHANGED <<list, priceMemory, holder, traffic>>
      PROVE  PriceInv'
  <2>1. override' \in [PricedModels -> Costs] /\ \A n \in PricedModels : override'[n] # override[n] => n = m
    BY <1>0, <1>1 DEF PricesTypeOK
  <2>2. list' \in [Families -> Costs] /\ list' = list
    BY <1>0, <1>1 DEF PricesTypeOK
  <2> QED
    BY <1>1, <2>1, <2>2, EditBegins
<1>2. ASSUME NEW e \in PriceEditors, NEW m \in PricedModels, DeleteOverride(e, m)
      PROVE  PriceInv'
  BY <1>1, <1>2 DEF DeleteOverride, Costs
<1>3. ASSUME NEW e \in PriceEditors, NEW m \in PricedModels, NEW c \in Prices, SetOverride(e, m, c)
      PROVE  PriceInv'
  BY <1>1, <1>3 DEF SetOverride, Costs
<1>4. ASSUME NEW e \in PriceEditors, RefreshPrices(e)
      PROVE  PriceInv'
  <2>1. override' \in [PricedModels -> Costs] /\ override' = override
    BY <1>0, <1>4 DEF PricesTypeOK, RefreshPrices
  <2> QED
    BY <1>4, <2>1, EditBegins DEF RefreshPrices
<1>5. ASSUME NEW e \in PriceEditors, RepriceCosts(e)
      PROVE  PriceInv'
  <2>1. /\ override' \in [PricedModels -> Costs] /\ override' = override
        /\ list' \in [Families -> Costs] /\ list' = list
    BY <1>0, <1>5 DEF PricesTypeOK, RepriceCosts, priceRows
  <2> QED
    BY <1>5, <2>1, EditBegins DEF RepriceCosts
<1>6. ASSUME NEW e \in PriceEditors, ReadList(e)
      PROVE  PriceInv'
  <2>0. UNCHANGED <<list, override, memList, memOverride, traffic>> /\ holder = NoEditor /\ holder' = e
    BY <1>6 DEF ReadList, priceRows, priceMemory
  <2>1. /\ priceEdit' \in [PriceEditors -> PriceEditSet] /\ priceEdit[e].step = "reload"
        /\ priceEdit'[e].step = "swap" /\ priceEdit'[e].model = priceEdit[e].model
        /\ priceEdit'[e].copy = list
        /\ \A x \in PriceEditors \ {e} : priceEdit'[x] = priceEdit[x]
    BY <1>0, <1>6, ListRead
  <2>2. PricesTypeOK' /\ HasModel'
    BY <1>0, <2>0, <2>1 DEF PriceInv, PricesTypeOK, HasModel
  <2>3. \A x \in PriceEditors : priceEdit[x].step # "swap"
    BY <2>0, PriceAssumption DEF PriceInv, OneReloads
  <2>4. OneReloads'
    BY <2>0, <2>1, <2>3, PriceAssumption DEF OneReloads
  <2>5. \A x \in PriceEditors, m \in PricedModels : Reloads(x, m) => Reloads(x, m)'
    BY <2>1 DEF Reloads
  <2>6. \A x \in PriceEditors, s \in Slots : Reprices(x, s) => Reprices(x, s)'
    BY <2>0, <2>1 DEF Reprices
  <2>7. OverridesCome'
    BY <2>0, <2>5 DEF PriceInv, OverridesCome
  <2>8. CostsCome'
    BY <2>0, <2>6 DEF PriceInv, CostsCome
  <2> QED
    BY <2>2, <2>4, <2>7, <2>8 DEF PriceInv
<1>7. ASSUME NEW e \in PriceEditors, ReadOverridesAndSwap(e)
      PROVE  PriceInv'
  <2>0. /\ UNCHANGED <<list, override>> /\ holder' = NoEditor
        /\ memList' = priceEdit[e].copy /\ memOverride' \in Loaded(override)
    BY <1>7 DEF ReadOverridesAndSwap, priceRows
  <2>1. /\ priceEdit' \in [PriceEditors -> PriceEditSet] /\ priceEdit[e].step = "swap"
        /\ \/ priceEdit[e].model = "none" /\ priceEdit'[e].step = "idle"
           \/ priceEdit'[e].step = "select" /\ priceEdit'[e].model = priceEdit[e].model
        /\ \A x \in PriceEditors \ {e} : priceEdit'[x] = priceEdit[x]
    BY <1>0, <1>7, Swapped
  <2>2. \A s \in Slots :
          /\ traffic'[s] \in TrafficSet /\ traffic'[s].step = traffic[s].step
          /\ traffic'[s].model = traffic[s].model /\ traffic'[s].cost = traffic[s].cost
          /\ ~ traffic'[s].missed => traffic[s].step # "charged" /\ ~ traffic[s].missed
    <3> SUFFICES ASSUME NEW s \in Slots
                 PROVE  /\ traffic'[s] \in TrafficSet /\ traffic'[s].step = traffic[s].step
                        /\ traffic'[s].model = traffic[s].model /\ traffic'[s].cost = traffic[s].cost
                        /\ ~ traffic'[s].missed => traffic[s].step # "charged" /\ ~ traffic[s].missed
      OBVIOUS
    <3>1. traffic[s] \in TrafficSet
      BY <1>0 DEF PricesTypeOK
    <3>2. traffic'[s] = [traffic[s] EXCEPT !.missed = @ \/ traffic[s].step = "charged"]
      BY <1>7 DEF ReadOverridesAndSwap
    <3> QED
      BY <3>1, <3>2 DEF TrafficSet
  <2>3. PricesTypeOK' /\ HasModel'
    <3>1. priceEdit[e].copy \in [Families -> Costs]
      BY <1>0 DEF PricesTypeOK, PriceEditSet
    <3>2. memOverride' \in [PricedModels \cup Families -> Costs]
      BY <1>0, <2>0, LoadedOverrides DEF PricesTypeOK
    <3>3. traffic' \in [Slots -> TrafficSet]
      BY <1>7, <2>2 DEF ReadOverridesAndSwap
    <3>4. PricesTypeOK'
      BY <1>0, <2>0, <2>1, <3>1, <3>2, <3>3 DEF PricesTypeOK
    <3>5. \A x \in PriceEditors : priceEdit[x].targets \subseteq Slots
      BY <1>0 DEF PricesTypeOK, PriceEditSet
    <3> QED
      BY <2>1, <2>2, <3>4, <3>5 DEF PriceInv, HasModel
  <2>4. OneReloads'
    <3>1. holder = e /\ \A x \in PriceEditors \ {e} : priceEdit'[x].step # "swap"
      BY <2>1 DEF PriceInv, OneReloads
    <3>2. (\A x \in PriceEditors : priceEdit'[x].step # "reload") => memList' = list'
      BY <2>0, <2>1 DEF PriceInv, OneReloads
    <3> QED
      BY <2>0, <2>1, <3>1, <3>2, PriceAssumption DEF OneReloads
  <2>5. OverridesCome'
    BY <1>0, <2>0, LoadedOverrides DEF OverridesCome, PricesTypeOK
  <2>6. \A x \in PriceEditors, s \in Slots :
          traffic[s].step = "row" /\ Reprices(x, s) => Reprices(x, s)'
    <3> SUFFICES ASSUME NEW s \in Slots, traffic[s].step = "row", Reprices(e, s)
                 PROVE  Reprices(e, s)'
      BY <2>1, <2>2 DEF Reprices
    <3>1. priceEdit[e].model # "none"
      BY PriceAssumption DEF Reprices, PriceInv, HasModel
    <3> QED
      BY <2>1, <2>2, <3>1 DEF Reprices
  <2>7. CostsCome'
    <3> SUFFICES ASSUME NEW s \in Slots, ~ traffic'[s].missed, traffic'[s].step # "none",
                        override'[traffic'[s].model] # NoPrice
                 PROVE  \/ traffic'[s].cost = override'[traffic'[s].model]
                        \/ \E x \in PriceEditors : Reprices(x, s)'
      BY DEF CostsCome
    <3>1. traffic[s].step \in {"none", "charged", "row"}
      BY <1>0 DEF PricesTypeOK, TrafficSet
    <3> QED
      BY <2>0, <2>2, <2>6, <3>1 DEF PriceInv, CostsCome
  <2> QED
    BY <2>3, <2>4, <2>5, <2>7 DEF PriceInv
<1>8. ASSUME NEW e \in PriceEditors, SelectRows(e)
      PROVE  PriceInv'
  <2>0. UNCHANGED <<list, override, memList, memOverride, holder, traffic>>
    BY <1>8 DEF SelectRows, priceRows, priceMemory
  <2>1. /\ priceEdit' \in [PriceEditors -> PriceEditSet] /\ priceEdit[e].step = "select"
        /\ priceEdit'[e].step = "price" /\ priceEdit'[e].model = priceEdit[e].model
        /\ \A s \in Slots : traffic[s].step = "row" /\ traffic[s].model = priceEdit[e].model =>
             s \in priceEdit'[e].targets
        /\ \A s \in priceEdit'[e].targets : traffic[s].step = "row"
        /\ \A x \in PriceEditors \ {e} : priceEdit'[x] = priceEdit[x]
    BY <1>0, <1>8, Selected
  <2>2. PricesTypeOK' /\ HasModel'
    BY <1>0, <2>0, <2>1 DEF PriceInv, PricesTypeOK, HasModel
  <2>3. OneReloads'
    BY <2>0, <2>1 DEF PriceInv, OneReloads
  <2>4. \A x \in PriceEditors, m \in PricedModels : Reloads(x, m) => Reloads(x, m)'
    BY <2>1 DEF Reloads
  <2>5. OverridesCome'
    BY <2>0, <2>4 DEF PriceInv, OverridesCome
  <2>6. \A x \in PriceEditors, s \in Slots : Reprices(x, s) => Reprices(x, s)'
    BY <2>0, <2>1 DEF Reprices
  <2>7. CostsCome'
    BY <2>0, <2>6 DEF PriceInv, CostsCome
  <2> QED
    BY <2>2, <2>3, <2>5, <2>7 DEF PriceInv
<1>9. ASSUME NEW e \in PriceEditors, PriceRows(e)
      PROVE  PriceInv'
  <2>0. /\ UNCHANGED <<list, override, memList, memOverride, holder>>
        /\ priceEdit[e].step = "price" /\ priceEdit' = [priceEdit EXCEPT ![e] = NoPriceEdit]
    BY <1>9 DEF PriceRows, priceRows, priceMemory
  <2>1. /\ priceEdit' \in [PriceEditors -> PriceEditSet] /\ priceEdit'[e].step = "idle"
        /\ \A x \in PriceEditors \ {e} : priceEdit'[x] = priceEdit[x]
    BY <1>0, <2>0, BlankPriceEdit DEF PricesTypeOK
  <2>2. ASSUME NEW s \in Slots
        PROVE  /\ traffic'[s] \in TrafficSet /\ traffic'[s].step = traffic[s].step
               /\ traffic'[s].model = traffic[s].model
               /\ s \notin priceEdit[e].targets => traffic'[s] = traffic[s]
               /\ s \in priceEdit[e].targets => traffic'[s].cost = PriceFor(traffic[s].model)
    <3>0. traffic[s] \in TrafficSet
      BY <1>0 DEF PricesTypeOK
    <3>1. CASE s \notin priceEdit[e].targets
      BY <1>9, <3>0, <3>1 DEF PriceRows
    <3>2. CASE s \in priceEdit[e].targets
      <4> DEFINE c == PriceFor(traffic[s].model)
      <4>1. traffic'[s] = [traffic[s] EXCEPT !.cost = c, !.missed = FALSE]
        BY <1>9, <3>2 DEF PriceRows
      <4>2. c \in Costs
        <5>1. traffic[s].model \in PricedModels
          BY <2>0, <3>2 DEF PriceInv, HasModel
        <5> QED
          BY <1>0, <5>1, PriceTyped
      <4>3. c = PriceFor(traffic[s].model)
        OBVIOUS
      <4> HIDE DEF c
      <4> QED
        BY <3>0, <3>2, <4>1, <4>2, <4>3 DEF TrafficSet
    <3> QED
      BY <3>1, <3>2
  <2>3. PricesTypeOK' /\ HasModel'
    <3>1. traffic' \in [Slots -> TrafficSet]
      BY <1>9, <2>2 DEF PriceRows
    <3>4. PricesTypeOK'
      BY <1>0, <2>0, <2>1, <3>1 DEF PricesTypeOK
    <3>5. \A x \in PriceEditors : priceEdit[x].targets \subseteq Slots
      BY <1>0 DEF PricesTypeOK, PriceEditSet
    <3> QED
      BY <2>1, <2>2, <3>4, <3>5 DEF PriceInv, HasModel
  <2>4. OneReloads'
    BY <2>0, <2>1 DEF PriceInv, OneReloads
  <2>5. \A x \in PriceEditors, m \in PricedModels : Reloads(x, m) => Reloads(x, m)'
    BY <2>0, <2>1 DEF Reloads
  <2>6. OverridesCome'
    BY <2>0, <2>5 DEF PriceInv, OverridesCome
  <2>7. CostsCome'
    <3> SUFFICES ASSUME NEW s \in Slots, ~ traffic'[s].missed, traffic[s].step # "none",
                        override[traffic[s].model] # NoPrice,
                        traffic'[s].cost # override[traffic[s].model]
                 PROVE  \E x \in PriceEditors : Reprices(x, s)'
      BY <2>0, <2>2 DEF CostsCome
    <3>0. traffic[s].model \in PricedModels
      BY DEF PriceInv, HasModel
    <3>1. CASE s \in priceEdit[e].targets
      <4>1. PICK x \in PriceEditors : Reloads(x, traffic[s].model)
        BY <2>2, <3>0, <3>1, PriceIsOverride
      <4> QED
        BY <2>0, <2>1, <2>2, <4>1 DEF Reloads, Reprices
    <3>2. CASE s \notin priceEdit[e].targets
      <4>0. traffic'[s] = traffic[s]
        BY <2>2, <3>2
      <4>1. PICK x \in PriceEditors : Reprices(x, s)
        BY <4>0 DEF PriceInv, CostsCome
      <4>2. x # e
        BY <2>0, <3>2, <4>1 DEF Reprices
      <4> QED
        BY <2>1, <4>0, <4>1, <4>2 DEF Reprices
    <3> QED
      BY <3>1, <3>2
  <2> QED
    BY <2>3, <2>4, <2>6, <2>7 DEF PriceInv
<1>10. ASSUME NEW s \in Slots, NEW m \in PricedModels, Charge(s, m)
       PROVE  PriceInv'
  <2> DEFINE t == [step |-> "charged", model |-> m, cost |-> PriceFor(m), missed |-> FALSE]
  <2>0. /\ UNCHANGED <<list, override, memList, memOverride, holder, priceEdit>>
        /\ traffic[s].step = "none" /\ traffic' = [traffic EXCEPT ![s] = t]
    BY <1>10 DEF Charge, priceRows, priceMemory
  <2>1. t \in TrafficSet /\ t.step = "charged" /\ t.model = m /\ t.cost = PriceFor(m)
    BY <1>0, PriceTyped DEF TrafficSet
  <2> HIDE DEF t
  <2>2. traffic'[s] = t /\ \A r \in Slots \ {s} : traffic'[r] = traffic[r]
    BY <1>0, <2>0 DEF PricesTypeOK
  <2>3. PricesTypeOK'
    BY <1>0, <2>0, <2>1 DEF PricesTypeOK
  <2>4. HasModel'
    <3>1. \A e \in PriceEditors : priceEdit[e].step = "price" => s \notin priceEdit[e].targets
      BY <2>0 DEF PriceInv, HasModel
    <3>2. \A e \in PriceEditors : priceEdit[e].targets \subseteq Slots
      BY <1>0 DEF PricesTypeOK, PriceEditSet
    <3> QED
      BY <2>0, <2>1, <2>2, <3>1, <3>2 DEF PriceInv, HasModel
  <2>5. OneReloads' /\ OverridesCome'
    BY <2>0 DEF PriceInv, OneReloads, OverridesCome, Reloads
  <2>6. CostsCome'
    <3>1. ASSUME override[m] # NoPrice, PriceFor(m) # override[m]
          PROVE  \E x \in PriceEditors : Reprices(x, s)'
      BY <2>0, <2>1, <2>2, <3>1, PriceIsOverride DEF Reloads, Reprices
    <3>2. \A r \in Slots \ {s}, x \in PriceEditors : Reprices(x, r)' <=> Reprices(x, r)
      BY <2>0, <2>2 DEF Reprices
    <3> QED
      BY <2>0, <2>1, <2>2, <3>1, <3>2 DEF PriceInv, CostsCome
  <2> QED
    BY <2>3, <2>4, <2>5, <2>6 DEF PriceInv
<1>11. ASSUME NEW s \in Slots, WriteRow(s)
       PROVE  PriceInv'
  <2> DEFINE t == [traffic[s] EXCEPT !.step = "row"]
  <2>0. /\ UNCHANGED <<list, override, memList, memOverride, holder, priceEdit>>
        /\ traffic[s] \in TrafficSet /\ traffic[s].step = "charged"
    BY <1>0, <1>11 DEF WriteRow, priceRows, priceMemory, PricesTypeOK
  <2>1. /\ t \in TrafficSet /\ t.step = "row" /\ t.model = traffic[s].model
        /\ t.cost = traffic[s].cost /\ t.missed = traffic[s].missed
    BY <2>0 DEF TrafficSet
  <2>2. traffic' = [traffic EXCEPT ![s] = t]
    BY <1>0, <1>11 DEF WriteRow, PricesTypeOK
  <2> HIDE DEF t
  <2>3. traffic'[s] = t /\ \A r \in Slots \ {s} : traffic'[r] = traffic[r]
    BY <1>0, <2>2 DEF PricesTypeOK
  <2>4. PricesTypeOK'
    BY <1>0, <2>0, <2>1, <2>2 DEF PricesTypeOK
  <2>5. HasModel'
    <3>1. \A e \in PriceEditors : priceEdit[e].targets \subseteq Slots
      BY <1>0 DEF PricesTypeOK, PriceEditSet
    <3> QED
      BY <2>0, <2>1, <2>3, <3>1 DEF PriceInv, HasModel
  <2>6. OneReloads' /\ OverridesCome'
    BY <2>0 DEF PriceInv, OneReloads, OverridesCome, Reloads
  <2>7. CostsCome'
    <3>1. \A r \in Slots, x \in PriceEditors : Reprices(x, r) => Reprices(x, r)'
      BY <2>0, <2>1, <2>3 DEF Reprices
    <3> QED
      BY <2>0, <2>1, <2>3, <3>1 DEF PriceInv, CostsCome
  <2> QED
    BY <2>4, <2>5, <2>6, <2>7 DEF PriceInv
<1>12. CASE PricesRestart
  <2>1. /\ override' = override /\ memList' = list' /\ memOverride' \in Loaded(override)
        /\ \A e \in PriceEditors : priceEdit'[e] = NoPriceEdit
        /\ holder' = NoEditor
    BY <1>12 DEF PricesRestart
  <2>2. ASSUME NEW s \in Slots
        PROVE  /\ traffic'[s] \in TrafficSet
               /\ traffic'[s].step # "none" =>
                    /\ traffic'[s].model = traffic[s].model /\ traffic'[s].cost = traffic[s].cost
                    /\ traffic[s].step # "none"
                    /\ ~ traffic'[s].missed => ~ traffic[s].missed
                         /\ \A e \in PriceEditors : priceEdit[e].model # traffic[s].model
    <3>0. traffic[s] \in TrafficSet
      BY <1>0 DEF PricesTypeOK
    <3>1. CASE traffic[s].step = "row"
      <4> DEFINE late == traffic[s].missed \/ \E e \in PriceEditors : priceEdit[e].model = traffic[s].model
                 t    == [traffic[s] EXCEPT !.missed = late]
      <4>1. traffic'[s] = t
        BY <1>12, <3>1 DEF PricesRestart
      <4>2. late \in BOOLEAN /\ (~ late => ~ traffic[s].missed
              /\ \A e \in PriceEditors : priceEdit[e].model # traffic[s].model)
        BY <3>0 DEF TrafficSet
      <4> HIDE DEF late
      <4> QED
        BY <3>0, <3>1, <4>1, <4>2 DEF TrafficSet
    <3>2. CASE traffic[s].step # "row"
      BY <1>12, <3>2 DEF PricesRestart, NoRequest, TrafficSet, Costs
    <3> QED
      BY <3>1, <3>2
  <2>3. PricesTypeOK'
    <3>1. list' \in [Families -> Costs]
      BY <1>0, <1>12 DEF PricesRestart, PricesTypeOK, Costs
    <3>2. memOverride' \in [PricedModels \cup Families -> Costs]
      BY <1>0, <2>1, LoadedOverrides DEF PricesTypeOK
    <3>3. traffic' \in [Slots -> TrafficSet] /\ priceEdit' \in [PriceEditors -> PriceEditSet]
      BY <1>12, <2>2, BlankPriceEdit DEF PricesRestart
    <3> QED
      BY <1>0, <2>1, <3>1, <3>2, <3>3 DEF PricesTypeOK
  <2>4. HasModel'
    BY <2>1, <2>2, BlankPriceEdit DEF PriceInv, HasModel
  <2>5. OneReloads'
    BY <2>1, BlankPriceEdit, PriceAssumption DEF OneReloads
  <2>6. OverridesCome'
    BY <1>0, <2>1, LoadedOverrides DEF OverridesCome, PricesTypeOK
  <2>7. CostsCome'
    <3> SUFFICES ASSUME NEW s \in Slots, ~ traffic'[s].missed, traffic'[s].step # "none",
                        override[traffic'[s].model] # NoPrice
                 PROVE  traffic'[s].cost = override[traffic'[s].model]
      BY <2>1 DEF CostsCome
    <3>1. \A e \in PriceEditors : ~ Reprices(e, s)
      BY <2>2 DEF Reprices
    <3> QED
      BY <2>2, <3>1 DEF PriceInv, CostsCome
  <2> QED
    BY <2>3, <2>4, <2>5, <2>6, <2>7 DEF PriceInv
<1>13. CASE UNCHANGED priceVars
  BY <1>13 DEF priceVars, priceRows, priceMemory, PriceInv, PricesTypeOK, HasModel, OneReloads,
               OverridesCome, CostsCome, Reloads, Reprices
<1> QED
  BY <1>2, <1>3, <1>4, <1>5, <1>6, <1>7, <1>8, <1>9, <1>10, <1>11, <1>12, <1>13 DEF PricesNext

(* Types of prices, for any models, families, editors and requests.        *)
THEOREM PriceTypesHold == PricesSpec => []PricesTypeOK
<1>1. PriceInv => PricesTypeOK
  BY DEF PriceInv
<1> QED
  BY <1>1, InitPrices, NextPrices, PTL DEF PricesSpec

(* However edits, refreshes, reloads, repricing and restarts overlap,      *)
(* requests are charged by the rows as soon as every edit has reloaded,    *)
(* and the rows of a model with an override have its price when no edit is *)
(* under way, but for those that were missed (Resolver.Reload,             *)
(* RepriceRange).                                                          *)
THEOREM PricesAlwaysApply == PricesSpec => []PricesApply
<1>1. PriceInv => PricesApply
  <2> SUFFICES ASSUME PriceInv
               PROVE  ChargedAsStored /\ OverrideReachesRows
    BY DEF PricesApply
  <2>1. ChargedAsStored
    <3> SUFFICES ASSUME \A e \in PriceEditors : priceEdit[e].step \notin {"reload", "swap"}
                 PROVE  memList = list /\ \A m \in PricedModels : memOverride[m] = override[m]
      BY DEF ChargedAsStored
    <3>1. holder = NoEditor
      BY DEF PriceInv, OneReloads, PricesTypeOK
    <3> QED
      BY <3>1 DEF PriceInv, OneReloads, OverridesCome, Reloads
  <2>2. OverrideReachesRows
    BY DEF PriceInv, CostsCome, Reprices, OverrideReachesRows, Quiet
  <2> QED
    BY <2>1, <2>2
<1> QED
  BY <1>1, InitPrices, NextPrices, PTL DEF PricesSpec

-----------------------------------------------------------------------------
(* MCPlugins. A behaviour of the three parts together is one of each.      *)
LEMMA PartsRun == PluginsSpec => ReloadsSpec /\ RegistrySpec /\ PricesSpec
<1>1. PluginsInit => ReloadsInit /\ RegistryInit /\ PricesInit
  BY DEF PluginsInit
<1>2. ASSUME [PluginsNext]_pluginsVars
      PROVE  [ReloadsNext]_reloadsVars /\ [RegistryNext]_pluginVars /\ [PricesNext]_priceVars
  BY <1>2 DEF PluginsNext, pluginsVars
<1> QED
  BY <1>1, <1>2, PTL DEF PluginsSpec, ReloadsSpec, RegistrySpec, PricesSpec

(* Types of each part.                                                     *)
THEOREM PluginsTypesHold == PluginsSpec => []PluginsTypeOK
<1>1. PluginsInit => part \in {"catalog", "plugins", "prices"}
  BY DEF PluginsInit
<1>2. part \in {"catalog", "plugins", "prices"} /\ [PluginsNext]_pluginsVars
        => (part \in {"catalog", "plugins", "prices"})'
  BY DEF PluginsNext, pluginsVars
<1>3. part \in {"catalog", "plugins", "prices"} /\ ReloadsTypeOK /\ RegistryTypeOK /\ PricesTypeOK
        => PluginsTypeOK
  BY DEF PluginsTypeOK
<1> QED
  BY <1>1, <1>2, <1>3, PartsRun, ReloadsTypesHold, RegistryTypesHold, PriceTypesHold, PTL
     DEF PluginsSpec
=============================================================================
