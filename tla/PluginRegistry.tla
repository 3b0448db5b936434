--------------------------- MODULE PluginRegistry ---------------------------
(***************************************************************************)
(* A plugin and its bindings (internal/plugins.Manager and the endpoints   *)
(* in internal/handler/plugins.go).                                        *)
(*                                                                         *)
(* The rows are in the database; requests are served, and edits merged,    *)
(* from a copy in memory. Every edit writes its rows and then reloads the  *)
(* copy with two queries and a swap; no lock is held from the first read   *)
(* to the swap, so edits interleave at each of these steps. One plugin     *)
(* stands for all: plugins share nothing but the reload.                   *)
(***************************************************************************)
EXTENDS Naturals, FiniteSets

CONSTANTS
  Editors,       \* requests that edit the plugin
  Overrides      \* bound: the scopes but the global one, of group and key

ASSUME OverridesAssumption == Overrides \subseteq {"group", "key"}

VARIABLES
  kind,                   \* guard (secretguard), builtin (the others) or http
  row, binding,           \* rows of plugins and plugin_bindings
  scopes,                 \* the group and the key, while they exist
  memRow, memBinding,     \* Manager.plugins, Manager.bindings
  edit,                   \* what each request is doing
  editsOverlapped         \* history: two edits were under way at once

pluginRows   == <<row, binding>>
pluginMemory == <<memRow, memBinding>>
pluginVars   == <<kind, pluginRows, scopes, pluginMemory, edit, editsOverlapped>>

NoRow == [life |-> "none", policy |-> "open", bypassable |-> FALSE]
There(r) == r.life = "there"

(* The state a scope gives the plugin; "none": there is no such binding.   *)
Scopes == {"global"} \cup Overrides
States == {"on", "off", "inherit"}

NoBindings     == [s \in Scopes |-> "none"]
GlobalBindings == [NoBindings EXCEPT !["global"] = "off"]

(* written: what a request is to write; copy, copied: what its reload has  *)
(* read.                                                                   *)
NoEdit == [step |-> "idle", admin |-> FALSE, written |-> NoRow,
           copy |-> NoRow, copied |-> NoBindings]

Under(e) == edit[e].step # "idle"

Begin(e, s) ==
  /\ ~ Under(e)
  /\ edit' = [edit EXCEPT ![e] = [NoEdit EXCEPT !.step = s]]
  /\ editsOverlapped' = (editsOverlapped \/ \E d \in Editors : Under(d))

(* A fail-closed plugin cannot be bypassable.                              *)
Normal(r) == [r EXCEPT !.bypassable = @ /\ r.policy # "closed"]

Rows == {Normal(r) : r \in [life : {"there"}, policy : {"open", "closed"}, bypassable : BOOLEAN]}

(* seedPlugins at every start: built-in rows get their defaults back.      *)
Seeded(k, r) ==
  CASE k = "guard"   -> [life |-> "there", policy |-> "closed", bypassable |-> FALSE]
    [] k = "builtin" -> [life |-> "there", policy |-> "open", bypassable |-> TRUE]
    [] k = "http"    -> r

-----------------------------------------------------------------------------
(* ResolvePluginsForRequest: the most specific scope that says anything,   *)
(* for a request to which the scopes in c apply.                           *)
EffectiveState(b, c) ==
  LET Says(s) == s \in c /\ b[s] \in {"on", "off"}
  IN  IF Says("key") THEN b["key"]
      ELSE IF Says("group") THEN b["group"]
      ELSE IF Says("global") THEN b["global"]
      ELSE "off"

-----------------------------------------------------------------------------
(* A new database, and NewManager.                                         *)
RegistryInit ==
  /\ kind \in {"guard", "builtin", "http"}
  /\ row = Seeded(kind, NoRow)
  /\ binding = IF kind = "http" THEN NoBindings ELSE GlobalBindings
  /\ scopes = Overrides
  /\ memRow = row /\ memBinding = binding
  /\ edit = [e \in Editors |-> NoEdit]
  /\ editsOverlapped = FALSE

(* CreateHTTPPlugin: row and global binding in one transaction, under an   *)
(* id that is never used again.                                            *)
CreateHTTPPlugin(e, r) ==
  /\ kind = "http" /\ row = NoRow
  /\ Begin(e, "reload")
  /\ row' = r /\ binding' = [binding EXCEPT !["global"] = "off"]
  /\ UNCHANGED <<kind, scopes, pluginMemory>>

(* The endpoint UpdatePlugin: what the form leaves out ("keep") is taken   *)
(* from the copy in memory, by administrators and operators alike.         *)
Filled(form, r) ==
  [life |-> "there",
   policy |-> IF form.policy = "keep" THEN r.policy ELSE form.policy,
   bypassable |-> IF form.bypassable = "keep" THEN r.bypassable ELSE form.bypassable = "yes"]

(* Mutant: the form of an operator is taken as it is.                      *)
UpdateByAnyone(e, admin, form) ==
  /\ ~ Under(e) /\ There(memRow)
  /\ edit' = [edit EXCEPT ![e] = [NoEdit EXCEPT !.step = "update", !.admin = admin,
                                  !.written = Filled(form, memRow)]]
  /\ editsOverlapped' = (editsOverlapped \/ \E d \in Editors : Under(d))
  /\ UNCHANGED <<kind, pluginRows, scopes, pluginMemory>>

UpdateBegin(e, admin, form) ==
  /\ ~ Under(e) /\ There(memRow)
  /\ form.policy # "keep" => admin
  /\ edit' = [edit EXCEPT ![e] = [NoEdit EXCEPT !.step = "update", !.admin = admin,
                                  !.written = Filled(form, memRow)]]
  /\ editsOverlapped' = (editsOverlapped \/ \E d \in Editors : Under(d))
  /\ UNCHANGED <<kind, pluginRows, scopes, pluginMemory>>

(* Mutant: the rule about fail-closed plugins is left to the endpoint.     *)
MergeAsIs(e) ==
  /\ edit[e].step = "update"
  /\ edit' = [edit EXCEPT ![e].step = "write"]
  /\ UNCHANGED <<kind, pluginRows, scopes, pluginMemory, editsOverlapped>>

(* Manager.UpdatePlugin looks at the copy again: a built-in plugin that is *)
(* bypassable stays so.                                                    *)
Merged(r) == Normal([r EXCEPT !.bypassable = @ \/ (kind # "http" /\ memRow.bypassable)])

UpdateMerge(e) ==
  /\ edit[e].step = "update"
  /\ edit' = [edit EXCEPT ![e] =
       IF There(memRow) THEN [edit[e] EXCEPT !.step = "write", !.written = Merged(edit[e].written)]
       ELSE NoEdit]
  /\ UNCHANGED <<kind, pluginRows, scopes, pluginMemory, editsOverlapped>>

(* One UPDATE of all columns, of the row if it is still there.             *)
UpdateWrite(e) ==
  /\ edit[e].step = "write"
  /\ row' = IF There(row) THEN edit[e].written ELSE row
  /\ edit' = [edit EXCEPT ![e] = [NoEdit EXCEPT !.step = "reload"]]
  /\ UNCHANGED <<kind, binding, scopes, pluginMemory, editsOverlapped>>

(* DeletePlugin finds the plugin in the copy, then deletes its rows: one   *)
(* step, as in between they can only be gone already.                      *)
DeletePlugin(e) ==
  /\ kind = "http" /\ There(memRow)
  /\ Begin(e, "reload")
  /\ row' = [NoRow EXCEPT !.life = "gone"] /\ binding' = NoBindings
  /\ UNCHANGED <<kind, scopes, pluginMemory>>

(* UpsertBinding: an override that inherits is not kept. Neither the       *)
(* plugin nor the scope is looked for.                                     *)
UpsertBinding(e, s, st) ==
  /\ Begin(e, "reload")
  /\ binding' = [binding EXCEPT ![s] = IF s # "global" /\ st = "inherit" THEN "none" ELSE st]
  /\ UNCHANGED <<kind, row, scopes, pluginMemory>>

(* RotateSecret, UpdatePipelineOrder and ResetPromptOverride write columns *)
(* of their own.                                                           *)
OtherEdit(e) ==
  /\ There(memRow)
  /\ Begin(e, "reload")
  /\ UNCHANGED <<kind, pluginRows, scopes, pluginMemory>>

(* Deleting a key or a group deletes its bindings, and reloads nothing.    *)
DeleteScope(s) ==
  /\ s \in scopes
  /\ scopes' = scopes \ {s}
  /\ binding' = [binding EXCEPT ![s] = "none"]
  /\ UNCHANGED <<kind, row, pluginMemory, edit, editsOverlapped>>

-----------------------------------------------------------------------------
(* ReloadCache: two queries, then both results are put in place.           *)
ReadPluginRows(e) ==
  /\ edit[e].step = "reload"
  /\ edit' = [edit EXCEPT ![e].step = "bindings", ![e].copy = row]
  /\ UNCHANGED <<kind, pluginRows, scopes, pluginMemory, editsOverlapped>>

ReadBindingRows(e) ==
  /\ edit[e].step = "bindings"
  /\ edit' = [edit EXCEPT ![e].step = "swap", ![e].copied = binding]
  /\ UNCHANGED <<kind, pluginRows, scopes, pluginMemory, editsOverlapped>>

(* Mutant: only the plugins are put in place.                              *)
SwapRowsOnly(e) ==
  /\ edit[e].step = "swap"
  /\ memRow' = edit[e].copy
  /\ edit' = [edit EXCEPT ![e] = NoEdit]
  /\ UNCHANGED <<kind, pluginRows, scopes, memBinding, editsOverlapped>>

SwapCopies(e) ==
  /\ edit[e].step = "swap"
  /\ memRow' = edit[e].copy /\ memBinding' = edit[e].copied
  /\ edit' = [edit EXCEPT ![e] = NoEdit]
  /\ UNCHANGED <<kind, pluginRows, scopes, editsOverlapped>>

(* A start seeds the rows and loads them.                                  *)
RegistryRestart ==
  /\ row' = Seeded(kind, row)
  /\ binding' = IF kind # "http" /\ binding["global"] = "none" THEN GlobalBindings ELSE binding
  /\ memRow' = row' /\ memBinding' = binding'
  /\ edit' = [e \in Editors |-> NoEdit]
  /\ editsOverlapped' = FALSE
  /\ UNCHANGED <<kind, scopes>>

-----------------------------------------------------------------------------
Forms == [policy : {"keep", "open", "closed"}, bypassable : {"keep", "yes", "no"}]

RegistryNext ==
  \/ \E e \in Editors :
       \/ DeletePlugin(e) \/ OtherEdit(e)
       \/ \E r \in Rows : CreateHTTPPlugin(e, r)
       \/ \E admin \in BOOLEAN, form \in Forms : UpdateBegin(e, admin, form)
       \/ \E s \in Scopes, st \in States : UpsertBinding(e, s, st)
       \/ UpdateMerge(e) \/ UpdateWrite(e)
       \/ ReadPluginRows(e) \/ ReadBindingRows(e) \/ SwapCopies(e)
  \/ \E s \in scopes : DeleteScope(s)
  \/ RegistryRestart

RegistrySpec == RegistryInit /\ [][RegistryNext]_pluginVars

-----------------------------------------------------------------------------
RowSet == [life : {"none", "there", "gone"}, policy : {"open", "closed"}, bypassable : BOOLEAN]
BindingSet == [Scopes -> States \cup {"none"}]

EditSet ==
  [step : {"idle", "update", "write", "reload", "bindings", "swap"}, admin : BOOLEAN,
   written : RowSet, copy : RowSet, copied : BindingSet]

RegistryTypeOK ==
  /\ kind \in {"guard", "builtin", "http"}
  /\ row \in RowSet /\ memRow \in RowSet
  /\ binding \in BindingSet /\ memBinding \in BindingSet
  /\ scopes \in SUBSET Overrides
  /\ edit \in [Editors -> EditSet]
  /\ editsOverlapped \in BOOLEAN

(* GLOSSARY "Plugins that protect (fail-closed) are never bypassable": the *)
(* rule is applied to a merged row that may be out of date when written,   *)
(* and must hold of the rows and of what requests are served from.         *)
ClosedNeverBypassable ==
  \A r \in {row, memRow} : r.policy = "closed" => ~ r.bypassable

(* When no edit is under way, requests run the plugins that the rows say,  *)
(* for every scope that exists, though nothing reloads the copy when a     *)
(* scope goes: unless edits overlapped since the start, as then the older  *)
(* of two reloads may be the last to swap.                                 *)
RunsWhatIsStored ==
  (\A e \in Editors : ~ Under(e)) /\ ~ editsOverlapped =>
    /\ memRow = row
    /\ There(row) => \A c \in SUBSET scopes :
         EffectiveState(memBinding, c \cup {"global"}) = EffectiveState(binding, c \cup {"global"})

(* "failure-policy change are admin-only": the policy of a plugin that is  *)
(* there changes in the update of an administrator, and otherwise only in  *)
(* two ways nobody asked for: an update that fills in what it leaves out   *)
(* from a copy that is out of date, as edits overlapped, and a start,      *)
(* which gives a built-in plugin its default policy back.                  *)
PolicyChangesAreAdministrators ==
  [][ There(row) /\ There(row') /\ row'.policy # row.policy =>
        \/ \E e \in Editors : edit[e].step = "write" /\ edit[e].admin /\ edit'[e].step = "reload"
        \/ editsOverlapped
        \/ kind # "http" /\ row' = Seeded(kind, row) /\ memRow' = row' ]_pluginVars
=============================================================================
