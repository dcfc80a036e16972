-------------------------------- MODULE Plugins --------------------------------
(***************************************************************************)
(* The plugins of one company (app/platform/plugins/service.py): requests  *)
(* that switch and configure them, one step per statement another          *)
(* transaction can notice, and restarts of the process with another        *)
(* settings.disabled_plugins. The manifests stay the same.                 *)
(***************************************************************************)
CONSTANTS
    Txns,           \* PATCH requests, one update each
    Plugins,        \* the plugins that are discovered
    Requires,       \* Plugins -> SUBSET Plugins
    DefaultEnabled, \* the plugins with default_enabled
    Configs,        \* the configurations a request may carry
    ValidConfigs,   \* those that pass config_schema
    DefaultConfig,
    Settings,       \* the choices of disabled_plugins
    Omitted,        \* a field the request leaves out
    NoRow

ASSUME PluginsAssumption ==
    /\ Requires \in [Plugins -> SUBSET Plugins]
    /\ DefaultEnabled \subseteq Plugins
    /\ DefaultConfig \in ValidConfigs
    /\ Settings \subseteq SUBSET Plugins
    /\ Omitted \notin BOOLEAN /\ Omitted \notin Configs
    /\ NoRow \notin [enabled : BOOLEAN, config : ValidConfigs]

VARIABLES
    loaded,     \* the loader's _loaded_plugins; empty too when startup failed
    rows,       \* committed company_plugins: plugin -> row, or NoRow
    pc,         \* the statement each transaction runs next
    req,        \* its request
    new         \* the row it will write

vars == <<loaded, rows, pc, req, new>>

Row == [enabled : BOOLEAN, config : ValidConfigs]

NoRequest == [plugin |-> NoRow, enabled |-> Omitted, config |-> Omitted]

Active(off) == Plugins \ off

-------------------------------------------------------------------------------
(* Startup: resolve_and_validate_plugins, with compatible versions. *)

\* Every prerequisite is there.
Complete(S) == \A p \in S : Requires[p] \subseteq S

\* Invariant A of ADR-010: a default-enabled plugin has default-enabled
\* prerequisites.
UpwardClosed(S) == \A p \in S \cap DefaultEnabled : Requires[p] \subseteq DefaultEnabled

\* Kahn's algorithm leaves out some plugins: they all wait for each other.
Cyclic(S) == \E T \in SUBSET S : T # {} /\ \A p \in T : Requires[p] \cap T # {}

LoadableWith(off) ==
    Complete(Active(off)) /\ UpwardClosed(Active(off)) /\ ~Cyclic(Active(off))

Init ==
    /\ \E off \in Settings : LoadableWith(off) /\ loaded = Active(off)
    /\ rows = [p \in Plugins |-> NoRow]
    /\ pc = [t \in Txns |-> "idle"]
    /\ req = [t \in Txns |-> NoRequest]
    /\ new = [t \in Txns |-> NoRow]

\* What the gate and the dependency check take for enabled.
Enabled(p) == IF rows[p] = NoRow THEN p \in DefaultEnabled ELSE rows[p].enabled

Config(p) == IF rows[p] = NoRow THEN DefaultConfig ELSE rows[p].config

\* Mutant: a refused request keeps the lock.
HoldersUnreleased == {t \in Txns : pc[t] \in {"load", "commit", "refused"}}

\* Transactions with the FOR UPDATE lock on the row of the company.
Holders == {t \in Txns : pc[t] \in {"load", "commit"}}

-------------------------------------------------------------------------------
(* update_company_plugin *)

Goto(t, where) == pc' = [pc EXCEPT ![t] = where]

Refuse(t) == Goto(t, "refused") /\ UNCHANGED <<loaded, rows, req, new>>

\* A request for a plugin that is not loaded gets 404.
Begin(t, r) ==
    /\ pc[t] = "idle"
    /\ req' = [req EXCEPT ![t] = r]
    /\ Goto(t, IF r.plugin \in loaded THEN "lock" ELSE "refused")
    /\ UNCHANGED <<loaded, rows, new>>

\* Mutant: the company row is not locked.
LockCompanyNoWait(t) ==
    /\ pc[t] = "lock"
    /\ Goto(t, "load")
    /\ UNCHANGED <<loaded, rows, req, new>>

LockCompany(t) ==
    /\ pc[t] = "lock" /\ Holders = {}
    /\ Goto(t, "load")
    /\ UNCHANGED <<loaded, rows, req, new>>

\* Mutant: an omitted field falls back to the manifest's default.
MergedFromDefault(r) ==
    [enabled |-> IF r.enabled = Omitted THEN r.plugin \in DefaultEnabled ELSE r.enabled,
     config  |-> IF r.config = Omitted THEN DefaultConfig ELSE r.config]

\* An omitted field keeps what is stored, or the default.
Merged(r) ==
    [enabled |-> IF r.enabled = Omitted THEN Enabled(r.plugin) ELSE r.enabled,
     config  |-> IF r.config = Omitted THEN Config(r.plugin) ELSE r.config]

ConfigAccepted(row) == row.config \in ValidConfigs

\* _check_dependency_invariants, over the loaded plugins.
DependenciesAllow(p, enabled) ==
    IF enabled THEN \A q \in Requires[p] : q \in loaded /\ Enabled(q)
    ELSE \A q \in loaded : p \in Requires[q] => ~Enabled(q)

\* The rows are read afresh under the lock, then everything is checked.
LoadRows(t) ==
    LET row == Merged(req[t]) IN
    /\ pc[t] = "load"
    /\ IF ConfigAccepted(row) /\ DependenciesAllow(req[t].plugin, row.enabled)
       THEN /\ new' = [new EXCEPT ![t] = row]
            /\ Goto(t, "commit")
            /\ UNCHANGED <<loaded, rows, req>>
       ELSE Refuse(t)

\* The insert of a first row meets no other: both hold the company's row.
Commit(t) ==
    /\ pc[t] = "commit"
    /\ rows' = [rows EXCEPT ![req[t].plugin] = new[t]]
    /\ Goto(t, "committed")
    /\ UNCHANGED <<loaded, req, new>>

\* The request fails, or its connection dies.
Rollback(t) == pc[t] \in {"lock", "load", "commit"} /\ Refuse(t)

-------------------------------------------------------------------------------
\* The process ends with its transactions and bootstrap_plugins runs again; if
\* it raises, nothing is served.
Restart(off) ==
    /\ loaded' = IF LoadableWith(off) THEN Active(off) ELSE {}
    /\ pc' = [t \in Txns |-> IF pc[t] \in {"lock", "load", "commit"} THEN "refused" ELSE pc[t]]
    /\ UNCHANGED <<rows, req, new>>

(* Requests: those of enable_plugin, disable_plugin and configure_plugin in    *)
(* cli/manage_plugins.py. Over HTTP a request is one of these too.             *)

EnableRequests ==
    [plugin : Plugins, enabled : {TRUE}, config : Configs \cup {Omitted}]

DisableRequests ==
    [plugin : Plugins, enabled : {FALSE}, config : {Omitted}]

ConfigureRequests ==
    [plugin : Plugins, enabled : BOOLEAN \cup {Omitted}, config : Configs]

Requests == EnableRequests \cup DisableRequests \cup ConfigureRequests

Advance(t) == LockCompany(t) \/ LoadRows(t) \/ Commit(t)

Next ==
    \/ \E t \in Txns :
          \/ \E r \in Requests : Begin(t, r)
          \/ Advance(t)
          \/ Rollback(t)
    \/ \E off \in Settings : Restart(off)

Spec == Init /\ [][Next]_vars

\* A statement runs when the lock it waits for is free.
FairSpec == Spec /\ \A t \in Txns : WF_vars(Advance(t))

-------------------------------------------------------------------------------
(* Properties. *)

\* Every variable has its type; a stored configuration passes its schema, or
\* the gate would fail every order that comes by.
TypeOK ==
    /\ loaded \subseteq Plugins
    /\ rows \in [Plugins -> Row \cup {NoRow}]
    /\ pc \in [Txns -> {"idle", "lock", "load", "commit", "committed", "refused"}]
    /\ req \in [Txns -> Requests \cup {NoRequest}]
    /\ new \in [Txns -> Row \cup {NoRow}]

\* ADR-010 3.3: whatever requests race, an enabled plugin has its prerequisites
\* enabled.
DependenciesMet ==
    \A p \in loaded : Enabled(p) => \A q \in Requires[p] : Enabled(q)

Wants(now, asked, old) == now = IF asked = Omitted THEN old ELSE asked

\* ADR-010 3.2: a committed update changes the fields it names, of the plugin it
\* names, and nothing that another request has committed in the meantime.
NothingOverwritten ==
    [][\A t \in Txns : pc[t] = "commit" /\ pc'[t] = "committed" =>
          LET r == req[t] IN
          /\ Wants(rows'[r.plugin].enabled, r.enabled, Enabled(r.plugin))
          /\ Wants(rows'[r.plugin].config, r.config, Config(r.plugin))
          /\ \A q \in Plugins \ {r.plugin} : rows'[q] = rows[q]]_vars

\* Every update is answered.
EveryUpdateEnds == \A t \in Txns : pc[t] # "idle" ~> pc[t] \in {"committed", "refused"}

-------------------------------------------------------------------------------
(* The inductive invariant behind the theorems of PlatformProofs. *)

\* No plugin with prerequisites is ever switched off by the settings.
DependentsStayOn == \A off \in Settings : \A p \in off : Requires[p] = {}

LoadedBySettings ==
    loaded = {} \/ \E off \in Settings : LoadableWith(off) /\ loaded = Active(off)

Served(t) ==
    pc[t] \in {"lock", "load", "commit"} => req[t] \in Requests /\ req[t].plugin \in loaded

\* What was read under the lock is still so when it is written.
StillAllowed(t) ==
    pc[t] = "commit" =>
        /\ new[t] = Merged(req[t])
        /\ new[t] \in Row
        /\ DependenciesAllow(req[t].plugin, new[t].enabled)

\* DependenciesMet, for the plugins that are not loaded too.
AllMet == \A p \in Plugins : Enabled(p) => \A q \in Requires[p] : Enabled(q)

\* What the company's lock protects, whatever the settings switch off.
UpdatesInv ==
    /\ TypeOK
    /\ LoadedBySettings
    /\ \A t, u \in Holders : t = u
    /\ \A t \in Txns : Served(t) /\ StillAllowed(t)

PluginsInv == UpdatesInv /\ AllMet
===============================================================================
