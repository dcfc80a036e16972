---------------------------------- MODULE Gate ----------------------------------
(***************************************************************************)
(* Firings of one hook point or event (hooks.run, events._dispatch) in the *)
(* transactions of business requests, while updates of the plugins commit. *)
(* Every plugin binds one handler; the handlers run in the order of        *)
(* bootstrap_plugins, each through execute_with_plugin_gate_unchecked,     *)
(* which reads the plugin's row anew and without a lock.                   *)
(***************************************************************************)
EXTENDS Plugins, Naturals, FiniteSets

CONSTANTS
    Firings,
    Rank        \* Plugins -> Nat: the place of each name in the alphabet

ASSUME GateAssumption ==
    /\ IsFiniteSet(Plugins)
    /\ Rank \in [Plugins -> Nat]
    /\ \A p, q \in Plugins : Rank[p] = Rank[q] => p = q

VARIABLES
    firing,     \* where each firing is
    touched     \* history: the plugins updated since it began

gateVars == <<firing, touched>>

Least(S) == CHOOSE p \in S : \A q \in S : Rank[p] <= Rank[q]

\* Mutant: handlers are registered in the order of their plugins' names.
FirstByName(left) == Least(left)

\* _topological_sort_manifests: Kahn's algorithm, the first name among those
\* whose prerequisites have been taken. The loaded plugins stay the same while a
\* firing is under way: it takes them in that order.
First(left) == Least({p \in left : Requires[p] \cap left = {}})

Underway == {"ask", "invoke"}

NoFiring == [phase |-> "idle", left |-> {}, config |-> NoRow, ran |-> {}]

GateInit ==
    /\ Init
    /\ firing = [f \in Firings |-> NoFiring]
    /\ touched = [f \in Firings |-> {}]

EndFiring(f, how) == firing' = [firing EXCEPT ![f] = [NoFiring EXCEPT !.phase = how]]

\* On to the next handler; with none left the request goes on.
Onward(f, left, ran) ==
    IF left = {} THEN EndFiring(f, "done")
    ELSE firing' = [firing EXCEPT ![f] = [phase |-> "ask", left |-> left,
                                          config |-> NoRow, ran |-> ran]]

Fire(f) ==
    /\ firing[f].phase = "idle"
    /\ Onward(f, loaded, {})

Handler(f) == First(firing[f].left)

Rest(f) == firing[f].left \ {Handler(f)}

\* The gate: a disabled plugin is passed over, a configuration that no longer
\* passes its schema fails the request.
Ask(f) ==
    /\ firing[f].phase = "ask"
    /\ IF ~Enabled(Handler(f)) THEN Onward(f, Rest(f), firing[f].ran)
       ELSE IF Config(Handler(f)) \notin ValidConfigs THEN EndFiring(f, "broken")
       ELSE firing' = [firing EXCEPT ![f].phase = "invoke", ![f].config = Config(Handler(f))]

\* The handler runs with that configuration; it may raise, a veto.
Invoke(f) ==
    /\ firing[f].phase = "invoke"
    /\ Onward(f, Rest(f), firing[f].ran \cup {Handler(f)}) \/ EndFiring(f, "vetoed")

\* The history of every firing under way, as part of each step.
Observe ==
    touched' = [f \in Firings |->
        IF firing'[f].phase \notin Underway THEN {}
        ELSE touched[f] \cup {p \in Plugins : rows'[p] # rows[p]}]

\* The process takes its requests with it.
RestartGate(off) ==
    /\ Restart(off)
    /\ firing' = [f \in Firings |->
         IF firing[f].phase \in Underway THEN [NoFiring EXCEPT !.phase = "dead"] ELSE firing[f]]

Update(t) == (\E r \in Requests : Begin(t, r)) \/ Advance(t) \/ Rollback(t)

GateNext ==
    /\ \/ \E t \in Txns : Update(t) /\ UNCHANGED firing
       \/ \E off \in Settings : RestartGate(off)
       \/ \E f \in Firings : (Fire(f) \/ Ask(f) \/ Invoke(f)) /\ UNCHANGED vars
    /\ Observe

\* A statement runs when the lock it waits for is free.
GateFairness ==
    \A t \in Txns : WF_<<vars, gateVars>>(Advance(t) /\ UNCHANGED firing /\ Observe)

GateSpec == GateInit /\ [][GateNext]_<<vars, gateVars>> /\ GateFairness

-------------------------------------------------------------------------------
\* ADR-010 2.4, at the gate: although the gate asks for each plugin in turn, with a
\* snapshot each and no lock, a handler runs only after the handlers of its
\* plugin's prerequisites ran in the same firing, unless an update of that
\* prerequisite committed after the firing began; and no firing meets a stored
\* configuration that its schema refuses.
PrerequisitesRunFirst ==
    \A f \in Firings :
        /\ firing[f].phase # "broken"
        /\ firing[f].phase = "invoke" =>
              Requires[Handler(f)] \subseteq firing[f].ran \cup touched[f]
-------------------------------------------------------------------------------
(* The inductive invariant. *)

FiringTypeOK ==
    /\ firing \in [Firings -> [phase  : {"idle", "ask", "invoke", "done", "broken", "vetoed", "dead"},
                               left   : SUBSET Plugins,
                               config : ValidConfigs \cup {NoRow},
                               ran    : SUBSET Plugins]]
    /\ touched \in [Firings -> SUBSET Plugins]

\* A plugin whose turn has been ran its handler or was passed over, and is
\* disabled still unless it has been updated since.
TurnTaken(f) ==
    firing[f].phase \in Underway =>
        /\ firing[f].left # {} /\ firing[f].left \subseteq loaded
        /\ \A p \in loaded \ firing[f].left :
              Enabled(p) => p \in firing[f].ran \cup touched[f]

GateInv ==
    /\ PluginsInv /\ FiringTypeOK /\ PrerequisitesRunFirst
    /\ \A f \in Firings : TurnTaken(f)
===============================================================================
