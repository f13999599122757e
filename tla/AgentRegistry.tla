--------------------------- MODULE AgentRegistry ----------------------------
(***************************************************************************)
(* The agent registry (agents/registry.py): the agents a process has       *)
(* loaded, revoke, decommission and restore, and the file their effect is  *)
(* kept in for other processes.                                            *)
(*                                                                         *)
(* The definitions of the agents are all active and never change; matching *)
(* agents to capabilities, costs and teams only narrows the active ones.   *)
(***************************************************************************)
EXTENDS Naturals, FiniteSets

CONSTANTS
  Agents,
  Loaders,      \* processes that have a registry
  MaxDecisions, \* bound of the model: revocations and restorations
  MaxLoads,     \* bound of the model: registries loaded
  Nil,          \* a registry that is not loaded
  Torn          \* a file cut off by a failed or killed write

VARIABLES
  revocationFile, \* the file: the status of the agents it names, or Torn
  agents,         \* agents[p]: the status of every agent in process p, or Nil
  revocations,    \* revocations[p]: self._revocations
  decisions,      \* history: what was last decided about an agent
  decided, loads, \* history: how many decisions and loads
  spoilt          \* history: has a write been cut off?

registryVars == <<revocationFile, agents, revocations, decisions, decided, loads, spoilt>>

Off == {"revoked", "decommissioned"}

NoRevocations == [a \in Agents |-> "none"]

Init ==
  /\ revocationFile = NoRevocations
  /\ agents = [p \in Loaders |-> Nil]
  /\ revocations = [p \in Loaders |-> NoRevocations]
  /\ decisions = [a \in Agents |-> "active"]
  /\ decided = 0
  /\ loads = 0
  /\ spoilt = FALSE

\* _load_revocations: a file that is not JSON holds none.
Persisted == IF revocationFile = Torn THEN NoRevocations ELSE revocationFile

\* load: the definitions, and over them the persisted revocations.  They are not
\* put into self._revocations.
Load(p) ==
  /\ agents[p] = Nil
  /\ loads < MaxLoads
  /\ loads' = loads + 1
  /\ agents' = [agents EXCEPT ![p] =
       [a \in Agents |-> IF Persisted[a] \in Off THEN Persisted[a] ELSE "active"]]
  /\ revocations' = [revocations EXCEPT ![p] = NoRevocations]
  /\ UNCHANGED <<revocationFile, decisions, decided, spoilt>>

\* The whole dictionary is written in place; an OSError is only logged.
SaveRevocations(p) ==
  \/ revocationFile' = revocations'[p] /\ UNCHANGED spoilt
  \/ revocationFile' \in {revocationFile, Torn} /\ spoilt' = TRUE

Decide(p, a, status) ==
  /\ agents[p] # Nil
  /\ decided < MaxDecisions
  /\ decided' = decided + 1
  /\ decisions' = [decisions EXCEPT ![a] = status]
  /\ agents' = [agents EXCEPT ![p][a] = status]
  /\ revocations' = [revocations EXCEPT ![p][a] = IF status = "active" THEN "none" ELSE status]
  /\ SaveRevocations(p)
  /\ UNCHANGED loads

Revoke(p, a) == Decide(p, a, "revoked")

Decommission(p, a) == Decide(p, a, "decommissioned")

RestoreAgent(p, a) == Decide(p, a, "active")

\* The process ends.
Quit(p) ==
  /\ agents[p] # Nil
  /\ agents' = [agents EXCEPT ![p] = Nil]
  /\ revocations' = [revocations EXCEPT ![p] = NoRevocations]
  /\ UNCHANGED <<revocationFile, decisions, decided, loads, spoilt>>

\* match, list_agents: the agents that are offered.
Offered(p) == {a \in Agents : agents[p] # Nil /\ agents[p][a] = "active"}

Next ==
  \E p \in Loaders :
    \/ Load(p)
    \/ \E a \in Agents : Revoke(p, a) \/ Decommission(p, a) \/ RestoreAgent(p, a)
    \/ Quit(p)

Spec == Init /\ [][Next]_registryVars

-----------------------------------------------------------------------------
(* Properties.                                                             *)

\* Type invariant.
TypeOK ==
  /\ revocationFile = Torn \/ revocationFile \in [Agents -> Off \union {"none"}]
  /\ \A p \in Loaders : agents[p] = Nil \/ agents[p] \in [Agents -> Off \union {"active"}]
  /\ revocations \in [Loaders -> [Agents -> Off \union {"none"}]]
  /\ decisions \in [Agents -> Off \union {"active"}]
  /\ decided \in 0..MaxDecisions
  /\ loads \in 0..MaxLoads
  /\ spoilt \in BOOLEAN

\* agents/registry.py:43 "a registry that is reloaded in a new process keeps the
\* state of revocations": a registry does not load an agent as active that was
\* revoked and not restored since, unless a write of the file failed.
RevocationsKept ==
  [][\A p \in Loaders : Load(p) /\ ~spoilt =>
       \A a \in Agents : decisions[a] \in Off => a \notin Offered(p)']_registryVars
=============================================================================
