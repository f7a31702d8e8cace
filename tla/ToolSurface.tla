---------------------------- MODULE ToolSurface ----------------------------
(***************************************************************************)
(* What a dispatch may reach: the operations the kernel grants it          *)
(* (core/src/kernel.ts, agents/src/dispatch/tool-grants.ts) and the        *)
(* comparison of a session's effective tool surface with them              *)
(* (agents/src/substrate/surface.ts).  The surface is an allowlist.        *)
(*                                                                         *)
(* A tool is a member of Tools; on the wire it is <<"agentos", tool>> when *)
(* this dispatch's own server serves it and <<"host", tool>> when it does  *)
(* not.                                                                    *)
(***************************************************************************)
EXTENDS Naturals, Sequences, FiniteSets

CONSTANTS Tools,
          SpawnNames,     \* tools named by a member of SPAWNING_TOOL_NAMES
          SpawnFragments  \* tools whose name contains a spawning fragment

ASSUME SpawnAssumption == SpawnNames \cup SpawnFragments \subseteq Tools

(* An operation of the adapter registry, as its descriptor states it.        *)
Operation == [adapter : STRING, tool : Tools, mutating : BOOLEAN]

Qualify(tool) == <<"agentos", tool>>
OfHost(tool) == <<"host", tool>>

(* Only a whole name is one of the names; a fragment is found in any name.   *)
SpawningTools == SpawnNames \cup SpawnFragments
IsSpawningOnWire(name) ==
  \/ name[1] = "host" /\ name[2] \in SpawningTools
  \/ name[1] = "agentos" /\ name[2] \in SpawnFragments

(* grantToolsForSpec: what the role's adapters offer and its policy allows.  *)
GrantToolsForSpec(operations, spec) ==
  {o \in operations : /\ o.adapter \in spec.permitted_adapters
                      /\ ~o.mutating \/ ~spec.read_only}

(* grantTools: a stage that does not mutate is granted no mutation.          *)
GrantTools(operations, spec, stageMutating) ==
  {o.tool : o \in {g \in GrantToolsForSpec(operations, spec) :
                     stageMutating \/ ~g.mutating}}

Unexpected(grants, observed) ==
  \/ ~observed.tools \subseteq {Qualify(t) : t \in grants}
  \/ observed.agents > 0
  \/ \E t \in grants : t \in SpawningTools
  \/ \E n \in observed.tools : IsSpawningOnWire(n)

Missing(grants, observed) == {t \in grants : Qualify(t) \notin observed.tools}

EvaluateSurface(grants, observed) ==
  CASE ~observed.reported -> "UNVERIFIABLE"
    [] observed.reported /\ Unexpected(grants, observed) -> "UNEXPECTED_TOOLS"
    [] /\ observed.reported
       /\ ~Unexpected(grants, observed)
       /\ Missing(grants, observed) # {} -> "MISSING_TOOLS"
    [] OTHER -> "CONFORMS"

(* permitTool: the host's own permission callback, on wire names.            *)
PermitTool(grants, name) == name \in {Qualify(t) : t \in grants}

(* AdapterToolServer.#call: the server of this session serves its tools.     *)
ServesTool(grants, name) == name[1] = "agentos" /\ name[2] \in grants
=============================================================================
