---------------------------- MODULE MCToolchain -----------------------------
(***************************************************************************)
(* The tools that run before anything is built: the conversion of a query  *)
(* result, the rewriting of the source, the generation of policies and of  *)
(* bridges.  They share files, not state, and each is a program of its own:*)
(* a behavior is one of a single tool, and the variables of the others     *)
(* stay at an initial state of theirs.                                     *)
(***************************************************************************)
EXTENDS MCSourceInstrumentation, MCGeneratedPolicies, MCCodeqlPolicy, MCBridgeTransforms

VARIABLE part   \* the tool: "codeql", "source", "generated" or "bridge"

toolchainVars == <<part, codeqlVars, sourceVars, generatedVars, transformVars>>

(* A tool that rests has one of its inputs and does nothing with it. *)
CodeqlRests == rows = {} /\ CodeqlInit
SourceRests ==
  /\ file = CHOOSE f \in Files : f.backend = "nacl" /\ f.policy = <<>>
  /\ SourceInit
GeneratedRests == project = (CHOOSE p \in Projects : Len(p) = 1) /\ GeneratedInit
TransformRests == tool = "p9a" /\ bridge = Bridge /\ TransformInit

ToolchainInit ==
  \/ part = "codeql" /\ SourceRests /\ GeneratedRests /\ TransformRests /\ CodeqlInit
  \/ part = "source" /\ CodeqlRests /\ GeneratedRests /\ TransformRests /\ SourceInit
  \/ part = "generated" /\ CodeqlRests /\ SourceRests /\ TransformRests /\ GeneratedInit
  \/ part = "bridge" /\ CodeqlRests /\ SourceRests /\ GeneratedRests /\ TransformInit

ToolchainNext ==
  \/ part = "codeql" /\ CodeqlNext /\ UNCHANGED <<part, sourceVars, generatedVars, transformVars>>
  \/ part = "source" /\ SourceNext /\ UNCHANGED <<part, codeqlVars, generatedVars, transformVars>>
  \/ part = "generated" /\ GeneratedNext /\ UNCHANGED <<part, codeqlVars, sourceVars, transformVars>>
  \/ part = "bridge" /\ TransformNext /\ UNCHANGED <<part, codeqlVars, sourceVars, generatedVars>>

ToolchainSpec == ToolchainInit /\ [][ToolchainNext]_toolchainVars
=============================================================================
