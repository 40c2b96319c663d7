---------------------------- MODULE ToolGateway ----------------------------
(***************************************************************************)
(* One call of a command line tool through packages/tool-gateway: the      *)
(* gateway authorises what the tool plans to use, the launcher authorises  *)
(* it again, collects the leases of its secrets and hands a sandbox what   *)
(* it may see.  Between two awaits other steps of the node may move the    *)
(* links of the workspace.                                                 *)
(*                                                                         *)
(* Paths are numbers in the order of their names; the patterns of a grant  *)
(* are the paths they match; a URL is its origin and a bad one is not      *)
(* granted.  One authorizeFilesystem resolves its path at one moment.      *)
(***************************************************************************)
EXTENDS Integers, FiniteSets

CONSTANTS
  NumPaths,            \* workspace paths 1..NumPaths
  Outside, Missing,    \* model values: a place outside the workspace, nothing
  Origins, References, \* network origins and secrets a tool may ask for
  Variables,           \* environment variables a broker may choose
  Requests,            \* calls: what is granted, planned and given
  MaxMoves             \* bound: links moved during a call

Paths == 1..NumPaths
Grants == [read : SUBSET Paths, write : SUBSET Paths, network : SUBSET Origins, secretRefs : SUBSET References]

ASSUME ToolAssumption ==
  /\ NumPaths \in Nat /\ MaxMoves \in Nat
  /\ \A r \in Requests :
       r.grant \in Grants /\ r.plan \in Grants /\ {r.tool, r.input, r.pinned, r.limits} \subseteq BOOLEAN

VARIABLES
  request,     \* the call
  links,       \* path -> the path it leads to, itself when it is no link
  moves,
  at,          \* where the call is
  todo,        \* accesses still to authorise: <<access, path>>
  paths,       \* AuthorizedFilesystemPath: [access, canonical]
  environment, \* the leases in the sandbox's environment: variable -> reference
  redaction,   \* the references whose values are redacted
  sandbox,     \* what the backend was given, none before it runs
  toolSpan,    \* "open", "ok" or "error"
  answer       \* what the caller was told, "" before that

toolVars == <<request, links, moves, at, todo, paths, environment, redaction, sandbox, toolSpan, answer>>
None == [given |-> FALSE]

Range1(f) == {f[v] : v \in DOMAIN f}

ToolTypeOK ==
  /\ request \in Requests
  /\ links \in [Paths -> Paths \cup {Outside, Missing}]
  /\ moves \in 0..MaxMoves
  /\ at \in {"gateway", "launcher", "secrets", "run", "output", "done"}
  /\ todo \subseteq {"read", "write"} \X Paths
  /\ paths \subseteq [access : {"read", "write"}, canonical : Paths]
  /\ DOMAIN environment \subseteq Variables /\ Range1(environment) \subseteq References
  /\ redaction \subseteq References
  /\ toolSpan \in {"open", "ok", "error"}
  /\ answer \in {"", "output", "AUTHORIZATION", "VALIDATION", "TOOL_EXECUTION"}

Accesses(plan) == ({"read"} \X plan.read) \cup ({"write"} \X plan.write)

\* Reads come first, each kind in the order of its paths.
ComesFirst(next) ==
  \A other \in todo :
    \/ next[1] = "read" /\ other[1] = "write"
    \/ next[1] = other[1] /\ next[2] <= other[2]

Fail(class) ==
  /\ at' = "done" /\ answer' = class /\ toolSpan' = "error"
  /\ UNCHANGED <<request, links, moves, todo, paths, environment, redaction, sandbox>>

-----------------------------------------------------------------------------
\* invoke up to the plan of the adapter; a tool that is not registered has no
\* span and is left out.
ToolInit ==
  /\ request \in Requests
  /\ links \in [Paths -> Paths \cup {Outside, Missing}]
  /\ moves = 0
  /\ at = "gateway"
  /\ todo = Accesses(request.plan)
  /\ paths = {}
  /\ environment = [v \in {} |-> v]
  /\ redaction = {}
  /\ sandbox = None
  /\ toolSpan = "open"
  /\ answer = ""

\* The workspace cannot be resolved, authorizeTool denies the tool, or the
\* input is not what its schema says.
RejectCall ==
  /\ at = "gateway" /\ paths = {}
  /\ \/ Fail("TOOL_EXECUTION")
     \/ ~request.tool /\ Fail("AUTHORIZATION")
     \/ request.tool /\ ~request.input /\ Fail("VALIDATION")

\* realpath for a read; a write may be of a path that is not there yet.
Canonical(access, path) == IF links[path] = Missing /\ access = "write" THEN path ELSE links[path]

\* Variant: only the path that was asked for is compared with the grant.
AuthorizedAsAsked(access, path) ==
  path \in request.grant[access] /\ Canonical(access, path) \in Paths

\* authorizeFilesystem: the path and where it leads are both in the grant.
Authorized(access, path) ==
  path \in request.grant[access] /\ Canonical(access, path) \in request.grant[access]

\* One round of the loops of authorizePlan and of SandboxLauncher.run.
Authorize ==
  /\ at \in {"gateway", "launcher"} /\ request.tool /\ request.input
  /\ \E next \in todo :
       /\ ComesFirst(next)
       /\ IF Authorized(next[1], next[2])
            THEN /\ todo' = todo \ {next}
                 /\ paths' = paths \cup {[access |-> next[1], canonical |-> Canonical(next[1], next[2])]}
                 /\ UNCHANGED <<request, links, moves, at, environment, redaction, sandbox, toolSpan, answer>>
            ELSE Fail("AUTHORIZATION")

\* Behind the gateway's round come the network and the secrets, then the
\* launcher checks the image and starts over.
EnterLauncher ==
  /\ at = "gateway" /\ todo = {} /\ request.tool /\ request.input
  /\ IF ~(request.plan.network \subseteq request.grant.network
          /\ request.plan.secretRefs \subseteq request.grant.secretRefs)
       THEN Fail("AUTHORIZATION")
     ELSE IF ~request.pinned THEN Fail("TOOL_EXECUTION")
     ELSE /\ at' = "launcher"
          /\ todo' = Accesses(request.plan)
          /\ paths' = {}
          /\ UNCHANGED <<request, links, moves, environment, redaction, sandbox, toolSpan, answer>>

FinishPaths ==
  /\ at = "launcher" /\ todo = {}
  /\ at' = "secrets"
  /\ UNCHANGED <<request, links, moves, todo, paths, environment, redaction, sandbox, toolSpan, answer>>

\* A lease goes into a variable that no lease is in.
FreeVariable(env, variable) == variable \notin DOMAIN env

\* The reference was authorised above; the broker issues a lease, which may be refused: it is for another
\* reference, empty or over, or its variable is in use.
TakeLease ==
  /\ at = "secrets"
  /\ redaction # request.plan.secretRefs
  /\ \E variable \in Variables, valid \in BOOLEAN, reference \in request.plan.secretRefs \ redaction :
       IF valid /\ FreeVariable(environment, variable)
         THEN /\ environment' = [v \in DOMAIN environment \cup {variable} |->
                                   IF v = variable THEN reference ELSE environment[v]]
              /\ redaction' = redaction \cup {reference}
              /\ UNCHANGED <<request, links, moves, at, todo, paths, sandbox, toolSpan, answer>>
         ELSE Fail("TOOL_EXECUTION")

\* mergeMounts: one mount for a place, writable when any access to it writes.
Mounts == {[source |-> p.canonical,
            mode |-> IF \E q \in paths : q.canonical = p.canonical /\ q.access = "write" THEN "rw" ELSE "ro"]
           : p \in paths}

\* The limits are looked at only now, with the leases issued.
RunSandbox ==
  /\ at = "secrets" /\ redaction = request.plan.secretRefs
  /\ IF ~request.limits THEN Fail("TOOL_EXECUTION")
     ELSE /\ at' = "run"
          /\ sandbox' = [given |-> TRUE, mounts |-> Mounts, environment |-> environment,
                         origins |-> request.plan.network]
          /\ UNCHANGED <<request, links, moves, todo, paths, environment, redaction, toolSpan, answer>>

\* The command ends: it cannot be run, exits with an error, prints what is not
\* JSON or not what the tool's schema says, or answers.
EndSandbox ==
  /\ at = "run"
  /\ \/ Fail("TOOL_EXECUTION")
     \/ Fail("VALIDATION")
     \/ /\ at' = "done" /\ answer' = "output" /\ toolSpan' = "ok"
        /\ UNCHANGED <<request, links, moves, todo, paths, environment, redaction, sandbox>>

\* Another step of the node makes, moves or removes a link.
MoveLink ==
  /\ at # "done" /\ moves < MaxMoves
  /\ moves' = moves + 1
  /\ \E path \in Paths, target \in Paths \cup {Outside, Missing} :
       target # links[path] /\ links' = [links EXCEPT ![path] = target]
  /\ UNCHANGED <<request, at, todo, paths, environment, redaction, sandbox, toolSpan, answer>>

ToolNext ==
  \/ RejectCall \/ Authorize \/ EnterLauncher \/ FinishPaths
  \/ TakeLease \/ RunSandbox \/ EndSandbox \/ MoveLink

ToolSpec == ToolInit /\ [][ToolNext]_toolVars

-----------------------------------------------------------------------------
\* A sandbox sees only places its node was granted, may write only where it was
\* granted to write, wherever links led in the meantime, and its environment
\* holds one variable for every secret it asked for (sandbox.ts:128, 149;
\* capabilities.ts:149).
SandboxesGetWhatWasGranted ==
  sandbox.given =>
    /\ \A m \in sandbox.mounts :
         /\ m.source \in request.grant.read \cup request.grant.write
         /\ m.mode = "rw" => m.source \in request.grant.write
    /\ sandbox.origins \subseteq request.grant.network
    /\ Range1(sandbox.environment) = request.plan.secretRefs
    /\ Cardinality(DOMAIN sandbox.environment) = Cardinality(request.plan.secretRefs)
=============================================================================
