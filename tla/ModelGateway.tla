---------------------------- MODULE ModelGateway ----------------------------
(***************************************************************************)
(* Calls of model providers through packages/agent-gateway/src/gateway.ts. *)
(* A provider's answer, the call's own timer and the caller's abort race,  *)
(* and the answer is then checked.  The span that packages/telemetry keeps *)
(* of a call must say what the caller was told.                            *)
(*                                                                         *)
(* A timer is a task of its own and cannot run between the end of the race *)
(* and the code that awaits it; an abort signal of the caller can.  An     *)
(* answer is reduced to the first check it fails; texts and content        *)
(* capture are left out.                                                   *)
(***************************************************************************)
EXTENDS Naturals, FiniteSets

CONSTANTS
  Calls,
  Names,           \* names that providers may be registered under
  ProviderClasses, \* error classes of the providers' own errors: any strings
  Pending, Aborted, Returned \* model values: not settled yet; settled by an
                   \* abort; the caller got the value it asked for

\* What a request may be short of, and what a provider may do with it.
RequestKinds == {"valid", "unknown provider", "invalid budget", "invalid schema"}
Answers == {"good", "invalid metadata", "over budget", "not json", "off schema"}
ErrorClasses ==
  {"MODEL_PROVIDER_NOT_FOUND", "MODEL_REQUEST_INVALID", "MALFORMED_JSON", "SCHEMA_VIOLATION",
   "TOKEN_BUDGET_EXCEEDED", "PROVIDER_TIMEOUT", "PROVIDER_FAILURE", "CANCELLED"}

\* A provider may throw a ModelProviderError or a ModelGatewayError, with whatever
\* class it likes, one of the gateway's own too, or any other error.
Answered == [by : {"answer"}, what : Answers]
NamedFailures == [by : {"ModelProviderError", "ModelGatewayError"}, what : ProviderClasses]
OtherFailures == [by : {"other error"}, what : {"unnamed"}]
Outcomes == Answered \cup NamedFailures \cup OtherFailures

ASSUME PendingAssumption ==
  /\ {Pending, Returned} \cap (ErrorClasses \cup ProviderClasses) = {}
  /\ Pending # Returned
  /\ {Pending, Aborted} \cap Outcomes = {} /\ Pending # Aborted

VARIABLES
  providers, \* names registered with the gateway
  race,      \* call -> Pending, or what the race was settled by
  timer,     \* call -> "off", "armed", "fired" or "cleared"
  aborted,   \* call -> whether its caller aborted
  span,      \* call -> "none", "open", "ok" or "error"
  usage,     \* call -> whether the tokens spent are on its span
  told       \* call -> Pending, Returned or the class of the error its caller got

modelVars == <<providers, race, timer, aborted, span, usage, told>>

ModelTypeOK ==
  /\ providers \subseteq Names
  /\ race \in [Calls -> {Pending, Aborted} \cup Outcomes]
  /\ timer \in [Calls -> {"off", "armed", "fired", "cleared"}]
  /\ aborted \in [Calls -> BOOLEAN]
  /\ span \in [Calls -> {"none", "open", "ok", "error"}]
  /\ usage \in [Calls -> BOOLEAN]
  /\ told \in [Calls -> {Pending, Returned} \cup ErrorClasses \cup ProviderClasses]

\* A gateway is built of uniquely named providers.
ModelInit ==
  /\ providers \in (SUBSET Names) \ {{}}
  /\ race = [c \in Calls |-> Pending]
  /\ timer = [c \in Calls |-> "off"]
  /\ aborted = [c \in Calls |-> FALSE]
  /\ span = [c \in Calls |-> "none"]
  /\ usage = [c \in Calls |-> FALSE]
  /\ told = [c \in Calls |-> Pending]

\* A call refused before its span starts.
Refuse(c, name, kind) ==
  /\ timer[c] = "off" /\ told[c] = Pending
  /\ name \notin providers \/ kind # "valid"
  /\ told' = [told EXCEPT ![c] =
                IF name \notin providers THEN "MODEL_PROVIDER_NOT_FOUND" ELSE "MODEL_REQUEST_INVALID"]
  /\ UNCHANGED <<providers, race, timer, aborted, span, usage>>

\* The span and the timer start and the provider is called, even when the
\* caller has aborted: an answer that is there at once comes first in the race.
Invoke(c, name) ==
  /\ timer[c] = "off" /\ told[c] = Pending
  /\ name \in providers
  /\ span' = [span EXCEPT ![c] = "open"]
  /\ timer' = [timer EXCEPT ![c] = "armed"]
  /\ \E first \in {Pending} \cup Outcomes :
       race' = [race EXCEPT ![c] = IF first = Pending /\ aborted[c] THEN Aborted ELSE first]
  /\ UNCHANGED <<providers, aborted, usage, told>>

\* An answer, or a failure, that comes later; nobody hears it after an abort.
ProviderSettles(c) ==
  /\ timer[c] = "armed" /\ race[c] = Pending
  /\ \E outcome \in Outcomes : race' = [race EXCEPT ![c] = outcome]
  /\ UNCHANGED <<providers, timer, aborted, span, usage, told>>

\* Variant: the timer's signal is not among those the race listens to.
TimerUnheard(c) ==
  /\ timer[c] = "armed" /\ race[c] = Pending
  /\ timer' = [timer EXCEPT ![c] = "fired"]
  /\ UNCHANGED <<providers, race, aborted, span, usage, told>>

TimerFires(c) ==
  /\ timer[c] = "armed" /\ race[c] = Pending
  /\ timer' = [timer EXCEPT ![c] = "fired"]
  /\ race' = [race EXCEPT ![c] = Aborted]
  /\ UNCHANGED <<providers, aborted, span, usage, told>>

CallerAborts(c) ==
  /\ ~aborted[c] /\ told[c] = Pending
  /\ aborted' = [aborted EXCEPT ![c] = TRUE]
  /\ race' = [race EXCEPT ![c] = IF timer[c] = "armed" /\ @ = Pending THEN Aborted ELSE @]
  /\ UNCHANGED <<providers, timer, span, usage, told>>

\* What invokeWithDeadline throws when the race is lost: a timeout first, then
\* an abort, whatever the provider's own error was; then the class the provider
\* gave it, unchanged.
DeadlineError(c) ==
  IF timer[c] = "fired" THEN "PROVIDER_TIMEOUT"
  ELSE IF aborted[c] THEN "CANCELLED"
  ELSE IF race[c] \in NamedFailures THEN race[c].what
  ELSE "PROVIDER_FAILURE"

\* What the checks of an answer make of it, in their order.
Checked(answer) ==
  CASE answer = "good" -> Returned
    [] answer = "invalid metadata" -> "PROVIDER_FAILURE"
    [] answer = "over budget" -> "TOKEN_BUDGET_EXCEEDED"
    [] answer = "not json" -> "MALFORMED_JSON"
    [] answer = "off schema" -> "SCHEMA_VIOLATION"

\* What the gateway says of an answer whose tokens it has counted.
Refusals == {"MALFORMED_JSON", "SCHEMA_VIOLATION", "TOKEN_BUDGET_EXCEEDED"}

\* Variant: a span is ended as soon as the provider has answered.
SpanOfAnswer(outcome) == IF outcome \in {Returned} \cup Refusals THEN "ok" ELSE "error"

\* What a span says of an outcome: endSuccess or endError.
SpanOf(outcome) == IF outcome = Returned THEN "ok" ELSE "error"

\* The code behind the await: the timer is cleared, the answer checked, the
\* span ended and the caller told.
Settle(c) ==
  /\ timer[c] \in {"armed", "fired"} /\ race[c] # Pending
  /\ LET outcome == IF race[c] \in Answered THEN Checked(race[c].what) ELSE DeadlineError(c)
     IN /\ told' = [told EXCEPT ![c] = outcome]
        /\ span' = [span EXCEPT ![c] = SpanOf(outcome)]
  /\ usage' = [usage EXCEPT ![c] = race[c] \in Answered /\ race[c].what # "invalid metadata"]
  /\ timer' = [timer EXCEPT ![c] = "cleared"]
  /\ UNCHANGED <<providers, race, aborted>>

ModelNext ==
  \E c \in Calls :
    \/ \E name \in Names, kind \in RequestKinds : Refuse(c, name, kind)
    \/ \E name \in Names : Invoke(c, name)
    \/ ProviderSettles(c)
    \/ TimerFires(c)
    \/ CallerAborts(c)
    \/ Settle(c)

\* Timers fire and the code behind an await runs; a provider may never answer.
ModelFairness == \A c \in Calls : WF_modelVars(TimerFires(c)) /\ WF_modelVars(Settle(c))
ModelSpec == ModelInit /\ [][ModelNext]_modelVars /\ ModelFairness

-----------------------------------------------------------------------------
\* The span of a call is open while the call is under way and ends the way the
\* caller was told.  A class by itself proves nothing, a provider may name any;
\* but tokens are on the span exactly of a call that returned or whose answer the
\* gateway itself refused, a timeout or a cancellation that the provider did not
\* name was one, and a caller that aborted is never told the provider's own class
\* (gateway.ts:87-98, 209, 217).
SpansTellTheOutcome ==
  \A c \in Calls :
    /\ (span[c] = "open") <=> (timer[c] \in {"armed", "fired"})
    /\ (span[c] = "ok") <=> (told[c] = Returned)
    /\ span[c] \in {"ok", "error"} =>
         LET named == race[c] \in NamedFailures
         IN /\ usage[c] <=> (told[c] = Returned \/ (told[c] \in Refusals /\ ~named))
            /\ told[c] = "PROVIDER_TIMEOUT" => named \/ race[c] = Aborted
            /\ told[c] = "CANCELLED" => named \/ aborted[c]
            /\ named /\ aborted[c] => told[c] = "CANCELLED"

\* A call that reached its provider comes back, whether or not the provider
\* answers and whoever gave a signal (gateway.ts:71).
ModelCallsSettle == \A c \in Calls : span[c] = "open" ~> told[c] # Pending
=============================================================================
