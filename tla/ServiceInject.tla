--------------------------- MODULE ServiceInject ---------------------------
(***************************************************************************)
(* auto_inject_service (summer/src/plugin/service.rs): install every       *)
(* #[derive(Service)] struct as a component.  A round walks over the       *)
(* pending registrars in the order of the inventory; install_service fails *)
(* while a component or a configuration of the service is missing, and the *)
(* registrar is kept for the next round.  After a round without progress   *)
(* the first registrar is run again and its result is the result.          *)
(*                                                                         *)
(* The generated install_service (summer-macros/src/inject.rs) reads the   *)
(* component registry for each field: a Component field must be there, an  *)
(* Option field gets what is there at this moment, a LazyComponent field   *)
(* reads nothing.                                                          *)
(***************************************************************************)
EXTENDS Naturals, SequencesExt

CONSTANTS
  Service,    \* the services, each a component type
  External    \* the component types that only plugins register

ASSUME ServiceAssumption ==
  /\ IsFiniteSet(Service)
  /\ Service \cap External = {}

Component == Service \cup External

VARIABLES
  needs,         \* needs[s]: types of the Component fields of s (fixed)
  wants,         \* wants[s]: types of the Option fields of s (fixed)
  misconfigured, \* services with a Config field that cannot be read (fixed)
  base,          \* components registered when the injection starts (fixed)
  phase,         \* "rounds", or the result: "ok", "err" or "panic"
  components,    \* app.components
  pending,       \* the rest of the current round
  next_pending,  \* the registrars that failed in this round
  progress_made,
  installed,     \* history: the services installed, in order
  given          \* history: given[s], the Option fields of s that got Some

fixedVars == <<needs, wants, misconfigured, base>>
roundVars == <<pending, next_pending, progress_made>>
regVars   == <<components, installed, given>>
vars      == <<fixedVars, phase, roundVars, regVars>>

TypeOK ==
  /\ needs \in [Service -> SUBSET Component]
  /\ wants \in [Service -> SUBSET Component]
  /\ misconfigured \in SUBSET Service
  /\ base \in SUBSET Component
  /\ phase \in {"rounds", "ok", "err", "panic"}
  /\ components \in SUBSET Component
  /\ pending \in Seq(Service)
  /\ next_pending \in Seq(Service)
  /\ progress_made \in BOOLEAN
  /\ installed \in Seq(Service)
  /\ given \in [Service -> SUBSET Component]

\* A field is either required, optional or lazy; no struct contains itself.
Init ==
  /\ needs \in {f \in [Service -> SUBSET Component] : \A s \in Service : s \notin f[s]}
  /\ wants \in {f \in [Service -> SUBSET Component] :
                  \A s \in Service : s \notin f[s] /\ f[s] \cap needs[s] = {}}
  /\ misconfigured \in SUBSET Service
  /\ base \in SUBSET Component
  /\ phase = "rounds"
  /\ components = base
  /\ pending \in SetToSeqs(Service)
  /\ next_pending = <<>>
  /\ progress_made = FALSE
  /\ installed = <<>>
  /\ given = [s \in Service |-> {}]

-----------------------------------------------------------------------------
\* Mutant of Buildable: get_component in place of try_get_component(..)?.
BuildableUnchecked(s) == s \notin misconfigured

\* Service::build(app) returns Ok.
Buildable(s) == s \notin misconfigured /\ needs[s] \subseteq components

\* Mutant of Given: read App::global(), which is empty during the build.
GivenGlobal(s) == {}

\* What get_component returns for the Option fields.
Given(s) == wants[s] \cap components

\* app.add_component(service), which panics if the type is registered.
Add(s) ==
  /\ s \notin components
  /\ components' = components \cup {s}
  /\ installed' = Append(installed, s)
  /\ given' = [given EXCEPT ![s] = Given(s)]

InstallFirst ==
  /\ phase = "rounds" /\ pending # <<>>
  /\ Buildable(Head(pending))
  /\ Add(Head(pending))
  /\ pending' = Tail(pending)
  /\ progress_made' = TRUE
  /\ UNCHANGED <<fixedVars, phase, next_pending>>

AddPanics ==
  /\ phase = "rounds" /\ pending # <<>>
  /\ Buildable(Head(pending)) /\ Head(pending) \in components
  /\ phase' = "panic"
  /\ UNCHANGED <<fixedVars, roundVars, regVars>>

\* install_service returned Err: next_pending.push(registrar)
PostponeFirst ==
  /\ phase = "rounds" /\ pending # <<>>
  /\ ~ Buildable(Head(pending))
  /\ next_pending' = Append(next_pending, Head(pending))
  /\ pending' = Tail(pending)
  /\ UNCHANGED <<fixedVars, phase, progress_made, regVars>>

\* Mutant of NextRound: progress_made is not reset.
NextRoundStale ==
  /\ phase = "rounds" /\ pending = <<>> /\ next_pending # <<>>
  /\ progress_made
  /\ pending' = next_pending
  /\ next_pending' = <<>>
  /\ UNCHANGED <<fixedVars, phase, progress_made, regVars>>

NextRound ==
  /\ phase = "rounds" /\ pending = <<>> /\ next_pending # <<>>
  /\ progress_made
  /\ pending' = next_pending
  /\ next_pending' = <<>>
  /\ progress_made' = FALSE
  /\ UNCHANGED <<fixedVars, phase, regVars>>

\* Mutant of Retry: the loop gives up but answers Ok.
RetryOk ==
  /\ phase = "rounds" /\ pending = <<>> /\ next_pending # <<>>
  /\ ~ progress_made
  /\ phase' = "ok" /\ UNCHANGED regVars
  /\ UNCHANGED <<fixedVars, roundVars>>

\* No progress: return first.install_service(app).  Were it to succeed, the
\* others would stay out although the result is Ok.
Retry ==
  /\ phase = "rounds" /\ pending = <<>> /\ next_pending # <<>>
  /\ ~ progress_made
  /\ LET first == Head(next_pending) IN
       IF Buildable(first)
         THEN Add(first) /\ phase' = "ok"
         ELSE phase' = "err" /\ UNCHANGED regVars
  /\ UNCHANGED <<fixedVars, roundVars>>

\* pending is empty after the round.
Finish ==
  /\ phase = "rounds" /\ pending = <<>> /\ next_pending = <<>>
  /\ phase' = "ok"
  /\ UNCHANGED <<fixedVars, roundVars, regVars>>

Next ==
  \/ InstallFirst
  \/ AddPanics
  \/ PostponeFirst
  \/ NextRound
  \/ Retry
  \/ Finish

Spec == Init /\ [][Next]_vars

\* One call of a synchronous function: it does not stop halfway.
FairSpec == Spec /\ WF_vars(Next)

-----------------------------------------------------------------------------
(***************************************************************************)
(* Properties.                                                             *)
(***************************************************************************)

\* Services none of which can be the first: a configuration is missing, or a
\* component that nobody provides, or one of the services themselves.
Blocked(S) ==
  /\ S # {}
  /\ \A s \in S :
       \/ s \in misconfigured
       \/ needs[s] \cap S # {}
       \/ ~ (needs[s] \subseteq Service \cup base)

\* The result depends on the services and never on the order of the
\* inventory: Ok only with every service installed, an error only if some
\* services block each other, a panic only if a plugin took a service's type.
InjectionOutcome ==
  /\ phase = "ok" => ToSet(installed) = Service
  /\ phase = "err" => \E S \in SUBSET Service : Blocked(S)
  /\ phase = "panic" => Service \cap base # {}

\* Service::build never sees a registry without what it needs: each service
\* is installed after the services it needs, and once.
NeedsInstalledFirst ==
  \A i \in DOMAIN installed :
    /\ needs[installed[i]] \subseteq base \cup {installed[j] : j \in 1..(i - 1)}
    /\ \A j \in DOMAIN installed : installed[i] = installed[j] => i = j

(***************************************************************************)
(* The inductive invariant behind the two: the registrars are installed,   *)
(* pending or postponed, the registry holds what the plugins and the       *)
(* installed services put there, and a registrar postponed in a round      *)
(* without progress would fail again.                                      *)
(***************************************************************************)
RoundPartition ==
  phase = "rounds" =>
    /\ Service = ToSet(installed) \cup ToSet(pending) \cup ToSet(next_pending)
    /\ ToSet(installed) \cap ToSet(pending) = {}
    /\ ToSet(installed) \cap ToSet(next_pending) = {}
    /\ ToSet(pending) \cap ToSet(next_pending) = {}
    /\ IsInjective(pending) /\ IsInjective(next_pending)

NoProgressNoneBuildable ==
  phase = "rounds" /\ ~ progress_made => \A s \in ToSet(next_pending) : ~ Buildable(s)

InjectInv ==
  /\ RoundPartition
  /\ NoProgressNoneBuildable
  /\ components = base \cup ToSet(installed)
  /\ NeedsInstalledFirst
  /\ InjectionOutcome

\* Components of plugins are registered before any service is built, so an
\* Option field of such a type is Some whenever the plugin was there.
PluginOptionsGiven ==
  \A s \in ToSet(installed) : wants[s] \cap base \subseteq given[s]

\* The rounds end, whatever the services need.
InjectionEnds == <>(phase # "rounds")
=============================================================================
