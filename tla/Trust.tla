------------------------------- MODULE Trust -------------------------------
(***************************************************************************)
(* The event-derived trust of a memory (engine.py, memory_trust_profile    *)
(* and reconcile_memory_state).  Trust is never stored: it is recomputed   *)
(* from the memory's observations as a weighted Beta posterior, and the    *)
(* recommendation it yields moves the lifecycle state.                     *)
(*                                                                         *)
(* The thresholds of policy.toml are percentages here and the posterior is *)
(* compared by cross-multiplication; with the shipped integer weights this *)
(* decides exactly what the division of the code decides.                  *)
(***************************************************************************)
EXTENDS Integers, Sequences, FiniteSets

CONSTANTS
    PriorAlpha, PriorBeta,          \* trust_prior_alpha, trust_prior_beta
    ExplicitWeight,                 \* trust_explicit_weight
    CorrectionWeight,               \* trust_correction_weight
    ConfirmationWeight,             \* trust_confirmation_weight
    RejectionWeight,                \* trust_rejection_weight
    AutoConfirm, Demote,            \* thresholds, in percent
    MinPositiveEvents,              \* trust_minimum_positive_events
    MinDistinctContexts,            \* trust_minimum_distinct_contexts
    NoContext                       \* an observation without a fingerprint

ASSUME TrustAssumption ==
    /\ PriorAlpha \in Nat /\ PriorBeta \in Nat
    /\ PriorAlpha + PriorBeta > 0
    /\ ExplicitWeight \in Nat /\ CorrectionWeight \in Nat
    /\ ConfirmationWeight \in Nat /\ RejectionWeight \in Nat
    /\ AutoConfirm \in 0 .. 100
    /\ Demote \in 0 .. AutoConfirm
    /\ MinPositiveEvents \in Nat /\ MinDistinctContexts \in Nat

State == {"candidate", "confirmed", "suppressed"}

Kind == {"explicit_teach", "accepted_correction", "intervention_feedback",
         "state_override_confirmed", "state_override", "manual_context_update"}

-----------------------------------------------------------------------------
(* The observations of the sequence obs that each branch of the loop       *)
(* counts; the evidence types without a weight count nowhere.              *)
OfKind(obs, kind) == {i \in DOMAIN obs : obs[i].kind = kind /\ obs[i].accepted}

Taught(obs) == OfKind(obs, "explicit_teach") \cup OfKind(obs, "state_override_confirmed")
Corrected(obs) == OfKind(obs, "accepted_correction")
Confirmed(obs) == OfKind(obs, "intervention_feedback")
Positive(obs) == Taught(obs) \cup Corrected(obs) \cup Confirmed(obs)

(* Mistake: contextual rejections lower the posterior too.                 *)
Rejected_AnyScope(obs) ==
    {i \in DOMAIN obs : obs[i].kind = "intervention_feedback" /\ ~obs[i].accepted}

Rejected(obs) ==
    {i \in DOMAIN obs : /\ obs[i].kind = "intervention_feedback"
                        /\ ~obs[i].accepted
                        /\ obs[i].reason # "USER_REJECTED_CONTEXT"}

Contexts(obs) == {obs[i].context : i \in Positive(obs)} \ {NoContext}

Alpha(obs) ==
    PriorAlpha + ExplicitWeight * Cardinality(Taught(obs))
               + CorrectionWeight * Cardinality(Corrected(obs))
               + ConfirmationWeight * Cardinality(Confirmed(obs))

Beta(obs) == PriorBeta + RejectionWeight * Cardinality(Rejected(obs))

PosteriorAtLeast(obs, percent) == 100 * Alpha(obs) >= percent * (Alpha(obs) + Beta(obs))

(* Mistake: the gate on distinct contexts is left out.                     *)
ConfirmationGates_NoDiversity(obs) ==
    /\ PosteriorAtLeast(obs, AutoConfirm)
    /\ Cardinality(Positive(obs)) >= MinPositiveEvents

ConfirmationGates(obs) ==
    /\ PosteriorAtLeast(obs, AutoConfirm)
    /\ Cardinality(Positive(obs)) >= MinPositiveEvents
    /\ Cardinality(Contexts(obs)) >= MinDistinctContexts

Contradicted(obs) == Rejected(obs) # {} /\ ~PosteriorAtLeast(obs, Demote)

(* Mistake: a suppressed memory is only a memory that is not confirmed.    *)
Recommendation_PromotesSuppressed(state, obs) ==
    IF state # "confirmed" /\ ConfirmationGates(obs) THEN "confirm"
    ELSE IF state = "confirmed" /\ Contradicted(obs) THEN "demote"
    ELSE "hold"

Recommendation(state, obs) ==
    IF state = "suppressed" THEN "hold_suppressed"
    ELSE IF state = "candidate" /\ ConfirmationGates(obs) THEN "confirm"
    ELSE IF state = "confirmed" /\ Contradicted(obs) THEN "demote"
    ELSE "hold"

(* Mistake: the demotion branch is forgotten.                              *)
Reconcile_OneWay(state, obs, force) ==
    IF \/ force /\ state # "suppressed"
       \/ Recommendation(state, obs) = "confirm"
    THEN "confirmed" ELSE state

(* reconcile_memory_state: the state that follows from the observations.   *)
Reconcile(state, obs, force) ==
    IF force /\ state # "suppressed" THEN "confirmed"
    ELSE IF Recommendation(state, obs) = "confirm" THEN "confirmed"
    ELSE IF Recommendation(state, obs) = "demote" THEN "candidate"
    ELSE state
=============================================================================
