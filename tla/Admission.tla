-------------------------------- MODULE Admission --------------------------------
(***************************************************************************)
(* What the admission webhooks (the files *_webhook.go of apis/) and        *)
(* webhook_validation.go make of a resource before it is stored, and what   *)
(* the action registry (pkg/actions/action.go) makes of a countermeasure    *)
(* that they let through.  Of a spec only what validation, the registry and *)
(* Manager.Add look at is kept.                                             *)
(***************************************************************************)
EXTENDS Naturals, Sequences, FiniteSets

(* The pointer fields of the type Action, in the order of their             *)
(* declaration, in which reflection visits them.                            *)
PointerFields == <<"delete", "patch", "debug", "restart">>
Kinds == {PointerFields[i] : i \in DOMAIN PointerFields}

(* An action: the fields that are not nil, and whether debug.image is set.  *)
Actions == [defines : SUBSET Kinds, image : BOOLEAN]

(* A CounterMeasureSpec: whether onEvent.name is set, its sourceSelector    *)
(* (absent, or one that LabelSelectorAsSelector accepts or does not) and    *)
(* its actions.                                                             *)
Selectors == {"nil", "ok", "malformed"}
EmptySpec == [event |-> FALSE, selector |-> "nil", actions |-> <<>>]

-------------------------------------------------------------------------------
(* ValidateSpec, of the webhook and of the reconciler.  It does not look at *)
(* the selector.                                                            *)

ValidateOnEvent(spec) == spec.event

(* Mutant: several types of action in one entry are let through.            *)
ValidateActionLoose(a) ==
    /\ "debug" \in a.defines => a.image
    /\ a.defines # {}

ValidateAction(a) ==
    /\ "debug" \in a.defines => a.image
    /\ Cardinality(a.defines) = 1

ValidateSpec(spec) ==
    /\ ValidateOnEvent(spec)
    /\ spec.actions # <<>>
    /\ \A i \in DOMAIN spec.actions : ValidateAction(spec.actions[i])

(* CounterMeasure.Default assigns to a copy of each action, the variable of *)
(* its range loop, and so leaves the spec as it is.                         *)
DefaultCounterMeasure(spec) == spec

-------------------------------------------------------------------------------
(* The registry.                                                            *)

Misconfigured == "misconfigured"

(* Registry.create: the first field that is not nil decides the type.       *)
RegistryCreate(a) ==
    LET set == {i \in DOMAIN PointerFields : PointerFields[i] \in a.defines}
    IN  IF set = {} THEN Misconfigured
        ELSE PointerFields[CHOOSE i \in set : \A j \in set : i <= j]

(* Registry.NewRunner: one implementation per action, or an error and none. *)
NewRunner(spec) ==
    LET impls == [i \in DOMAIN spec.actions |-> RegistryCreate(spec.actions[i])]
    IN  IF \E i \in DOMAIN impls : impls[i] = Misconfigured THEN <<>> ELSE impls

-------------------------------------------------------------------------------
(* The webhooks of Prometheus.  Its spec: whether it names a secret,        *)
(* whether service.port is a number a URL can have (a negative one is not), *)
(* and includePending (which stands for pollingInterval too).               *)

(* Prometheus.Default                                                       *)
DefaultPrometheus(spec) == [spec EXCEPT !.pending = FALSE]

(* ValidatePrometheus asks that the service and the secret exist; of        *)
(* whatever type the secret is, and whatever the port.                      *)
ValidatePrometheus(spec, service, secret) ==
    /\ service # "absent"
    /\ spec.auth => secret # "absent"

(* GetSecret and createP8sClient want a secret for basic authentication.    *)
SecretUsable(spec, secret) == spec.auth => secret = "basic"

(* FindNamedPort takes the service's port if it has one only, or one of     *)
(* that name ("named"); otherwise ("other") it is the spec's, and           *)
(* NewPrometheusClient returns the error of parsing the address.            *)
AddressParses(spec, service) == service = "named" \/ spec.port
===============================================================================
