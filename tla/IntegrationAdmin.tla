-------------------------- MODULE IntegrationAdmin --------------------------
(***************************************************************************)
(* The record of one Integration Service: its key, whether it is enabled,  *)
(* and its webhook with the generation of its signing secret.  The         *)
(* operator's calls (integrationAdminService.ts) and self-service creation *)
(* on Testnet read the whole record and put a whole record back; nothing   *)
(* compares it in between.  A record may also come from the deployment's   *)
(* configuration (bootstrap), until the first call stores one.             *)
(*                                                                         *)
(* Keys are numbered as they are drawn.  What is not about access (label,  *)
(* scopes, profile, URL) is left out.                                      *)
(***************************************************************************)
EXTENDS Naturals

CONSTANTS
    AdminCalls,
    MaxDrawn,         \* bound: keys drawn
    MaxGeneration     \* bound: rotations of the webhook secret

ASSUME AdminAssumption == MaxDrawn \in Nat \ {0} /\ MaxGeneration \in Nat \ {0}

VARIABLES
    bootstrap,     \* the configured record
    service,       \* integration-credentials/v1/<service>.json
    drawnKeys,
    call,          \* what each call remembers
    newest,        \* the key put last
    shut,          \* the service was disabled, and not enabled since
    retired,       \* secrets rotated away since the webhook was configured
    crossed        \* a put replaced another record than the one it was made from

told == <<newest, shut, retired, crossed>>
adminVars == <<bootstrap, service, drawnKeys, call, told>>

\* generation 0: no webhook.
Setting == [key : 0 .. MaxDrawn, enabled : BOOLEAN, generation : 0 .. MaxGeneration,
            delivers : BOOLEAN]
Missing == [key |-> 0, enabled |-> FALSE, generation |-> 0, delivers |-> FALSE]

Configured == [key |-> 1, enabled |-> TRUE, generation |-> 0, delivers |-> FALSE]
Creation == {"create", "create_shut", "create_hook"}
Change == Creation \cup {"enable", "disable", "edit", "hook_on", "hook_off", "unhook",
                         "rotate_hook", "rotate"}
Pending == [op : Change \cup {"none"}, base : Setting, next : Setting]
NoCall == [op |-> "none", base |-> Missing, next |-> Missing]

AdminInit ==
    /\ bootstrap \in {Missing, Configured}
    /\ service = Missing /\ drawnKeys = 1
    /\ call = [c \in AdminCalls |-> NoCall]
    /\ newest = bootstrap.key /\ shut = FALSE /\ retired = {} /\ crossed = FALSE

\* Fault: the configuration is asked first.
BootstrapFirst == IF bootstrap # Missing THEN bootstrap ELSE service

\* The stored record, or else the configured one.
currentRecord == IF service # Missing THEN service ELSE bootstrap

-----------------------------------------------------------------------------
(* The record a call puts, made from the one it has read.                  *)

\* integrationWebhookConfigFromInput keeps the generation there is.
SameGeneration(old) == IF old.generation = 0 THEN 1 ELSE old.generation

WithWebhook(old, generation, delivers) ==
    [key |-> old.key, enabled |-> old.enabled, generation |-> generation, delivers |-> delivers]

NeedsAKey(op) == op \in Creation \cup {"rotate"}

Changed(old, op, key) ==
    CASE op \in Creation -> [key |-> key, enabled |-> op # "create_shut",
                             generation |-> IF op = "create_hook" THEN 1 ELSE 0,
                             delivers |-> op = "create_hook"]
      [] op = "enable" -> [old EXCEPT !.enabled = TRUE]
      [] op = "disable" -> [old EXCEPT !.enabled = FALSE]
      [] op = "edit" -> old
      [] op = "hook_on" -> WithWebhook(old, SameGeneration(old), TRUE)
      [] op = "hook_off" -> WithWebhook(old, SameGeneration(old), FALSE)
      [] op = "unhook" -> WithWebhook(old, 0, FALSE)
      [] op = "rotate_hook" -> [old EXCEPT !.generation = old.generation + 1]
      [] op = "rotate" -> [old EXCEPT !.key = key]

\* createIntegrationAdminService needs that there is no record; the others
\* that there is one, and a rotation of the webhook's secret that it has one.
Begin(c, op) ==
    LET old == currentRecord IN
    /\ call[c].op = "none"
    /\ op \in Creation <=> old = Missing
    /\ op = "rotate_hook" => old.generation \in 1 .. MaxGeneration - 1
    /\ NeedsAKey(op) => drawnKeys < MaxDrawn
    /\ drawnKeys' = IF NeedsAKey(op) THEN drawnKeys + 1 ELSE drawnKeys
    /\ call' = [call EXCEPT ![c] = [op |-> op, base |-> old,
                                    next |-> Changed(old, op, drawnKeys')]]
    /\ UNCHANGED <<bootstrap, service, told>>

\* putCredential overwrites what is there.  The key or the secret is in the
\* answer, and nowhere else.
PutRecord(c) ==
    LET j == call[c] IN
    /\ j.op # "none"
    /\ service' = j.next
    /\ crossed' = (crossed \/ currentRecord # j.base)
    /\ newest' = IF NeedsAKey(j.op) THEN j.next.key ELSE newest
    /\ shut' = (\/ j.op \in {"disable", "create_shut"}
                \/ shut /\ j.op \notin {"enable", "create", "create_hook"})
    /\ retired' = CASE j.op = "rotate_hook" -> retired \cup {j.base.generation}
                     [] j.op = "unhook" -> {}
                     [] OTHER -> retired
    /\ call' = [call EXCEPT ![c] = NoCall]
    /\ UNCHANGED <<bootstrap, drawnKeys>>

\* An await before the put fails, or the process stops.
Abandon(c) ==
    /\ call[c].op # "none"
    /\ call' = [call EXCEPT ![c] = NoCall]
    /\ UNCHANGED <<bootstrap, service, drawnKeys, told>>

AdminNext ==
    \E c \in AdminCalls :
        \/ \E op \in Change : Begin(c, op)
        \/ PutRecord(c) \/ Abandon(c)

AdminSpec == AdminInit /\ [][AdminNext]_adminVars
-----------------------------------------------------------------------------
(* Properties.                                                             *)

\* Every variable keeps its type.
AdminTypeOK ==
    /\ bootstrap \in Setting /\ service \in Setting /\ drawnKeys \in 1 .. MaxDrawn
    /\ call \in [AdminCalls -> Pending]
    /\ newest \in 0 .. MaxDrawn /\ shut \in BOOLEAN
    /\ retired \subseteq 0 .. MaxGeneration /\ crossed \in BOOLEAN

\* resolveRuntimeIntegrationCredential, where administration is configured: a
\* stored record that is disabled does not bring the configured one back.
Opens(key) ==
    /\ key # 0
    /\ IF service # Missing THEN service.enabled /\ service.key = key
       ELSE bootstrap.key = key

\* production-readiness.md, emergency procedure: after a rotation only the new
\* key opens the service, and none while it is disabled, whatever else the
\* operator changes then and whatever is configured; a webhook is never signed
\* with a secret that was rotated away, unless the webhook was removed and
\* configured anew.  Calls that overlap may put old choices back
\* (integrationAdminService.ts 160-313, integrationCredentialRegistry.ts 12-29).
ChoicesStand ==
    ~crossed =>
        /\ \A key \in 0 .. MaxDrawn : Opens(key) <=> key # 0 /\ key = newest /\ ~shut
        /\ service.generation # 0 => service.generation \notin retired
=============================================================================
