---------------------------- MODULE VisionRegistry ---------------------------
(***************************************************************************)
(* What vision results refer back to: rule versions of a site              *)
(* (vision/service.py) and detection models with their licence gate        *)
(* (vision/registry.py), both published once and never edited, changed by  *)
(* administrators whose requests read, then commit (api/routers/vision.py).*)
(* Edge nodes fetch the rules that are active and cite them in events.     *)
(*                                                                         *)
(* A rule version's content stands for its parameters; a model's for its   *)
(* weights.                                                                *)
(***************************************************************************)
EXTENDS Naturals

CONSTANTS
  Registrars,        \* administrators' requests
  RuleVersions,      \* (rule_id, rule_version)
  DefaultRules,      \* the versions DEFAULT_RULES installs
  ModelVersions,     \* (model_id, version)
  Contents,
  Architectures,     \* "cleared", "restricted", "forbidden" or "unaudited"
  MaxPublications, RegistryEnd   \* bounds: requests, time

\* Rules and models have their own keys; "none" is the content of what is not there.
ASSUME RegistryAssumption ==
  /\ RuleVersions \cap ModelVersions = {} /\ DefaultRules \subseteq RuleVersions
  /\ "none" \notin Contents /\ RegistryEnd \in Nat

VARIABLES
  regRules,          \* vision_rule_versions
  regModels,         \* vision_models
  regReq,            \* the requests
  regNow, regLeft,
  regSeen,           \* rules and models readers were given, as they were
  regEnded           \* rule versions seen after their active_to

regVars == <<regRules, regModels, regReq, regNow, regLeft, regSeen, regEnded>>

Forever == RegistryEnd + 2   \* active_to is null
NoRule == [content |-> "none", from |-> 0, to |-> 0]
NoModel == [content |-> "none", architecture |-> "none", licence |-> "none", status |-> "none"]
NoChange == [op |-> "none", keys |-> {}, row |-> NoRule]

RegistryInit ==
  /\ regRules = [v \in RuleVersions |-> NoRule]
  /\ regModels = [k \in ModelVersions |-> NoModel]
  /\ regReq = [a \in Registrars |-> NoChange]
  /\ regNow = 0 /\ regLeft = MaxPublications
  /\ regSeen = {} /\ regEnded = {}

-----------------------------------------------------------------------------
(* The licence audit: docs/VISION_MODEL_LICENSES.md as registry.AUDITED. *)

Licences == {"permissive", "restricted", "forbidden"}
(* audited *)
AuditedLicence(architecture) ==
  CASE architecture = "cleared" -> "permissive"
    [] architecture = "restricted" -> "restricted"
    [] architecture = "forbidden" -> "forbidden"
    [] OTHER -> "none"

(* register_model refuses the model, whatever else is there. *)
RegistrationRefused(architecture, licence) ==
  \/ licence = "forbidden"
  \/ /\ AuditedLicence(architecture) # "none"
     /\ AuditedLicence(architecture) = "forbidden" \/ AuditedLicence(architecture) # licence

(* production_block *)
ProductionBlocked(model) ==
  \/ AuditedLicence(model.architecture) # model.licence
  \/ model.licence # "permissive"

-----------------------------------------------------------------------------
(* Requests. *)

BeginChange(a, change) ==
  /\ regReq[a] = NoChange /\ regLeft > 0
  /\ regLeft' = regLeft - 1
  /\ regReq' = [regReq EXCEPT ![a] = change]
  /\ UNCHANGED <<regRules, regModels, regNow, regSeen, regEnded>>

EndChange(a) ==
  /\ regReq[a] # NoChange
  /\ regReq' = [regReq EXCEPT ![a] = NoChange]
  /\ UNCHANGED <<regNow, regLeft, regSeen, regEnded>>

(* publish_rule; one that exists already: 409 *)
PublishRule(a, v, content, from, to) ==
  /\ regRules[v] = NoRule
  /\ BeginChange(a, [op |-> "rules", keys |-> {v},
                     row |-> [content |-> content, from |-> from, to |-> to]])

(* install_default_rules: those that are not there yet, in one transaction *)
InstallDefaults(a) ==
  /\ \E v \in DefaultRules : regRules[v] = NoRule
  /\ BeginChange(a, [op |-> "rules", keys |-> {v \in DefaultRules : regRules[v] = NoRule},
                     row |-> [content |-> "default", from |-> regNow, to |-> Forever]])

NeverTaken(a) == FALSE
(* The primary key, at create_rule_version's flush. *)
KeyTaken(a) == \E v \in regReq[a].keys : regRules[v] # NoRule

CommitRules(a) ==
  /\ regReq[a].op = "rules"
  /\ regRules' = IF KeyTaken(a) THEN regRules
                 ELSE [v \in RuleVersions |-> IF v \in regReq[a].keys THEN regReq[a].row
                                              ELSE regRules[v]]
  /\ EndChange(a)
  /\ UNCHANGED regModels

(* retire_rule_version *)
RetireRule(a, v) ==
  /\ regRules[v] # NoRule /\ regRules[v].to = Forever
  /\ BeginChange(a, [op |-> "retire", keys |-> {v}, row |-> [regRules[v] EXCEPT !.to = regNow]])

CommitRetire(a) ==
  /\ regReq[a].op = "retire"
  /\ regRules' = [v \in RuleVersions |-> IF v \in regReq[a].keys
                                         THEN [regRules[v] EXCEPT !.to = regReq[a].row.to]
                                         ELSE regRules[v]]
  /\ EndChange(a)
  /\ UNCHANGED regModels

(* register_model *)
RegisterModel(a, k, content, architecture, licence) ==
  /\ ~RegistrationRefused(architecture, licence)
  /\ regModels[k] = NoModel
  /\ BeginChange(a, [op |-> "model", keys |-> {k},
                     row |-> [content |-> content, architecture |-> architecture,
                              licence |-> licence, status |-> "experimental"]])

CommitModel(a) ==
  /\ regReq[a].op = "model"
  /\ regModels' = [k \in ModelVersions |-> IF k \in regReq[a].keys /\ regModels[k] = NoModel
                                           THEN regReq[a].row ELSE regModels[k]]
  /\ EndChange(a)
  /\ UNCHANGED regRules

(* set_status, to any status; production must not be blocked *)
SetStatus(a, k, status) ==
  /\ regModels[k] # NoModel
  /\ status = "production" => ~ProductionBlocked(regModels[k])
  /\ BeginChange(a, [op |-> "status", keys |-> {k}, row |-> [regModels[k] EXCEPT !.status = status]])

CommitStatus(a) ==
  /\ regReq[a].op = "status"
  /\ regModels' = [k \in ModelVersions |-> IF k \in regReq[a].keys
                                           THEN [regModels[k] EXCEPT !.status = regReq[a].row.status]
                                           ELSE regModels[k]]
  /\ EndChange(a)
  /\ UNCHANGED regRules

-----------------------------------------------------------------------------
(* list_rule_versions, active at a time *)
Active(rule, at) == rule # NoRule /\ rule.from <= at /\ rule.to > at

(* An edge node is given its rules, a reader the models. *)
FetchRegistry ==
  /\ regSeen' = regSeen
       \cup {<<v, regRules[v].content>> : v \in {v \in RuleVersions : Active(regRules[v], regNow)}}
       \cup {<<k, regModels[k].content>> : k \in {k \in ModelVersions : regModels[k] # NoModel}}
  /\ regEnded' = regEnded \cup {v \in RuleVersions : regRules[v] # NoRule /\ regRules[v].to <= regNow}
  /\ <<regSeen', regEnded'>> # <<regSeen, regEnded>>
  /\ UNCHANGED <<regRules, regModels, regReq, regNow, regLeft>>

RegistryTick ==
  /\ regNow < RegistryEnd
  /\ regNow' = regNow + 1
  /\ UNCHANGED <<regRules, regModels, regReq, regLeft, regSeen, regEnded>>

RegistryNext ==
  \/ \E a \in Registrars :
       \/ \E v \in RuleVersions :
            \/ \E c \in Contents, from \in 0 .. RegistryEnd, to \in {regNow + 1, Forever} :
                 PublishRule(a, v, c, from, to)
            \/ RetireRule(a, v)
       \/ InstallDefaults(a)
       \/ CommitRules(a) \/ CommitRetire(a)
       \/ \E k \in ModelVersions :
            \/ \E c \in Contents, architecture \in Architectures, licence \in Licences :
                 RegisterModel(a, k, c, architecture, licence)
            \/ \E s \in {"validation", "production", "retired"} : SetStatus(a, k, s)
       \/ CommitModel(a) \/ CommitStatus(a)
  \/ FetchRegistry \/ RegistryTick

RegistrySpec == RegistryInit /\ [][RegistryNext]_regVars

-----------------------------------------------------------------------------
(* What was published stands, whatever administrators do at once: a rule
   version an edge node was given, or a model a reader was, still has the
   content it had, so that the events citing it stay valid; a rule version
   that has ended is never active again; a model in production is one the
   audit clears ("Immutable", create_rule_version; "weights never silently
   change", vision/registry.py). *)
PublishedStands ==
  /\ \A v \in RuleVersions, c \in Contents \cup {"default"} :
       <<v, c>> \in regSeen => regRules[v].content = c
  /\ \A k \in ModelVersions, c \in Contents : <<k, c>> \in regSeen => regModels[k].content = c
  /\ \A v \in regEnded : ~Active(regRules[v], regNow)
  /\ \A k \in ModelVersions : regModels[k].status = "production" => regModels[k].architecture = "cleared"
=============================================================================
