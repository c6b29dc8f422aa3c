----------------------------- MODULE Provisioning -----------------------------
(***************************************************************************)
(* scripts/provision_lambda.py: one run of the script is a sequence of AWS *)
(* calls, each of which may raise, be applied although it raised, or be    *)
(* the last before the script is killed.  It is run again, with the same   *)
(* or another configuration, on whatever the runs before left behind.      *)
(* AWS (external) is what the calls read and write: two buckets, one       *)
(* function, EventBridge rules with the function as their target, and the  *)
(* function's resource policy.                                             *)
(***************************************************************************)
EXTENDS Naturals

CONSTANTS
    Builds,         \* contents of the zip file
    Settings,       \* role, handler, time limit, memory and environment
    Buckets,
    Rules,          \* names of EventBridge rules
    Schedules,      \* schedule expressions
    Configs,        \* the configurations the script is run with
    MaxRuns,        \* bounds the runs of the script
    Absent          \* what does not exist

ProvisionConfig ==
    [build : Builds, settings : Settings, bucket : Buckets, ensure : SUBSET Buckets,
     rule : Rules, schedule : Schedules]

ASSUME ProvisioningAssumption ==
    /\ Configs \subseteq ProvisionConfig
    /\ MaxRuns \in Nat
    /\ Absent \notin Builds \cup Settings \cup Schedules

VARIABLES
    buckets,    \* buckets that exist
    artifacts,  \* objects of the buckets, by bucket and key
    function,   \* its code and settings
    settled,    \* no creation or update of the function is in progress
    rules,      \* per rule: its schedule
    permitted,  \* rules the function's policy lets invoke it
    targeted,   \* rules whose target is the function
    stage,      \* the script's next step
    config,     \* the configuration of its current or last run
    todo,       \* ensure_buckets it has still to ensure
    runs        \* runs of the script begun

awsVars == <<buckets, artifacts, function, settled, rules, permitted, targeted>>
scriptVars == <<stage, config, todo, runs>>
provisionVars == <<awsVars, scriptVars>>

Ended == {"idle", "done", "failed"}
Steps == {"ensure", "package", "lookup", "create", "code", "wait_code",
          "settings", "wait", "rule", "permit", "target"}

FunctionExists == function.code # Absent

ProvisioningTypeOK ==
    /\ buckets \subseteq Buckets
    /\ artifacts \in [Buckets -> [Builds -> Builds \cup {Absent}]]
    /\ function \in [code : Builds \cup {Absent}, settings : Settings \cup {Absent}]
    /\ settled \in BOOLEAN
    /\ rules \in [Rules -> Schedules \cup {Absent}]
    /\ permitted \subseteq Rules /\ targeted \subseteq Rules
    /\ stage \in Ended \cup Steps
    /\ config \in Configs \cup {Absent}
    /\ stage # "idle" => config \in Configs
    /\ todo \subseteq Buckets
    /\ runs \in 0 .. MaxRuns

(* The account before the first run: buckets may have been made by hand.   *)
ProvisioningInit ==
    /\ buckets \in SUBSET Buckets
    /\ artifacts = [b \in Buckets |-> [k \in Builds |-> Absent]]
    /\ function = [code |-> Absent, settings |-> Absent]
    /\ settled = TRUE
    /\ rules = [r \in Rules |-> Absent]
    /\ permitted = {} /\ targeted = {}
    /\ stage = "idle"
    /\ config = Absent
    /\ todo = {}
    /\ runs = 0

Goto(s) == stage' = s /\ UNCHANGED <<config, todo, runs>>

-----------------------------------------------------------------------------
(* One run of the script.                                                  *)

Begin(c) ==
    /\ stage \in Ended
    /\ runs < MaxRuns
    /\ runs' = runs + 1
    /\ config' = c
    /\ todo' = c.ensure
    /\ stage' = "ensure"
    /\ UNCHANGED awsVars

EnsureBucket(b) ==
    /\ stage = "ensure"
    /\ b \in todo
    /\ buckets' = buckets \cup {b}
    /\ todo' = todo \ {b}
    /\ UNCHANGED <<artifacts, function, settled, rules, permitted, targeted,
                   stage, config, runs>>

EnsuredBuckets ==
    /\ stage = "ensure"
    /\ todo = {}
    /\ Goto("package")
    /\ UNCHANGED awsVars

(* Faulty: a key without the hash of the content.                          *)
NameKey(build) == CHOOSE k \in Builds : TRUE

(* A digest of the content; taken to be injective.                         *)
ArtifactKey(build) == build

(* head_object, and put_object if there is no object.                      *)
UploadPackage ==
    /\ stage = "package"
    /\ config.bucket \in buckets
    /\ artifacts' =
           IF artifacts[config.bucket][ArtifactKey(config.build)] # Absent THEN artifacts
           ELSE [artifacts EXCEPT ![config.bucket][ArtifactKey(config.build)] = config.build]
    /\ Goto("lookup")
    /\ UNCHANGED <<buckets, function, settled, rules, permitted, targeted>>

LookupFunction ==
    /\ stage = "lookup"
    /\ Goto(IF FunctionExists THEN "code" ELSE "create")
    /\ UNCHANGED awsVars

(* What Lambda finds in the bucket under the key.                          *)
Package == artifacts[config.bucket][ArtifactKey(config.build)]

(* Lambda refuses an update while one is in progress.                      *)
UpdateFunctionCode ==
    /\ stage = "code"
    /\ settled
    /\ function' = [function EXCEPT !.code = Package]
    /\ settled' = FALSE
    /\ Goto("wait_code")
    /\ UNCHANGED <<buckets, artifacts, rules, permitted, targeted>>

UpdateFunctionConfiguration ==
    /\ stage = "settings"
    /\ settled
    /\ function' = [function EXCEPT !.settings = config.settings]
    /\ settled' = FALSE
    /\ Goto("wait")
    /\ UNCHANGED <<buckets, artifacts, rules, permitted, targeted>>

CreateFunction ==
    /\ stage = "create"
    /\ function' = [code |-> Package, settings |-> config.settings]
    /\ settled' = FALSE
    /\ Goto("wait")
    /\ UNCHANGED <<buckets, artifacts, rules, permitted, targeted>>

WaitUntilUpdatable ==
    /\ stage \in {"wait_code", "wait"}
    /\ settled
    /\ Goto(IF stage = "wait" THEN "rule" ELSE "settings")
    /\ UNCHANGED awsVars

(* Faulty: the target is attached first.                                   *)
PutRuleAndTarget ==
    /\ stage = "rule"
    /\ rules' = [rules EXCEPT ![config.rule] = config.schedule]
    /\ targeted' = targeted \cup {config.rule}
    /\ Goto("permit")
    /\ UNCHANGED <<buckets, artifacts, function, settled, permitted>>

PutRule ==
    /\ stage = "rule"
    /\ rules' = [rules EXCEPT ![config.rule] = config.schedule]
    /\ Goto("permit")
    /\ UNCHANGED <<buckets, artifacts, function, settled, permitted, targeted>>

(* A permission that was already granted is no error.                      *)
AddPermission ==
    /\ stage = "permit"
    /\ permitted' = permitted \cup {config.rule}
    /\ Goto("target")
    /\ UNCHANGED <<buckets, artifacts, function, settled, rules, targeted>>

(* An entry that failed is only reported in the answer, which nobody reads:*)
(* the script ends the same way with the target and without it.            *)
PutTargets ==
    /\ stage = "target"
    /\ targeted' \in {targeted, targeted \cup {config.rule}}
    /\ \E end \in {"done", "failed"} : Goto(end)
    /\ UNCHANGED <<buckets, artifacts, function, settled, rules, permitted>>

(* A call raises, or the script is killed, before its next step or after   *)
(* it was applied.                                                         *)
Fail ==
    /\ stage \in Steps
    /\ Goto("failed")
    /\ UNCHANGED awsVars

(* Lambda finishes a creation or an update.                                *)
Settle ==
    /\ ~ settled
    /\ settled' = TRUE
    /\ UNCHANGED <<buckets, artifacts, function, rules, permitted, targeted, scriptVars>>

Provision ==
    \/ \E b \in Buckets : EnsureBucket(b)
    \/ EnsuredBuckets \/ UploadPackage
    \/ LookupFunction \/ CreateFunction
    \/ UpdateFunctionCode \/ UpdateFunctionConfiguration \/ WaitUntilUpdatable
    \/ PutRule \/ AddPermission \/ PutTargets

ProvisioningNext ==
    \/ \E c \in Configs : Begin(c)
    \/ Provision
    \/ Fail
    \/ Settle

-----------------------------------------------------------------------------
(* The properties.                                                         *)

(* However often and wherever the script stopped, a rule that has the      *)
(* function as its target exists and may invoke the function, which        *)
(* exists: an event is never fired into the void.                          *)
TargetsAreReachable ==
    \A r \in targeted : rules[r] # Absent /\ r \in permitted /\ FunctionExists

(* "Idempotent: safe to re-run": a run that ends without an error leaves   *)
(* the function with the code and settings it was asked for, settled, and  *)
(* its rule with its schedule and leave to invoke the function, whatever   *)
(* earlier runs with whatever configuration left behind.  Of the target    *)
(* and of other runs' rules it promises nothing.                           *)
CompleteRunsConverge ==
    stage = "done" =>
        /\ function = [code |-> config.build, settings |-> config.settings]
        /\ settled
        /\ rules[config.rule] = config.schedule
        /\ config.rule \in permitted
=============================================================================
