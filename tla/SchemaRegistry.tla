--------------------------- MODULE SchemaRegistry ---------------------------
(***************************************************************************)
(* ensureSchema (src/src/eas/schema-registry.ts) and the three of them     *)
(* that ensureAllPrivateSchemas runs at once (src/src/private/schemas.ts). *)
(* A schema stands for its uid in the registry of one network.  The        *)
(* registry contract is external: it refuses a uid that it has.            *)
(*                                                                         *)
(* When Promise.all rejects, promises of the call may still run.  Nobody   *)
(* awaits them: all that they can still do is to register their schema,    *)
(* beside a retry of the same client or any other call.                    *)
(***************************************************************************)
EXTENDS Naturals, FiniteSets

CONSTANTS Schemas, Clients,
          Lists      \* Lists[c]: the sets of schemas that c's calls ensure

ASSUME EnsureLists == Lists \in [Clients -> SUBSET SUBSET Schemas]

VARIABLES
    registered,      \* the registry contract
    ensuring,        \* ensuring[c][x]: ensureSchema for x, in the call of c
    outcome,         \* outcome[c]: the promise of that call
    leftover         \* schemas that promises of earlier calls may still register

schemaVars == <<registered, ensuring, outcome, leftover>>

Phases == {"none", "query", "register", "found", "created", "failed"}
Running(c, x) == ensuring[c][x] \in {"query", "register"}

SchemaInit ==
    /\ registered \in SUBSET Schemas
    /\ ensuring = [c \in Clients |-> [x \in Schemas |-> "none"]]
    /\ outcome = [c \in Clients |-> "idle"]
    /\ leftover = {}

Ensure(c, X) ==
    /\ outcome[c] # "pending"
    /\ ensuring' = [ensuring EXCEPT ![c] =
                       [x \in Schemas |-> IF x \in X THEN "query" ELSE "none"]]
    /\ outcome' = [outcome EXCEPT ![c] = "pending"]
    /\ UNCHANGED <<registered, leftover>>

Proceed(c, x, phase) ==
    /\ ensuring' = [ensuring EXCEPT ![c][x] = phase]
    /\ UNCHANGED outcome

(* Mutant: "created" is not told apart from "already there". *)
QueryFoundAsCreated(c, x) ==
    /\ ensuring[c][x] = "query"
    /\ x \in registered
    /\ Proceed(c, x, "created")
    /\ UNCHANGED <<registered, leftover>>

QueryFound(c, x) ==
    /\ ensuring[c][x] = "query"
    /\ x \in registered
    /\ Proceed(c, x, "found")
    /\ UNCHANGED <<registered, leftover>>

(* getSchema throws when the uid is not registered, and when the request   *)
(* fails: the catch block takes both to mean that it has to register.      *)
QueryThrows(c, x) ==
    /\ ensuring[c][x] = "query"
    /\ Proceed(c, x, "register")
    /\ UNCHANGED <<registered, leftover>>

Registers(x) ==
    /\ x \notin registered
    /\ registered' = registered \cup {x}
    /\ leftover' = leftover \ {x}

(* The transaction is mined; the wait for it may fail all the same. *)
Register(c, x) ==
    /\ ensuring[c][x] = "register"
    /\ Registers(x)
    /\ \E phase \in {"created", "failed"} : Proceed(c, x, phase)

(* The transaction reverts, because somebody registered x since, or is     *)
(* never sent.                                                             *)
RegisterFails(c, x) ==
    /\ ensuring[c][x] = "register"
    /\ Proceed(c, x, "failed")
    /\ UNCHANGED <<registered, leftover>>

(* Mutant: the call resolves with the first of its schemas. *)
ResolveWithFirst(c) ==
    /\ outcome[c] = "pending"
    /\ \E x \in Schemas : ensuring[c][x] \in {"found", "created"}
    /\ outcome' = [outcome EXCEPT ![c] = "resolved"]
    /\ UNCHANGED <<registered, ensuring, leftover>>

(* The client of c no longer awaits its promises, which go on. *)
Abandon(c) ==
    /\ ensuring' = [ensuring EXCEPT ![c] = [x \in Schemas |-> "none"]]
    /\ leftover' = leftover \cup {x \in Schemas \ registered : Running(c, x)}

(* Promise.all resolves with all results, or rejects with the first failure. *)
Resolve(c) ==
    /\ outcome[c] = "pending"
    /\ \A x \in Schemas : ensuring[c][x] \in {"none", "found", "created"}
    /\ outcome' = [outcome EXCEPT ![c] = "resolved"]
    /\ UNCHANGED <<registered, ensuring, leftover>>

RejectAll(c) ==
    /\ outcome[c] = "pending"
    /\ \E x \in Schemas : ensuring[c][x] = "failed"
    /\ outcome' = [outcome EXCEPT ![c] = "rejected"]
    /\ Abandon(c)
    /\ UNCHANGED registered

(* A promise that nobody awaits any more registers its schema. *)
LateRegister(x) ==
    /\ x \in leftover
    /\ Registers(x)
    /\ UNCHANGED <<ensuring, outcome>>

EnsureStep(c) ==
    \/ Resolve(c) \/ RejectAll(c)
    \/ \E x \in Schemas :
          QueryFound(c, x) \/ QueryThrows(c, x) \/ Register(c, x) \/ RegisterFails(c, x)

SchemaNext ==
    \/ \E c \in Clients : EnsureStep(c) \/ \E X \in Lists[c] : Ensure(c, X)
    \/ \E x \in Schemas : LateRegister(x)

SchemaSpec == SchemaInit /\ [][SchemaNext]_schemaVars

-----------------------------------------------------------------------------
SchemaTypeOK ==
    /\ registered \subseteq Schemas
    /\ ensuring \in [Clients -> [Schemas -> Phases]]
    /\ outcome \in [Clients -> {"idle", "pending", "resolved", "rejected"}]
    /\ leftover \subseteq Schemas \ registered

(* However many clients ensure a schema at once, with requests that fail,  *)
(* and retries beside what earlier calls left running:                     *)
(* at most one of them is told that it created it (schema-registry.ts:123  *)
(* and 130), and nobody who is told that it exists is told so before it    *)
(* does.                                                                   *)
CreatedOnce ==
    \A x \in Schemas :
        /\ Cardinality({c \in Clients : ensuring[c][x] = "created"}) <= 1
        /\ \A c \in Clients : ensuring[c][x] \in {"found", "created"} => x \in registered

(* A call that resolves leaves every schema it was asked for registered    *)
(* (schemas.ts:76), whatever became of the others' transactions.           *)
ResolvedMeansRegistered ==
    \A c \in Clients : outcome[c] = "resolved" =>
        \A x \in Schemas : ensuring[c][x] # "none" => x \in registered
=============================================================================
