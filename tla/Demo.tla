-------------------------------- MODULE Demo --------------------------------
(***************************************************************************)
(* The demo application (src/examples/vite-demo/src/App.tsx): a page over  *)
(* a store, a private store and the schema registry.  Its handlers are     *)
(* asynchronous: each captures what the page showed when it was clicked,   *)
(* awaits, and then writes to whatever the page has become.  Buttons are   *)
(* disabled while "busy"; text fields and the network select never are.    *)
(*                                                                         *)
(* An effect runs in the step of the change that triggers it; a transition *)
(* (startTransition) commits in a later step of its own.  Wallet,          *)
(* session storage and IndexedDB outlive a reload; refs and state do not.  *)
(* The private stores are the sessions of PrivateIdentity, one for each    *)
(* mode and namespace, and the page is a client of SchemaRegistry.         *)
(***************************************************************************)
EXTENDS PrivateIdentity, SchemaRegistry

CONSTANTS
    Namespaces, DefaultNamespace,
    Networks, Kinds,     \* the schemas one can define; Schemas are of a network
    page,                \* the page among the clients of the schema registry
    Visits,              \* sets of controls that a visitor uses, and of what
                         \* else happens: another network, a reload, clients
    Workers,             \* bound: handlers running at once
    MaxReloads           \* bound

Modes == {"offchain", "onchain"}
Handlers == {"reset", "connect", "activate", "record", "publishSchema",
             "setup", "create", "publishKey", "privateSet", "restore"}
Controls == Handlers \cup {"namespace", "phrase", "network", "wallet", "reload", "clients"}
PrivateHandlers == {"setup", "create", "publishKey", "privateSet", "restore"}

ASSUME Pages ==
    /\ DefaultNamespace \in Namespaces /\ Kinds # {}
    /\ Sessions = Modes \X Namespaces
    /\ \A s \in Sessions : DappOf[s] = s[2] /\ Operations[s] = IdentityOperations
    /\ Schemas \subseteq Networks \X Kinds /\ page \in Clients
    /\ Visits \subseteq SUBSET Controls
    /\ {1, 2} \subseteq Workers /\ Workers \subseteq Nat /\ MaxReloads \in Nat

VARIABLES
    ui,          \* the React state
    refs,        \* storeRef, privateStoreRef and privateBackupRef
    tasks,       \* the handlers in progress
    chain,       \* the network that the wallet is on
    visit,       \* what this visitor uses, constant
    unsaved,     \* history: keys whose backup failed before the user's eyes
    reloads

pageVars == <<ui, refs, tasks, chain, visit, unsaved, reloads>>
vars == <<identityVars, schemaVars, pageVars>>

None == [mode |-> "none"]
NoTask == [kind |-> "none"]
Idle == {w \in Workers : tasks[w] = NoTask}

(* Rows come from the store in use, the private store, or older ones.      *)
(* While clearOutputs' transition is pending ("clearing") the table shows  *)
(* "rows", and "later" is what it will show: React applies a later row     *)
(* update to both.                                                         *)
FirstView ==
    [mode |-> "offchain", input |-> DefaultNamespace, active |-> DefaultNamespace,
     schema |-> CHOOSE k \in Kinds : TRUE,
     ready |-> FALSE, draft |-> FALSE, phrase |-> "", rows |-> {},
     later |-> {}, clearing |-> FALSE, busy |-> TRUE]

(* What a handler reads of the page when it starts, and uses to its end. *)
Closure(kind) ==
    {f \in {"input", "schema", "mode", "phrase"} :
        \/ f = "input"  /\ kind \in {"boot", "reset", "connect", "activate"}
        \/ f = "schema" /\ kind \in {"connect", "activate"}
        \/ f = "mode"   /\ kind \in PrivateHandlers
        \/ f = "phrase" /\ kind = "restore"}

Task(kind, u, cancelled) ==
    [kind |-> kind, pc |-> "start", cancelled |-> cancelled,
     seen |-> [f \in Closure(kind) |-> u[f]]]

(* StrictMode mounts the effects twice and cancels the first boot. *)
Booting ==
    [w \in Workers |->
        IF w \in {1, 2} THEN Task("boot", FirstView, w = 1) ELSE NoTask]

Init ==
    /\ IdentityInit
    /\ SchemaInit
    /\ ui = FirstView
    /\ refs = [store |-> None, private |-> None, backup |-> NoBackup]
    /\ tasks = Booting
    /\ chain \in Networks
    /\ visit \in Visits
    /\ unsaved = {} /\ reloads = 0

-----------------------------------------------------------------------------
(* Mutant: one of the two effects is missing, the one on activeNamespace. *)
DropPrivateOnMode(mode, active) == mode # ui.mode

(* The effects on mode and activeNamespace drop the private store, and     *)
(* with it the identity it holds.                                          *)
DropPrivate(mode, active) == mode # ui.mode \/ active # ui.active

Aged(rows, r) == IF r \in rows THEN (rows \ {r}) \cup {"old"} ELSE rows

(* The view after a handler that ends in view u with store d. *)
Become(u, d) ==
    LET drop == DropPrivate(u.mode, u.active) IN
    /\ ui' = IF ~drop THEN u
             ELSE [u EXCEPT !.ready = FALSE, !.draft = FALSE,
                            !.rows = Aged(@, "private"), !.later = Aged(@, "private")]
    /\ refs' = [refs EXCEPT !.store = d, !.private = IF drop THEN None ELSE @]
    /\ identity' = IF drop THEN [s \in Sessions |-> 0] ELSE identity
    /\ UNCHANGED <<keys, stored, backups, claims, lost, job>>

(* What the table shows when the store is replaced: the same rows. *)
RowsOfBefore == {"old" : r \in ui.rows}

(* Mutant: clearOutputs keeps the rows of the table. *)
RowsKept == RowsOfBefore

(* What clearOutputs' transition will make of the table. *)
ClearedRows == {}

(* applyDemoStore: the typed namespace is overwritten, and the rows stay   *)
(* until the transition commits.                                           *)
Apply(u, d) ==
    Become([u EXCEPT !.mode = d.mode, !.active = d.namespace, !.input = d.namespace,
                     !.rows = RowsOfBefore, !.later = ClearedRows,
                     !.clearing = TRUE, !.busy = FALSE], d)

End(w) == tasks' = [tasks EXCEPT ![w] = NoTask]
Elsewhere == UNCHANGED <<schemaVars, chain, visit, unsaved, reloads>>

Local(ns) == [mode |-> "offchain", namespace |-> ns]
Onchain(ns) == [mode |-> "onchain", namespace |-> ns]

(* Mutant: the boot that was cancelled ends like any other. *)
BootRegardless(w) ==
    /\ tasks[w].kind = "boot"
    /\ Apply(ui, Local(tasks[w].seen.input))
    /\ End(w) /\ Elsewhere

(* bootOffchainMode *)
Boot(w) ==
    /\ tasks[w].kind = "boot"
    /\ IF tasks[w].cancelled THEN UNCHANGED <<ui, refs, identityVars>>
       ELSE Apply(ui, Local(tasks[w].seen.input))
    /\ End(w) /\ Elsewhere

(* A click on an enabled button.  Reset reconnects when onchain; runAction *)
(* needs a store; the schema editor and the network select show only       *)
(* onchain; restoring needs a phrase.                                      *)
Click(w, kind) ==
    /\ w \in Idle /\ \A v \in Idle : w <= v
    /\ ~ui.busy
    /\ kind \in visit
    /\ kind \in {"reset"} => ui.mode = "offchain"
    /\ kind \in {"connect", "publishSchema"} => ui.mode = "onchain"
    /\ kind = "record" => refs.store # None
    /\ kind = "restore" => ui.phrase # ""
    /\ tasks' = [tasks EXCEPT ![w] = Task(kind, ui, FALSE)]
    /\ ui' = [ui EXCEPT !.busy = TRUE]
    /\ UNCHANGED <<refs, identityVars>> /\ Elsewhere

(* setMode("offchain"), and the boot effect of the mode *)
LocalMode(w) ==
    /\ w \in Idle /\ \A v \in Idle : w <= v
    /\ ~ui.busy
    /\ ui.mode = "onchain"
    /\ Become([ui EXCEPT !.mode = "offchain", !.busy = TRUE], refs.store)
    /\ tasks' = [tasks EXCEPT ![w] = Task("boot", ui, FALSE)]
    /\ Elsewhere

(* The offchain branch of handleReset *)
Reset(w) ==
    /\ tasks[w].kind = "reset"
    /\ Apply(ui, Local(tasks[w].seen.input))
    /\ End(w) /\ Elsewhere

(* handleConnectWallet and handleActivateOnchainMode: the configuration is *)
(* aligned to the wallet's network and keeps its schema uid, which may     *)
(* have been chosen for another network.                                   *)
Connect(w) ==
    LET t == tasks[w] IN
    /\ t.kind \in {"connect", "activate"}
    /\ t.seen.schema # ""
    /\ Apply([ui EXCEPT !.schema = t.seen.schema], Onchain(t.seen.input))
    /\ End(w) /\ Elsewhere

(* runAction: the records are of the store in use, and shown as rows or not. *)
Record(w) ==
    /\ tasks[w].kind = "record"
    /\ \E r \in SUBSET {"own"} :
          ui' = [ui EXCEPT !.rows = @ \cup r, !.later = @ \cup r, !.busy = FALSE]
    /\ UNCHANGED <<refs, identityVars>>
    /\ End(w) /\ Elsewhere

-----------------------------------------------------------------------------
(* handlePublishSchema: the schema is ensured on the wallet's network, and *)
(* its uid put into whatever configuration is shown by then.               *)
EnsureOnWalletChain(w, k) ==
    /\ tasks[w].kind = "publishSchema" /\ tasks[w].pc = "start"
    /\ <<chain, k>> \in Schemas
    /\ Ensure(page, {<<chain, k>>})
    /\ tasks' = [tasks EXCEPT ![w].pc = "ensure", ![w].seen = [schema |-> k]]
    /\ UNCHANGED <<identityVars, ui, refs, chain, visit, unsaved, reloads>>

SchemaPublished(w) ==
    /\ tasks[w].kind = "publishSchema" /\ tasks[w].pc = "ensure"
    /\ outcome[page] = "resolved"
    /\ ui' = [ui EXCEPT !.schema = tasks[w].seen.schema, !.busy = FALSE,
                        !.rows = Aged(@, "own"), !.later = Aged(@, "own")]
    /\ refs' = [refs EXCEPT !.store = None]
    /\ UNCHANGED identityVars
    /\ End(w) /\ Elsewhere

-----------------------------------------------------------------------------
(* runPrivateAction *)

Session == <<refs.private.mode, refs.private.namespace>>
At(w, kinds, pc) == tasks[w].kind \in kinds /\ tasks[w].pc = pc
Goto(w, pc) == tasks' = [tasks EXCEPT ![w].pc = pc]

(* The private store is the one there is, or is made from the closure. *)
OpenPrivate(w) ==
    /\ At(w, PrivateHandlers, "start")
    /\ refs' = [refs EXCEPT !.private =
                   IF @ # None THEN @
                   ELSE [mode |-> tasks[w].seen.mode, namespace |-> ui.active]]
    /\ Goto(w, "opened")
    /\ UNCHANGED <<ui, identityVars>> /\ Elsewhere

Create(w) ==
    /\ At(w, {"setup", "create"}, "opened")
    /\ CreateIdentity(Session)
    /\ Goto(w, "backup")
    /\ UNCHANGED <<ui, refs>> /\ Elsewhere

Encrypt(w) ==
    /\ At(w, {"setup", "create"}, "backup")
    /\ BeginBackup(Session)
    /\ UNCHANGED <<ui, refs, tasks>> /\ Elsewhere

BackedUp(w, phrase) ==
    LET more == tasks[w].kind = "setup" IN
    /\ At(w, {"setup", "create"}, "backup")
    /\ PutBackup(Session, phrase)
    /\ refs' = [refs EXCEPT !.backup = [key |-> job[Session].key, phrase |-> phrase]]
    /\ ui' = [ui EXCEPT !.phrase = phrase, !.busy = more]
    /\ IF more THEN Goto(w, "publish") ELSE End(w)
    /\ Elsewhere

(* Mutant: setup publishes the key before it has a backup. *)
PublishesAt(w) == At(w, {"setup"}, "backup") \/ At(w, {"publishKey"}, "opened")

PublishesNext(w) == At(w, {"setup"}, "publish") \/ At(w, {"publishKey"}, "opened")

SignKey(w) ==
    /\ PublishesNext(w)
    /\ BeginPublish(Session)
    /\ UNCHANGED <<ui, refs, tasks>> /\ Elsewhere

KeyPublished(w) ==
    /\ PublishesNext(w)
    /\ CommitPublish(Session)
    /\ ui' = [ui EXCEPT !.ready = TRUE, !.busy = FALSE,
                        !.draft = @ \/ tasks[w].kind = "setup"]
    /\ UNCHANGED refs
    /\ End(w) /\ Elsewhere

PrivateSet(w) ==
    /\ At(w, {"privateSet"}, "opened")
    /\ identity[Session] # 0
    /\ ui' = [ui EXCEPT !.rows = @ \cup {"private"}, !.later = @ \cup {"private"},
                        !.busy = FALSE]
    /\ UNCHANGED <<refs, identityVars>>
    /\ End(w) /\ Elsewhere

(* handlePrivateRestore: the last backup this page made, for whatever      *)
(* namespace, and else the stored one of this namespace.                   *)
RestoreIdentity(w) ==
    LET s == Session
        b == IF refs.backup # NoBackup THEN refs.backup
             ELSE stored[<<WalletOf[s], DappOf[s]>>]
    IN  /\ At(w, {"restore"}, "opened")
        /\ b # NoBackup
        /\ Restore(s, b, tasks[w].seen.phrase)
        /\ ui' = [ui EXCEPT !.ready = TRUE, !.draft = TRUE, !.busy = FALSE]
        /\ UNCHANGED refs
        /\ End(w) /\ Elsewhere

-----------------------------------------------------------------------------
(* Mutant: a catch block without its finally. *)
FailStillBusy(w) ==
    /\ tasks[w].kind \in Handlers \ {"reset"}
    /\ End(w)
    /\ UNCHANGED <<ui, refs, identityVars>> /\ Elsewhere

(* The catch blocks: an await of a handler rejects, or a check throws.     *)
(* Activation falls back to local mode.  A local store cannot fail.        *)
Fail(w) ==
    LET t == tasks[w]
        fallback == t.kind = "activate" /\ ui.mode = "onchain"
    IN  /\ t.kind \in Handlers \ {"reset"}
        /\ IF fallback
           THEN /\ Become([ui EXCEPT !.mode = "offchain"], refs.store)
                /\ tasks' = [tasks EXCEPT ![w] = Task("boot", ui, FALSE)]
           ELSE /\ ui' = [ui EXCEPT !.busy = FALSE]
                /\ End(w)
                /\ job' = [s \in Sessions |-> NoJob]
                /\ UNCHANGED <<refs, keys, identity, stored, backups, claims, lost>>
        /\ unsaved' = unsaved \cup
               (IF t.pc = "backup" THEN {identity[Session]} ELSE {})
        /\ t.pc = "ensure" => outcome[page] = "rejected"
        /\ UNCHANGED <<schemaVars, chain, visit, reloads>>

(* The fields that are never disabled: the namespace, the phrase, and the  *)
(* network select, whose presets come without a schema uid.  (The network  *)
(* selected is not kept: aligning the configuration to the wallet's        *)
(* network overrides it, unless it is "custom", which then may Fail.)      *)
Type ==
    /\ \/ /\ "namespace" \in visit
          /\ \E ns \in Namespaces : ui' = [ui EXCEPT !.input = ns]
       \/ /\ "phrase" \in visit
          /\ \E phrase \in Phrases : ui' = [ui EXCEPT !.phrase = phrase]
       \/ /\ "network" \in visit /\ ui.mode = "onchain"
          /\ ui' = [ui EXCEPT !.schema = ""]
    /\ UNCHANGED <<refs, tasks, identityVars>> /\ Elsewhere

(* Mutant: the toggle does not look at privateReady. *)
ToggleUnready ==
    /\ ~ui.busy
    /\ ui' = [ui EXCEPT !.draft = ~@]
    /\ UNCHANGED <<refs, tasks, identityVars>> /\ Elsewhere

(* handlePrivateModeToggle *)
TogglePrivate ==
    /\ ~ui.busy
    /\ ui.draft \/ ui.ready
    /\ ui' = [ui EXCEPT !.draft = ~@]
    /\ UNCHANGED <<refs, tasks, identityVars>> /\ Elsewhere

(* React renders the pending transition, whatever the page does by then. *)
CommitTransition ==
    /\ ui.clearing
    /\ ui' = [ui EXCEPT !.rows = ui.later, !.clearing = FALSE]
    /\ UNCHANGED <<refs, tasks, identityVars>> /\ Elsewhere

SwitchWallet(n) ==
    /\ "wallet" \in visit
    /\ chain' = n
    /\ UNCHANGED <<identityVars, schemaVars, ui, refs, tasks, visit, unsaved, reloads>>

(* The page is reloaded, whatever it was doing.  (A transaction of         *)
(* publishKey that it had sent counts as mined before.)                    *)
Reload ==
    /\ "reload" \in visit
    /\ reloads < MaxReloads
    /\ reloads' = reloads + 1
    /\ ui' = FirstView
    /\ refs' = [store |-> None, private |-> None, backup |-> NoBackup]
    /\ tasks' = Booting
    /\ identity' = [s \in Sessions |-> 0]
    /\ job' = [s \in Sessions |-> NoJob]
    /\ outcome' = [outcome EXCEPT ![page] = "idle"]
    /\ Abandon(page)
    /\ UNCHANGED <<keys, stored, backups, claims, lost, registered, chain, visit, unsaved>>

(* Other clients ensure schemas too. *)
OtherClients ==
    /\ \/ \E c \in Clients : EnsureStep(c)
       \/ \E x \in Schemas : LateRegister(x)
       \/ /\ "clients" \in visit
          /\ \E c \in Clients \ {page} : \E X \in Lists[c] : Ensure(c, X)
    /\ UNCHANGED <<identityVars, pageVars>>

Step(w) ==
    \/ Boot(w) \/ Reset(w) \/ Connect(w) \/ Record(w) \/ SchemaPublished(w)
    \/ OpenPrivate(w) \/ Create(w) \/ Encrypt(w) \/ SignKey(w) \/ KeyPublished(w)
    \/ PrivateSet(w) \/ RestoreIdentity(w) \/ Fail(w)
    \/ \E phrase \in Phrases : BackedUp(w, phrase)
    \/ \E k \in Kinds : EnsureOnWalletChain(w, k)

Next ==
    \/ \E w \in Workers : Step(w) \/ LocalMode(w) \/ \E kind \in Handlers : Click(w, kind)
    \/ \E n \in Networks : SwitchWallet(n)
    \/ Type \/ TogglePrivate \/ CommitTransition \/ Reload \/ OtherClients

Spec == Init /\ [][Next]_vars

(* While promises that the page awaits are pending, one of them settles.   *)
Settles ==
    \/ \E w \in Workers : Step(w)
    \/ EnsureStep(page) /\ UNCHANGED <<identityVars, pageVars>>

Fairness == WF_vars(Settles)

FairSpec == Spec /\ Fairness

-----------------------------------------------------------------------------
Stores == [mode: Modes, namespace: Namespaces] \cup {None}
View == [mode: Modes, input: Namespaces, active: Namespaces,
         schema: Kinds \cup {""}, ready: BOOLEAN, draft: BOOLEAN,
         phrase: Phrases \cup {""}, rows: SUBSET {"own", "private", "old"},
         later: SUBSET {"own", "private", "old"}, clearing: BOOLEAN, busy: BOOLEAN]
TaskState == [kind: Handlers \cup {"boot"}, cancelled: BOOLEAN,
              pc: {"start", "ensure", "opened", "backup", "publish"},
              seen: [input: Namespaces] \cup [input: Namespaces, schema: Kinds \cup {""}]
                    \cup [mode: Modes] \cup [mode: Modes, phrase: Phrases \cup {""}]
                    \cup [schema: Kinds] \cup {<<>>}]

(* A failed backup is of a key, and only generated keys are held. *)
TypeOK ==
    /\ IdentityTypeOK
    /\ SchemaTypeOK
    /\ ui \in View
    /\ refs \in [store: Stores, private: Stores, backup: Backup \cup {NoBackup}]
    /\ tasks \in [Workers -> TaskState \cup {NoTask}]
    /\ chain \in Networks /\ visit \in Visits /\ reloads \in 0..MaxReloads
    /\ \A k \in unsaved : Issued(k)

(* While the page is not busy nothing runs that could still change it, and *)
(* while it is, exactly one handler does: StrictMode's second boot, a      *)
(* fallback's boot and a reload included (App.tsx:714).                    *)
BusyMeansRunning ==
    Cardinality({w \in Workers : tasks[w] # NoTask /\ ~(tasks[w].kind = "boot" /\ tasks[w].cancelled)})
        = IF ui.busy THEN 1 ELSE 0

(* What an idle page shows is what it uses: the store is of the mode and   *)
(* namespace on screen, and so is the private store, whatever was typed or *)
(* failed while they were made (App.tsx:635, 656-666, 768).                *)
StoresMatchTheView ==
    /\ ~ui.busy /\ refs.store # None =>
          refs.store = [mode |-> ui.mode, namespace |-> ui.active]
    /\ refs.private # None =>
          refs.private = [mode |-> ui.mode, namespace |-> ui.active]

(* Private mode is on, or offered, only with a private store that holds an *)
(* identity of the mode's wallet (App.tsx:1022, 1186).                     *)
PrivateModeHasIdentity ==
    ui.ready \/ ui.draft =>
        /\ refs.private # None
        /\ \E k \in {identity[<<ui.mode, ui.active>>]} :
              k # 0 /\ keys[k].wallet = WalletOf[<<ui.mode, ui.active>>]

(* Rows of a store that was replaced stay in the table of an idle page     *)
(* only while React has not rendered clearOutputs' transition, and that    *)
(* render takes away these rows and no others: none written since to the   *)
(* store in use (App.tsx:611-618, 621), whatever was reset, connected or   *)
(* failed meanwhile, unless publishing a schema took the store away.       *)
RowsAreOfTheStoreInUse ==
    ~ui.busy /\ refs.store # None =>
        /\ ui.later = ui.rows \ {"old"}
        /\ ui.clearing \/ ui.rows = ui.later

(* No crash, reload or failure makes the page publish a key that cannot be *)
(* restored: it was backed up first, or the user saw its backup fail       *)
(* (App.tsx:1109-1115).                                                    *)
PublishedWasBackedUp ==
    \A x \in Slots : \A i \in DOMAIN claims[x] :
        \/ claims[x][i] \in unsaved
        \/ \E b \in backups : b.key = claims[x][i]

(* The buttons always come back. *)
BusyEnds == ui.busy ~> ~ui.busy
=============================================================================
