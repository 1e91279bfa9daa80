------------------------------ MODULE DemoProofs ------------------------------
(***************************************************************************)
(* Proofs about the demo page, for any namespaces, networks, handlers and  *)
(* reloads: one handler runs while the page is busy and none otherwise,    *)
(* and what it shows is what it uses.                                      *)
(***************************************************************************)
EXTENDS Demo, IdentityProofs, SchemaRegistryProofs

(* The handlers that can still change the page. *)
Active(w) == tasks[w] # NoTask /\ ~(tasks[w].kind = "boot" /\ tasks[w].cancelled)
Actives == {w \in Workers : Active(w)}

Booted == \E w \in Actives : tasks[w].kind = "boot"

OneHandler == IF ui.busy THEN \E w \in Workers : Actives = {w} ELSE Actives = {}

(* What a handler has captured and reached, by its kind. *)
ShapeOf(t) ==
    /\ t.kind \in {"boot", "reset", "connect", "activate"} => t.seen.input \in Namespaces
    /\ t.kind \in {"connect", "activate"} => t.seen.schema \in Kinds \cup {""}
    /\ t.kind = "publishSchema" /\ t.pc = "ensure" => t.seen.schema \in Kinds
    /\ t.kind \in PrivateHandlers =>
          /\ t.seen.mode = ui.mode
          /\ t.pc # "start" => refs.private # None
    /\ t # NoTask /\ t.pc \in {"opened", "backup", "publish"} => t.kind \in PrivateHandlers
    /\ t # NoTask /\ t.pc = "backup" => t.kind \in {"setup", "create"} /\ identity[Session] # 0

TaskShapes == \A w \in Workers : ShapeOf(tasks[w])

(* The stores are those of the view, except that a boot has yet to replace *)
(* the store after a change of mode. *)
StoresFollow ==
    /\ refs.store # None /\ ~Booted => refs.store = [mode |-> ui.mode, namespace |-> ui.active]
    /\ refs.private # None => refs.private = [mode |-> ui.mode, namespace |-> ui.active]

(* What a pending transition takes away are stale rows, and what it leaves *)
(* are rows of the store in use.                                           *)
Tidy(u) ==
    /\ u.later \ {"old"} = u.rows \ {"old"}
    /\ u.clearing \/ u.rows = u.later

RowsFollow ==
    /\ Tidy(ui)
    /\ refs.store # None /\ ~Booted => "old" \notin ui.later

(* Only the session of the private store has an identity, and private mode *)
(* is only on with one.                                                    *)
IdentityFollows ==
    /\ \A s \in Sessions : identity[s] # 0 => refs.private # None /\ s = Session
    /\ ui.ready \/ ui.draft => refs.private # None /\ identity[Session] # 0

BackingUp(w) == tasks[w].kind \in {"setup", "create"} /\ tasks[w].pc = "backup"

(* A backup or publication in progress is of the present identity and of   *)
(* the handler that is at that point.                                      *)
JobsFollow ==
    \A s \in Sessions : job[s].pc # "idle" =>
        /\ job[s].key = identity[s] /\ identity[s] # 0
        /\ \E w \in Actives :
              \/ job[s].pc = "backup" /\ BackingUp(w)
              \/ job[s].pc = "publish" /\ PublishesNext(w)

Saved(k) == k \in unsaved \/ \E b \in backups : b.key = k

(* Backups are kept, and the identity is backed up, was seen to fail, or   *)
(* is on its way.                                                          *)
BackupsFollow ==
    /\ refs.backup \in backups \cup {NoBackup}
    /\ \A x \in Slots : stored[x] \in backups \cup {NoBackup}
    /\ \A s \in Sessions : identity[s] # 0 => Saved(identity[s]) \/ \E w \in Actives : BackingUp(w)
    /\ \A s \in Sessions : job[s].pc = "publish" => Saved(job[s].key)
    /\ PublishedWasBackedUp

(* The inductive invariant. *)
PageInv ==
    /\ TypeOK /\ IdentityInv /\ SchemaInv
    /\ OneHandler /\ TaskShapes
    /\ StoresFollow /\ RowsFollow
    /\ IdentityFollows /\ JobsFollow /\ BackupsFollow

-----------------------------------------------------------------------------
(* Helpers *)

(* A restriction of a record to some of its fields is a record. *)
LEMMA Fields ==
    ASSUME NEW u
    PROVE  /\ [f \in {"input"} |-> u[f]] = [input |-> u.input]
           /\ [f \in {"input", "schema"} |-> u[f]] = [input |-> u.input, schema |-> u.schema]
           /\ [f \in {"mode"} |-> u[f]] = [mode |-> u.mode]
           /\ [f \in {"mode", "phrase"} |-> u[f]] = [mode |-> u.mode, phrase |-> u.phrase]
           /\ [f \in {} |-> u[f]] = <<>>
<1>1. [f \in {"input"} |-> u[f]] = [input |-> u.input]
  BY SMT
<1>2. [f \in {"input", "schema"} |-> u[f]] = [input |-> u.input, schema |-> u.schema]
  BY SMT
<1>3. [f \in {"mode"} |-> u[f]] = [mode |-> u.mode]
  BY SMT
<1>4. [f \in {"mode", "phrase"} |-> u[f]] = [mode |-> u.mode, phrase |-> u.phrase]
  BY SMT
<1>5. [f \in {} |-> u[f]] = <<>>
  <2>1. [f \in {} |-> u[f]] \in [1..0 -> {}]
    OBVIOUS
  <2>2. [f \in {} |-> u[f]] \in Seq({})
    BY <2>1, SeqDef
  <2> QED
    BY <2>1, <2>2, EmptySeq, LenProperties
<1> QED
  BY <1>1, <1>2, <1>3, <1>4, <1>5

(* What a handler captures when it starts. *)
LEMMA Captures ==
    ASSUME NEW u
    PROVE  /\ \A kind \in {"boot", "reset"} :
                 [f \in Closure(kind) |-> u[f]] = [input |-> u.input]
           /\ \A kind \in {"connect", "activate"} :
                 [f \in Closure(kind) |-> u[f]] = [input |-> u.input, schema |-> u.schema]
           /\ [f \in Closure("restore") |-> u[f]] = [mode |-> u.mode, phrase |-> u.phrase]
           /\ \A kind \in {"setup", "create", "publishKey", "privateSet"} :
                 [f \in Closure(kind) |-> u[f]] = [mode |-> u.mode]
           /\ \A kind \in {"record", "publishSchema"} : [f \in Closure(kind) |-> u[f]] = <<>>
<1>1. \A kind \in {"boot", "reset"} : Closure(kind) = {"input"}
  BY DEF Closure, PrivateHandlers
<1>2. \A kind \in {"connect", "activate"} : Closure(kind) = {"input", "schema"}
  BY DEF Closure, PrivateHandlers
<1>3. Closure("restore") = {"mode", "phrase"}
  BY DEF Closure, PrivateHandlers
<1>4. \A kind \in {"setup", "create", "publishKey", "privateSet"} : Closure(kind) = {"mode"}
  BY DEF Closure, PrivateHandlers
<1>5. \A kind \in {"record", "publishSchema"} : Closure(kind) = {}
  BY DEF Closure, PrivateHandlers
<1> QED
  BY <1>1, <1>2, <1>3, <1>4, <1>5, Fields, Zenon

(* A new handler is well formed. *)
LEMMA TaskFacts ==
    ASSUME NEW kind \in Handlers \cup {"boot"}, NEW u \in View, NEW cancelled \in BOOLEAN
    PROVE  /\ Task(kind, u, cancelled) \in TaskState
           /\ Task(kind, u, cancelled).kind = kind
           /\ Task(kind, u, cancelled).pc = "start"
           /\ Task(kind, u, cancelled).cancelled = cancelled
           /\ kind \in {"boot", "reset", "connect", "activate"} =>
                 Task(kind, u, cancelled).seen.input = u.input
           /\ kind \in {"connect", "activate"} =>
                 Task(kind, u, cancelled).seen.schema = u.schema
           /\ kind \in PrivateHandlers => Task(kind, u, cancelled).seen.mode = u.mode
<1> DEFINE seen == [f \in Closure(kind) |-> u[f]]
           Seen == [input: Namespaces] \cup [input: Namespaces, schema: Kinds \cup {""}]
                   \cup [mode: Modes] \cup [mode: Modes, phrase: Phrases \cup {""}]
                   \cup [schema: Kinds] \cup {<<>>}
<1>1. /\ u.input \in Namespaces /\ u.schema \in Kinds \cup {""} /\ u.mode \in Modes
      /\ u.phrase \in Phrases \cup {""}
  BY DEF View
<1>2. /\ seen \in Seen
      /\ kind \in {"boot", "reset", "connect", "activate"} => seen.input = u.input
      /\ kind \in {"connect", "activate"} => seen.schema = u.schema
      /\ kind \in PrivateHandlers => seen.mode = u.mode
  <2>1. CASE kind \in {"boot", "reset"}
    <3>1. seen = [input |-> u.input]
      BY <2>1, Captures
    <3> HIDE DEF seen
    <3> QED
      BY <1>1, <2>1, <3>1 DEF PrivateHandlers
  <2>2. CASE kind \in {"connect", "activate"}
    <3>1. seen = [input |-> u.input, schema |-> u.schema]
      BY <2>2, Captures
    <3> HIDE DEF seen
    <3> QED
      BY <1>1, <2>2, <3>1 DEF PrivateHandlers
  <2>3. CASE kind = "restore"
    <3>1. seen = [mode |-> u.mode, phrase |-> u.phrase]
      BY <2>3, Captures
    <3> HIDE DEF seen
    <3> QED
      BY <1>1, <2>3, <3>1
  <2>4. CASE kind \in {"setup", "create", "publishKey", "privateSet"}
    <3>1. seen = [mode |-> u.mode]
      BY <2>4, Captures
    <3> HIDE DEF seen
    <3> QED
      BY <1>1, <2>4, <3>1
  <2>5. CASE kind \in {"record", "publishSchema"}
    <3>1. seen = <<>>
      <4>1. Closure(kind) = {}
        BY <2>5 DEF Closure, PrivateHandlers
      <4>2. [f \in {} |-> u[f]] = <<>>
        BY Fields
      <4> QED
        BY <4>1, <4>2
    <3>2. kind \notin {"boot", "reset", "connect", "activate"} \cup PrivateHandlers
      BY <2>5 DEF PrivateHandlers
    <3>3. seen \in {<<>>}
      BY <3>1
    <3> HIDE DEF seen
    <3> QED
      BY <3>2, <3>3, Zenon
  <2> QED
    BY <2>1, <2>2, <2>3, <2>4, <2>5 DEF Handlers
<1>3. Task(kind, u, cancelled) =
          [kind |-> kind, pc |-> "start", cancelled |-> cancelled, seen |-> seen]
  BY DEF Task
<1>4. TaskState = [kind: Handlers \cup {"boot"}, cancelled: BOOLEAN,
                   pc: {"start", "ensure", "opened", "backup", "publish"}, seen: Seen]
  BY DEF TaskState
<1> HIDE DEF seen, Seen
<1> QED
  BY <1>2, <1>3, <1>4

(* The identity part of the invariant bears a page that forgets identities *)
(* and jobs.                                                               *)
LEMMA ForgetIdentities ==
    ASSUME IdentityInv, UNCHANGED <<keys, stored, backups, claims, lost>>,
           identity' = identity \/ identity' = [s \in Sessions |-> 0],
           job' = job \/ job' = [s \in Sessions |-> NoJob]
    PROVE  IdentityInv'
<1> USE DEF IdentityInv
<1>1. /\ identity' \in [Sessions -> Nat]
      /\ \A s \in Sessions : identity'[s] # 0 => identity'[s] = identity[s]
  BY DEF IdentityTypeOK
<1>2. /\ job' \in [Sessions -> [pc: {"idle", "backup", "publish"}, key: Nat, base: Nat]]
      /\ \A s \in Sessions : job'[s].pc # "idle" => job'[s] = job[s]
  BY DEF IdentityTypeOK, NoJob
<1>3. IdentityTypeOK'
  BY <1>1, <1>2 DEF IdentityTypeOK, Issued
<1>4. StoredIsIssued'
  BY DEF StoredIsIssued, Issued
<1>5. KeysStayWithTheirWallet'
  BY <1>1 DEF KeysStayWithTheirWallet, Issued, SlotOf
<1> QED
  BY <1>3, <1>4, <1>5

(* A handler in progress is the one that the page is busy with. *)
LEMMA HandlerFacts ==
    ASSUME PageInv, NEW w \in Workers, tasks[w].kind \in Handlers
    PROVE  /\ tasks[w] \in TaskState /\ tasks[w] # NoTask
           /\ Active(w) /\ Actives = {w} /\ ui.busy
<1>1. tasks[w] \in TaskState \cup {NoTask} /\ tasks[w] # NoTask /\ tasks[w].kind # "boot"
  BY DEF PageInv, TypeOK, NoTask, Handlers
<1>2. Active(w)
  BY <1>1 DEF Active
<1> QED
  BY <1>1, <1>2 DEF PageInv, OneHandler, Actives

(* A worker without a handler of the user's is free or runs a boot. *)
BootShape(t) ==
    t.kind = "boot" /\ t.seen.input \in Namespaces /\ t.pc \notin {"opened", "backup", "publish"}

LEMMA NoHandler ==
    ASSUME PageInv, NEW w \in Workers, tasks[w].kind \notin Handlers
    PROVE  tasks[w] = NoTask \/ BootShape(tasks[w])
<1>1. CASE tasks[w] = NoTask
  BY <1>1
<1>2. CASE tasks[w] # NoTask
  <2>1. tasks[w] \in TaskState
    BY <1>2 DEF PageInv, TypeOK
  <2>2. tasks[w].kind = "boot"
    BY <2>1 DEF TaskState
  <2> QED
    BY <1>2, <2>2 DEF PageInv, TaskShapes, ShapeOf, BootShape, PrivateHandlers
<1> QED
  BY <1>1, <1>2

LEMMA BootShapes ==
    ASSUME NEW t, t = NoTask \/ BootShape(t)
    PROVE  /\ t.kind \in {"boot", "none"}
           /\ t.kind = "boot" => t.seen.input \in Namespaces
           /\ t # NoTask => t.pc \notin {"opened", "backup", "publish"}
<1>1. CASE t = NoTask
  BY <1>1 DEF NoTask
<1>2. CASE BootShape(t)
  BY <1>2 DEF BootShape
<1> QED
  BY <1>1, <1>2

(* The private store's session is that of the view. *)
LEMMA SessionFacts ==
    ASSUME PageInv, refs.private # None
    PROVE  Session = <<ui.mode, ui.active>> /\ Session \in Sessions
<1>1. ui.mode \in Modes /\ ui.active \in Namespaces
  BY DEF PageInv, TypeOK, View
<1>2. refs.private = [mode |-> ui.mode, namespace |-> ui.active]
  BY DEF PageInv, StoresFollow
<1> QED
  BY <1>1, <1>2, Pages DEF Session

(* Nothing is being backed up or published unless a handler does it. *)
LEMMA NoJobs ==
    ASSUME PageInv,
           \A w \in Actives : tasks[w].kind \notin {"setup", "create", "publishKey"}
    PROVE  \A s \in Sessions : job[s].pc = "idle"
BY DEF PageInv, JobsFollow, BackingUp, PublishesNext, At

(* A step that leaves handlers, stores and identities alone. *)
LEMMA ViewStep ==
    ASSUME PageInv, ui' \in View,
           UNCHANGED <<refs, tasks, identityVars, visit, unsaved, reloads>>,
           SchemaInv', chain' \in Networks,
           ui'.mode = ui.mode, ui'.active = ui.active, ui'.busy = ui.busy,
           Tidy(ui'), "old" \in ui'.later => "old" \in ui.later,
           ui'.ready \/ ui'.draft => ui.ready \/ ui.draft
    PROVE  PageInv'
<1> USE DEF PageInv
<1>1. UNCHANGED <<keys, identity, stored, backups, claims, lost, job>>
  BY DEF identityVars
<1>2. IdentityInv'
  BY StutterIdentityInv
<1>3. TypeOK'
  BY <1>1, <1>2 DEF TypeOK, IdentityInv, SchemaInv, Issued
<1>4. Actives' = Actives /\ Booted' = Booted /\ Session' = Session
  BY DEF Actives, Active, Booted, Session
<1>5. OneHandler' /\ TaskShapes'
  BY <1>1, <1>4 DEF OneHandler, TaskShapes, ShapeOf
<1>6. StoresFollow' /\ RowsFollow' /\ IdentityFollows'
  BY <1>1, <1>4 DEF StoresFollow, RowsFollow, IdentityFollows
<1>7. JobsFollow'
  BY <1>1, <1>4 DEF JobsFollow, BackingUp, PublishesNext, At
<1>8. BackupsFollow'
  BY <1>1, <1>4 DEF BackupsFollow, Saved, BackingUp, PublishedWasBackedUp
<1> QED
  BY <1>2, <1>3, <1>5, <1>6, <1>7, <1>8

(* A handler ends, without leaving the mode and namespace. *)
LEMMA EndStep ==
    ASSUME PageInv, NEW w \in Workers, tasks[w].kind \in Handlers, End(w),
           ui' \in View, refs' \in [store: Stores, private: Stores, backup: Backup \cup {NoBackup}],
           UNCHANGED <<schemaVars, chain, visit, reloads>>,
           ui'.mode = ui.mode, ui'.active = ui.active, ~ui'.busy,
           refs'.private = refs.private, refs'.store \in {refs.store, None},
           Tidy(ui'), "old" \in ui'.later => "old" \in ui.later \/ refs'.store = None,
           IdentityInv', \A k \in unsaved' : Issued(k)',
           IdentityFollows', \A s \in Sessions : job'[s].pc = "idle", BackupsFollow'
    PROVE  PageInv'
<1> USE DEF PageInv
<1>1. Actives = {w} /\ tasks' = [tasks EXCEPT ![w] = NoTask]
  BY HandlerFacts DEF End
<1>2. tasks' \in [Workers -> TaskState \cup {NoTask}]
  BY <1>1 DEF TypeOK
<1>3. \A v \in Workers : tasks'[v] = IF v = w THEN NoTask ELSE tasks[v]
  BY <1>1 DEF TypeOK
<1>4. Actives' = {}
  BY <1>1, <1>3 DEF Actives, Active
<1>5. SchemaInv' /\ SchemaTypeOK'
  BY NextSchemaInv DEF SchemaInv
<1>6. TypeOK'
  BY <1>2, <1>5 DEF TypeOK, IdentityInv
<1>7. OneHandler'
  BY <1>4 DEF OneHandler
<1>8. TaskShapes'
  <2>1. \A v \in Workers : v # w => tasks[v].kind \notin Handlers
    BY <1>1, HandlerFacts
  <2>2. \A v \in Workers : v # w => tasks[v] = NoTask \/ BootShape(tasks[v])
    BY <2>1, NoHandler
  <2>3. \A v \in Workers : tasks'[v] = NoTask \/ BootShape(tasks'[v])
    BY <1>3, <2>2
  <2>4. \A v \in Workers :
            /\ tasks'[v].kind \in {"boot", "none"}
            /\ tasks'[v].kind = "boot" => tasks'[v].seen.input \in Namespaces
            /\ tasks'[v] # NoTask => tasks'[v].pc \notin {"opened", "backup", "publish"}
    BY <2>3, BootShapes
  <2> QED
    BY <2>4 DEF TaskShapes, ShapeOf, PrivateHandlers
<1>9. Booted \/ Booted' => FALSE
  BY <1>1, <1>4 DEF Booted, Handlers
<1>10. StoresFollow' /\ RowsFollow'
  BY <1>9 DEF StoresFollow, RowsFollow
<1>11. JobsFollow'
  BY DEF JobsFollow
<1> QED
  BY <1>5, <1>6, <1>7, <1>8, <1>10, <1>11

AgedTogether(u, aged, later) ==
    /\ aged \subseteq {"own", "private", "old"} /\ later \subseteq {"own", "private", "old"}
    /\ later \ {"old"} = aged \ {"old"}
    /\ u.clearing \/ aged = later
    /\ u.later = {} => later = {}

(* Rows that turn stale do so in what is shown and in what will be. *)
LEMMA AgingIsTidy ==
    ASSUME NEW u \in View, Tidy(u)
    PROVE  \A r \in {"own", "private"} : AgedTogether(u, Aged(u.rows, r), Aged(u.later, r))
<1> SUFFICES ASSUME NEW r \in {"own", "private"}
             PROVE  AgedTogether(u, Aged(u.rows, r), Aged(u.later, r))
  OBVIOUS
<1>1. u.rows \subseteq {"own", "private", "old"} /\ u.later \subseteq {"own", "private", "old"}
  BY DEF View
<1> QED
  BY <1>1 DEF AgedTogether, Aged, Tidy

(* What Become does to the page and to its private store. *)
LEMMA BecomeFacts ==
    ASSUME PageInv, NEW u \in View, Tidy(u), NEW d \in Stores, Become(u, d)
    PROVE  /\ ui' \in View
           /\ ui'.mode = u.mode /\ ui'.active = u.active /\ ui'.busy = u.busy
           /\ Tidy(ui') /\ (u.later = {} => ui'.later = {})
           /\ refs' \in [store: Stores, private: Stores, backup: Backup \cup {NoBackup}]
           /\ refs'.store = d /\ refs'.backup = refs.backup
           /\ IdentityInv'
           /\ UNCHANGED <<keys, stored, backups, claims, lost, job>>
           /\ \/ /\ u.mode # ui.mode \/ u.active # ui.active
                 /\ refs'.private = None
                 /\ ~ui'.ready /\ ~ui'.draft
                 /\ \A s \in Sessions : identity'[s] = 0
              \/ /\ u.mode = ui.mode /\ u.active = ui.active
                 /\ refs'.private = refs.private
                 /\ ui'.ready = u.ready /\ ui'.draft = u.draft
                 /\ identity' = identity
<1> DEFINE drop == DropPrivate(u.mode, u.active)
<1>1. /\ ui' = IF ~drop THEN u
               ELSE [u EXCEPT !.ready = FALSE, !.draft = FALSE,
                              !.rows = Aged(u.rows, "private"),
                              !.later = Aged(u.later, "private")]
      /\ refs' = [refs EXCEPT !.store = d, !.private = IF drop THEN None ELSE refs.private]
      /\ identity' = IF drop THEN [s \in Sessions |-> 0] ELSE identity
      /\ UNCHANGED <<keys, stored, backups, claims, lost, job>>
  BY DEF Become
<1>2. refs \in [store: Stores, private: Stores, backup: Backup \cup {NoBackup}]
  BY DEF PageInv, TypeOK
<1>3. /\ refs' \in [store: Stores, private: Stores, backup: Backup \cup {NoBackup}]
      /\ refs'.store = d /\ refs'.backup = refs.backup
      /\ refs'.private = IF drop THEN None ELSE refs.private
  <2>1. None \in Stores
    BY DEF Stores
  <2> HIDE DEF drop
  <2> QED
    BY <1>1, <1>2, <2>1
<1>4. IdentityInv'
  BY <1>1, ForgetIdentities DEF PageInv
<1>5. CASE drop
  <2> DEFINE aged == Aged(u.rows, "private")
             later == Aged(u.later, "private")
  <2>1. AgedTogether(u, aged, later)
    BY AgingIsTidy
  <2>2. ui' = [u EXCEPT !.ready = FALSE, !.draft = FALSE, !.rows = aged, !.later = later]
    BY <1>1, <1>5
  <2> HIDE DEF aged, later
  <2>3. /\ ui' \in View /\ ui'.mode = u.mode /\ ui'.active = u.active /\ ui'.busy = u.busy
        /\ ~ui'.ready /\ ~ui'.draft
        /\ ui'.rows = aged /\ ui'.later = later /\ ui'.clearing = u.clearing
    BY <2>1, <2>2 DEF View, AgedTogether
  <2>5. Tidy(ui') /\ (u.later = {} => ui'.later = {})
    BY <2>1, <2>3 DEF Tidy, AgedTogether
  <2>4. u.mode # ui.mode \/ u.active # ui.active
    BY <1>5 DEF DropPrivate
  <2> QED
    BY <1>1, <1>3, <1>4, <1>5, <2>3, <2>4, <2>5
<1>6. CASE ~drop
  <2>1. ui' = u /\ identity' = identity
    BY <1>1, <1>6
  <2>2. u.mode = ui.mode /\ u.active = ui.active
    BY <1>6 DEF DropPrivate
  <2> QED
    BY <1>1, <1>3, <1>4, <1>6, <2>1, <2>2
<1> QED
  BY <1>5, <1>6

(* A handler ends by putting a new store in place (applyDemoStore). *)
LEMMA ReplaceStep ==
    ASSUME PageInv, NEW w \in Workers, Active(w), tasks[w].kind \notin PrivateHandlers,
           NEW u \in View, NEW ns \in Namespaces, NEW d \in {Local(ns), Onchain(ns)},
           u.ready = ui.ready, u.draft = ui.draft, Apply(u, d), End(w), Elsewhere
    PROVE  PageInv'
<1> USE DEF PageInv
<1> DEFINE v == [u EXCEPT !.mode = d.mode, !.active = d.namespace, !.input = d.namespace,
                          !.rows = RowsOfBefore, !.later = {}, !.clearing = TRUE, !.busy = FALSE]
<1>1. d \in Stores /\ d # None /\ d = [mode |-> d.mode, namespace |-> d.namespace]
      /\ d.mode \in Modes /\ d.namespace \in Namespaces
  BY DEF Local, Onchain, Stores, Modes, None
<1>2. /\ v \in View /\ v.mode = d.mode /\ v.active = d.namespace /\ ~v.busy
      /\ v.ready = ui.ready /\ v.draft = ui.draft
      /\ v.later = {} /\ Tidy(v)
  <2>1. RowsOfBefore \subseteq {"old"}
    BY DEF RowsOfBefore
  <2>2. v \in View /\ v.rows = RowsOfBefore /\ v.later = {} /\ v.clearing
    BY <1>1, <2>1 DEF View
  <2> QED
    BY <1>1, <2>1, <2>2 DEF View, Tidy
<1>3. Become(v, d)
  BY DEF Apply, ClearedRows
<1> HIDE DEF v
<1>4. /\ ui' \in View /\ ui'.mode = d.mode /\ ui'.active = d.namespace /\ ~ui'.busy
      /\ Tidy(ui') /\ ui'.later = {}
      /\ refs' \in [store: Stores, private: Stores, backup: Backup \cup {NoBackup}]
      /\ refs'.store = d /\ refs'.backup = refs.backup
      /\ IdentityInv'
      /\ UNCHANGED <<keys, stored, backups, claims, lost, job>>
      /\ \/ /\ refs'.private = None
            /\ ~ui'.ready /\ ~ui'.draft
            /\ \A s \in Sessions : identity'[s] = 0
         \/ /\ ui.mode = d.mode /\ ui.active = d.namespace
            /\ refs'.private = refs.private
            /\ ui'.ready = ui.ready /\ ui'.draft = ui.draft
            /\ identity' = identity
  BY <1>1, <1>2, <1>3, BecomeFacts
<1>5. /\ tasks' = [tasks EXCEPT ![w] = NoTask]
      /\ UNCHANGED <<schemaVars, chain, visit, unsaved, reloads>>
  BY DEF End, Elsewhere
<1>6. Actives = {w}
  BY DEF OneHandler, Actives
<1>7. \A x \in Workers : tasks'[x] = IF x = w THEN NoTask ELSE tasks[x]
  BY <1>5 DEF TypeOK
<1>8. Actives' = {}
  BY <1>6, <1>7 DEF Actives, Active
<1>9. SchemaInv' /\ SchemaTypeOK'
  BY <1>5, NextSchemaInv DEF SchemaInv
<1>10. TypeOK'
  <2>1. tasks' \in [Workers -> TaskState \cup {NoTask}]
    BY <1>5 DEF TypeOK
  <2> QED
    BY <1>4, <1>5, <1>9, <2>1 DEF TypeOK, IdentityInv, Issued
<1>11. OneHandler'
  BY <1>4, <1>8 DEF OneHandler
<1>12. TaskShapes'
  <2>1. \A x \in Workers : x # w => tasks[x].kind \notin Handlers
    BY <1>6, HandlerFacts
  <2>2. \A x \in Workers : x # w => tasks[x] = NoTask \/ BootShape(tasks[x])
    BY <2>1, NoHandler
  <2>3. \A x \in Workers : tasks'[x] = NoTask \/ BootShape(tasks'[x])
    BY <1>7, <2>2
  <2>4. \A x \in Workers :
            /\ tasks'[x].kind \in {"boot", "none"}
            /\ tasks'[x].kind = "boot" => tasks'[x].seen.input \in Namespaces
            /\ tasks'[x] # NoTask => tasks'[x].pc \notin {"opened", "backup", "publish"}
    BY <2>3, BootShapes
  <2> QED
    BY <2>4 DEF TaskShapes, ShapeOf, PrivateHandlers
<1>13. StoresFollow'
  BY <1>1, <1>4 DEF StoresFollow
<1>14. RowsFollow'
  BY <1>4 DEF RowsFollow
<1>15. IdentityFollows'
  <2>1. CASE refs'.private = None /\ ~ui'.ready /\ ~ui'.draft /\ \A s \in Sessions : identity'[s] = 0
    BY <2>1 DEF IdentityFollows
  <2>2. CASE refs'.private = refs.private /\ identity' = identity
             /\ ui'.ready = ui.ready /\ ui'.draft = ui.draft
    BY <2>2 DEF IdentityFollows, Session
  <2> QED
    BY <1>4, <2>1, <2>2
<1>16. \A s \in Sessions : job[s].pc = "idle"
  <2>1. \A x \in Actives : tasks[x].kind \notin {"setup", "create", "publishKey"}
    BY <1>6 DEF PrivateHandlers
  <2> QED
    BY <2>1, NoJobs
<1>17. JobsFollow'
  BY <1>4, <1>16 DEF JobsFollow
<1>18. BackupsFollow'
  <2>1. \A s \in Sessions : identity'[s] # 0 => Saved(identity'[s])
    <3>1. \A x \in Actives : ~BackingUp(x)
      BY <1>6 DEF BackingUp, PrivateHandlers
    <3>2. \A s \in Sessions : identity[s] # 0 => Saved(identity[s])
      BY <3>1 DEF BackupsFollow
    <3> QED
      BY <1>4, <3>2
  <2> QED
    BY <1>4, <1>5, <1>16, <2>1 DEF BackupsFollow, Saved, PublishedWasBackedUp
<1> QED
  BY <1>4, <1>9, <1>10, <1>11, <1>12, <1>13, <1>14, <1>15, <1>17, <1>18

(* A new boot. *)
LEMMA BootTask ==
    ASSUME NEW u \in View
    PROVE  \A b \in BOOLEAN :
             LET t == Task("boot", u, b) IN
             t \in TaskState /\ BootShape(t) /\ t.kind = "boot" /\ t.cancelled = b /\ t # NoTask
<1> SUFFICES ASSUME NEW b \in BOOLEAN
             PROVE  LET t == Task("boot", u, b) IN
                    t \in TaskState /\ BootShape(t) /\ t.kind = "boot" /\ t.cancelled = b /\ t # NoTask
  OBVIOUS
<1> DEFINE t == Task("boot", u, b)
<1>1. t \in TaskState /\ t.kind = "boot" /\ t.cancelled = b /\ t.pc = "start" /\ t.seen.input = u.input
  BY TaskFacts
<1>2. u.input \in Namespaces
  BY DEF View
<1> HIDE DEF t
<1>3. BootShape(t) /\ t # NoTask
  BY <1>1, <1>2 DEF BootShape, NoTask
<1> QED
  BY <1>1, <1>3 DEF t

(* The mode turns local, and the local store has yet to be made. *)
LEMMA LocalStep ==
    ASSUME PageInv, NEW w \in Workers, NEW u \in View,
           \A x \in Workers \ {w} : ~Active(x),
           ~Active(w) \/ tasks[w].kind = "activate",
           u.mode = "offchain", ui.mode = "onchain", u.active = ui.active, u.busy,
           Tidy(u), Become(u, refs.store), tasks' = [tasks EXCEPT ![w] = Task("boot", ui, FALSE)],
           UNCHANGED <<schemaVars, chain, visit, unsaved, reloads>>
    PROVE  PageInv'
<1> USE DEF PageInv
<1> DEFINE t == Task("boot", ui, FALSE)
<1>1. refs.store \in Stores /\ ui \in View
  BY DEF TypeOK
<1>2. /\ ui' \in View /\ ui'.mode = "offchain" /\ ui'.active = ui.active /\ ui'.busy
      /\ ~ui'.ready /\ ~ui'.draft /\ Tidy(ui')
      /\ refs' \in [store: Stores, private: Stores, backup: Backup \cup {NoBackup}]
      /\ refs'.private = None /\ refs'.backup = refs.backup
      /\ IdentityInv'
      /\ UNCHANGED <<keys, stored, backups, claims, lost, job>>
      /\ \A s \in Sessions : identity'[s] = 0
  BY <1>1, BecomeFacts
<1>3. t \in TaskState /\ BootShape(t) /\ t.kind = "boot" /\ t.cancelled = FALSE /\ t # NoTask
  BY <1>1, BootTask
<1> HIDE DEF t
<1>4. \A x \in Workers : tasks'[x] = IF x = w THEN t ELSE tasks[x]
  BY DEF TypeOK, t
<1>5. Actives' = {w} /\ Booted'
  <2>1. \A x \in Workers \ {w} : ~Active(x)'
    BY <1>4 DEF Active
  <2>2. Active(w)' /\ tasks'[w].kind = "boot"
    BY <1>3, <1>4 DEF Active
  <2> QED
    BY <2>1, <2>2 DEF Actives, Booted
<1>6. SchemaInv' /\ SchemaTypeOK'
  BY NextSchemaInv DEF SchemaInv
<1>7. TypeOK'
  <2>1. tasks' \in [Workers -> TaskState \cup {NoTask}]
    BY <1>3 DEF TypeOK, t
  <2> QED
    BY <1>2, <1>6, <2>1 DEF TypeOK, IdentityInv, Issued
<1>8. OneHandler'
  BY <1>2, <1>5 DEF OneHandler
<1>9. TaskShapes'
  <2>1. \A x \in Workers : x # w => tasks[x].kind \notin Handlers
    BY HandlerFacts
  <2>2. \A x \in Workers : x # w => tasks[x] = NoTask \/ BootShape(tasks[x])
    BY <2>1, NoHandler
  <2>3. BootShape(t)
    BY <1>3
  <2>4. \A x \in Workers : tasks'[x] = NoTask \/ BootShape(tasks'[x])
    BY <1>4, <2>2, <2>3
  <2>5. \A x \in Workers :
            /\ tasks'[x].kind \in {"boot", "none"}
            /\ tasks'[x].kind = "boot" => tasks'[x].seen.input \in Namespaces
            /\ tasks'[x] # NoTask => tasks'[x].pc \notin {"opened", "backup", "publish"}
    BY <2>4, BootShapes
  <2> QED
    BY <2>5 DEF TaskShapes, ShapeOf, PrivateHandlers
<1>10. StoresFollow' /\ RowsFollow'
  BY <1>2, <1>5 DEF StoresFollow, RowsFollow
<1>11. IdentityFollows'
  BY <1>2 DEF IdentityFollows
<1>12. \A s \in Sessions : job[s].pc = "idle"
  <2>1. \A x \in Actives : tasks[x].kind = "activate"
    BY DEF Actives
  <2> QED
    BY <2>1, NoJobs
<1>13. JobsFollow'
  BY <1>2, <1>12 DEF JobsFollow
<1>14. BackupsFollow'
  BY <1>2, <1>12 DEF BackupsFollow, Saved, PublishedWasBackedUp
<1> QED
  BY <1>2, <1>6, <1>7, <1>8, <1>9, <1>10, <1>11, <1>13, <1>14

(* A page that has just been loaded, over storage that was there before. *)
Fresh ==
    /\ IdentityInv /\ SchemaInv
    /\ ui = FirstView
    /\ refs = [store |-> None, private |-> None, backup |-> NoBackup]
    /\ tasks = Booting
    /\ chain \in Networks /\ visit \in Visits /\ reloads \in 0..MaxReloads
    /\ \A s \in Sessions : identity[s] = 0 /\ job[s].pc = "idle"
    /\ \A k \in unsaved : Issued(k)
    /\ \A x \in Slots : stored[x] \in backups \cup {NoBackup}
    /\ PublishedWasBackedUp

LEMMA FreshIsGood == Fresh => PageInv
<1> SUFFICES ASSUME Fresh PROVE PageInv
  OBVIOUS
<1> USE DEF Fresh
<1>1. (CHOOSE k \in Kinds : TRUE) \in Kinds
  BY Pages
<1>2. /\ ui \in View /\ ui.mode = "offchain" /\ ui.busy /\ ~ui.ready /\ ~ui.draft
      /\ Tidy(ui) /\ "old" \notin ui.later
  BY <1>1, Pages DEF FirstView, View, Modes, Tidy
<1>3. FirstView \in View /\ FirstView.input \in Namespaces
  BY <1>2 DEF View
<1> DEFINE first == Task("boot", FirstView, TRUE)
           second == Task("boot", FirstView, FALSE)
<1>4. /\ first \in TaskState /\ second \in TaskState
      /\ BootShape(first) /\ BootShape(second)
      /\ first.kind = "boot" /\ second.kind = "boot"
      /\ first.cancelled = TRUE /\ second.cancelled = FALSE
      /\ first # NoTask /\ second # NoTask
  BY <1>3, BootTask
<1> HIDE DEF first, second
<1>5. \A w \in Workers : tasks[w] = IF w = 1 THEN first ELSE IF w = 2 THEN second ELSE NoTask
  BY DEF Booting, first, second
<1>6. 1 \in Workers /\ 2 \in Workers
  BY Pages
<1>7. Actives = {2}
  BY <1>4, <1>5, <1>6 DEF Actives, Active
<1>8. TypeOK
  <2>1. tasks \in [Workers -> TaskState \cup {NoTask}]
    <3>1. tasks = [w \in Workers |-> tasks[w]]
      BY DEF Booting
    <3>2. \A w \in Workers : tasks[w] \in TaskState \cup {NoTask}
      BY <1>4, <1>5
    <3> QED
      BY <3>1, <3>2, Zenon
  <2>2. refs \in [store: Stores, private: Stores, backup: Backup \cup {NoBackup}]
    BY DEF Stores
  <2> QED
    BY <1>2, <2>1, <2>2 DEF TypeOK, IdentityInv, SchemaInv
<1>9. OneHandler
  BY <1>2, <1>6, <1>7 DEF OneHandler
<1>10. TaskShapes
  <2>1. \A w \in Workers : tasks[w] = NoTask \/ BootShape(tasks[w])
    BY <1>4, <1>5
  <2>2. \A w \in Workers :
            /\ tasks[w].kind \in {"boot", "none"}
            /\ tasks[w].kind = "boot" => tasks[w].seen.input \in Namespaces
            /\ tasks[w] # NoTask => tasks[w].pc \notin {"opened", "backup", "publish"}
    BY <2>1, BootShapes
  <2> QED
    BY <2>2 DEF TaskShapes, ShapeOf, PrivateHandlers
<1>11. StoresFollow /\ RowsFollow /\ IdentityFollows
  BY <1>2 DEF StoresFollow, RowsFollow, IdentityFollows
<1>12. JobsFollow
  BY DEF JobsFollow
<1>13. BackupsFollow
  BY DEF BackupsFollow
<1> QED
  BY <1>8, <1>9, <1>10, <1>11, <1>12, <1>13 DEF PageInv

LEMMA InitPageInv == Init => PageInv
<1> SUFFICES ASSUME Init PROVE Fresh
  BY FreshIsGood
<1>1. IdentityInv /\ SchemaInv
  BY InitIdentityInv, InitSchemaInv DEF Init
<1>2. claims = [x \in Slots |-> <<>>]
  BY DEF Init, IdentityInit, Registry!Init
<1>3. \A x \in Slots : DOMAIN claims[x] = {}
  BY <1>2
<1> QED
  BY <1>1, <1>3, Pages DEF Fresh, Init, IdentityInit, NoJob, PublishedWasBackedUp

(* A reload forgets what the page knew, not what it stored. *)
LEMMA ReloadStep ==
    ASSUME PageInv, Reload
    PROVE  PageInv'
<1> USE DEF PageInv
<1>1. /\ UNCHANGED <<keys, stored, backups, claims, lost, registered, chain, visit, unsaved>>
      /\ identity' = [s \in Sessions |-> 0] /\ job' = [s \in Sessions |-> NoJob]
      /\ reloads' = reloads + 1 /\ reloads < MaxReloads
      /\ outcome' = [outcome EXCEPT ![page] = "idle"]
      /\ ensuring' = [ensuring EXCEPT ![page] = [x \in Schemas |-> "none"]]
      /\ leftover' \subseteq leftover \cup (Schemas \ registered)
  BY DEF Reload, Abandon
<1>2. IdentityInv'
  BY <1>1, ForgetIdentities
<1>3. SchemaInv'
  <2>1. SchemaTypeOK'
    BY <1>1, Pages DEF SchemaInv, SchemaTypeOK, Phases
  <2>2. \A c \in Clients, x \in Schemas :
            ensuring'[c][x] = IF c = page THEN "none" ELSE ensuring[c][x]
    BY <1>1 DEF SchemaInv, SchemaTypeOK
  <2>3. \A c \in Clients : outcome'[c] = IF c = page THEN "idle" ELSE outcome[c]
    BY <1>1 DEF SchemaInv, SchemaTypeOK
  <2>4. PresentIsRegistered' /\ OneCreator'
    BY <1>1, <2>2 DEF SchemaInv, PresentIsRegistered, OneCreator, Present
  <2>5. ResolvedIsOver'
    BY <2>2, <2>3 DEF SchemaInv, ResolvedIsOver, Present
  <2> QED
    BY <2>1, <2>4, <2>5 DEF SchemaInv
<1>4. Fresh'
  <2>1. reloads' \in 0..MaxReloads
    BY <1>1, Pages DEF TypeOK
  <2>2. \A s \in Sessions : identity'[s] = 0 /\ job'[s].pc = "idle"
    BY <1>1 DEF NoJob
  <2>3. \A k \in unsaved' : Issued(k)'
    BY <1>1 DEF TypeOK, Issued
  <2>4. (\A x \in Slots : stored[x] \in backups \cup {NoBackup})' /\ PublishedWasBackedUp'
    BY <1>1 DEF BackupsFollow, PublishedWasBackedUp
  <2> QED
    BY <1>1, <1>2, <1>3, <2>1, <2>2, <2>3, <2>4 DEF Fresh, Reload, TypeOK
<1>5. (Fresh => PageInv)'
  BY FreshIsGood, PTL
<1> QED
  BY <1>4, <1>5

(* A handler goes on: it is still the one that the page is busy with. *)
LEMMA GoOnStep ==
    ASSUME PageInv, NEW w \in Workers, NEW t \in TaskState,
           tasks[w].kind \in PrivateHandlers \cup {"publishSchema"}, t.kind = tasks[w].kind,
           tasks' \in [Workers -> TaskState \cup {NoTask}],
           \A x \in Workers : tasks'[x] = IF x = w THEN t ELSE tasks[x],
           t.kind = "publishSchema" => t.seen.schema \in Kinds /\ t.pc = "ensure",
           t.kind \in PrivateHandlers => t.seen.mode = ui.mode /\ refs'.private # None,
           t.pc = "backup" => t.kind \in {"setup", "create"} /\ identity'[Session'] # 0,
           ui' \in View, ui'.mode = ui.mode, ui'.active = ui.active, ui'.busy = ui.busy,
           ui'.rows = ui.rows, ui'.later = ui.later, ui'.clearing = ui.clearing,
           refs' \in [store: Stores, private: Stores, backup: Backup \cup {NoBackup}],
           refs'.store = refs.store,
           refs'.private \in {refs.private, [mode |-> ui.mode, namespace |-> ui.active]},
           UNCHANGED <<chain, visit, unsaved, reloads>>,
           SchemaInv', IdentityInv', \A k \in unsaved : Issued(k)',
           IdentityFollows', JobsFollow', BackupsFollow'
    PROVE  PageInv'
<1> USE DEF PageInv
<1>1. tasks[w].kind \in Handlers
  BY DEF Handlers, PrivateHandlers
<1>2. Actives = {w} /\ ui.busy /\ tasks[w].kind # "boot"
  BY <1>1, HandlerFacts DEF Handlers
<1>3. t # NoTask /\ t.kind # "boot"
  BY <1>1, <1>2 DEF NoTask, Handlers
<1>4. Actives' = {w}
  <2>1. \A x \in Workers \ {w} : ~Active(x)'
    BY <1>2 DEF Active, Actives
  <2>2. Active(w)'
    BY <1>3 DEF Active
  <2> QED
    BY <2>1, <2>2 DEF Actives
<1>5. ~Booted /\ ~Booted'
  BY <1>2, <1>3, <1>4 DEF Booted
<1>6. TypeOK'
  BY DEF TypeOK, IdentityInv, SchemaInv
<1>7. OneHandler'
  BY <1>2, <1>4 DEF OneHandler
<1>8. TaskShapes'
  <2>1. \A x \in Workers : x # w => tasks[x].kind \notin Handlers
    BY <1>2, HandlerFacts
  <2>2. \A x \in Workers : x # w => tasks[x] = NoTask \/ BootShape(tasks[x])
    BY <2>1, NoHandler
  <2>3. \A x \in Workers : x # w =>
            /\ tasks'[x].kind \in {"boot", "none"}
            /\ tasks'[x].kind = "boot" => tasks'[x].seen.input \in Namespaces
            /\ tasks'[x] # NoTask => tasks'[x].pc \notin {"opened", "backup", "publish"}
    BY <2>2, BootShapes
  <2>4. /\ t.kind \notin {"boot", "reset", "connect", "activate"}
        /\ t.pc \in {"opened", "backup", "publish"} => t.kind \in PrivateHandlers
    BY DEF PrivateHandlers
  <2> QED
    BY <2>3, <2>4 DEF TaskShapes, ShapeOf, PrivateHandlers
<1>9. StoresFollow' /\ RowsFollow'
  BY <1>5 DEF StoresFollow, RowsFollow, Tidy
<1> QED
  BY <1>6, <1>7, <1>8, <1>9

(* While the handler in progress neither backs up nor publishes, nothing   *)
(* is on its way and the identity is safe.                                 *)
LEMMA Quiet ==
    ASSUME PageInv, \A w \in Actives : ~BackingUp(w) /\ ~PublishesNext(w)
    PROVE  /\ \A s \in Sessions : job[s].pc = "idle"
           /\ \A s \in Sessions : identity[s] # 0 => Saved(identity[s])
BY DEF PageInv, JobsFollow, BackupsFollow

(* A boot ends, or was cancelled. *)
LEMMA BootStep ==
    ASSUME PageInv, NEW w \in Workers, Boot(w)
    PROVE  PageInv'
<1> USE DEF PageInv
<1>1. /\ tasks[w].kind = "boot"
      /\ tasks' = [tasks EXCEPT ![w] = NoTask]
      /\ UNCHANGED <<schemaVars, chain, visit, unsaved, reloads>>
  BY DEF Boot, End, Elsewhere
<1>4. tasks[w] # NoTask
  BY <1>1 DEF NoTask
<1>5. tasks[w].seen.input \in Namespaces
  BY <1>1 DEF TaskShapes, ShapeOf
<1>2. CASE ~tasks[w].cancelled
  <2>1. Active(w) /\ tasks[w].kind \notin PrivateHandlers
    BY <1>1, <1>2, <1>4 DEF Active, PrivateHandlers
  <2>2. Apply(ui, Local(tasks[w].seen.input)) /\ End(w) /\ Elsewhere
    BY <1>2 DEF Boot
  <2>3. ui \in View
    BY DEF TypeOK
  <2> QED
    BY <1>1, <1>5, <2>1, <2>2, <2>3, ReplaceStep
<1>3. CASE tasks[w].cancelled
  <2>1. UNCHANGED <<ui, refs, identityVars>>
    BY <1>3 DEF Boot
  <2>2. UNCHANGED <<keys, identity, stored, backups, claims, lost, job>>
    BY <2>1 DEF identityVars
  <2>3. \A x \in Workers : tasks'[x] = IF x = w THEN NoTask ELSE tasks[x]
    BY <1>1 DEF TypeOK
  <2>4. ~Active(w)
    BY <1>1, <1>3 DEF Active
  <2>5. Actives' = Actives /\ Session' = Session
    BY <2>1, <2>3, <2>4 DEF Actives, Active, Session
  <2>6. \A x \in Actives : tasks'[x] = tasks[x]
    BY <2>3, <2>4 DEF Actives
  <2>7. Booted' = Booted
    BY <2>5, <2>6 DEF Booted
  <2>8. IdentityInv' /\ SchemaInv' /\ SchemaTypeOK'
    BY <1>1, <2>1, StutterIdentityInv, NextSchemaInv DEF SchemaInv
  <2>9. TypeOK'
    <3>1. tasks' \in [Workers -> TaskState \cup {NoTask}]
      BY <1>1 DEF TypeOK
    <3> QED
      BY <1>1, <2>1, <2>2, <2>8, <3>1 DEF TypeOK, IdentityInv, Issued
  <2>10. OneHandler'
    BY <2>1, <2>5 DEF OneHandler
  <2>11. TaskShapes'
    <3>1. NoTask.kind = "none" /\ "none" \notin Handlers \cup {"boot"}
      BY DEF NoTask, Handlers
    <3>2. ASSUME NEW x \in Workers
          PROVE  ShapeOf(tasks'[x])
      <4>1. CASE x = w
        BY <2>3, <3>1, <4>1 DEF ShapeOf, PrivateHandlers
      <4>2. CASE x # w
        <5>1. tasks'[x] = tasks[x]
          BY <2>3, <4>2
        <5> QED
          BY <5>1 DEF TaskShapes
      <4> QED
        BY <4>1, <4>2
    <3> QED
      BY <2>1, <2>2, <2>5, <3>2 DEF TaskShapes, ShapeOf
  <2>12. StoresFollow' /\ RowsFollow' /\ IdentityFollows'
    BY <2>1, <2>2, <2>5, <2>7 DEF StoresFollow, RowsFollow, IdentityFollows
  <2>13. JobsFollow'
    BY <2>2, <2>5, <2>6 DEF JobsFollow, BackingUp, PublishesNext, At
  <2>14. BackupsFollow'
    BY <1>1, <2>1, <2>2, <2>5, <2>6 DEF BackupsFollow, Saved, BackingUp, PublishedWasBackedUp
  <2> QED
    BY <2>8, <2>9, <2>10, <2>11, <2>12, <2>13, <2>14
<1> QED
  BY <1>2, <1>3

(* Resetting and connecting put another store in place. *)
LEMMA ConnectStep ==
    ASSUME PageInv, NEW w \in Workers, Reset(w) \/ Connect(w)
    PROVE  PageInv'
<1> USE DEF PageInv
<1>1. /\ tasks[w].kind \in {"reset", "connect", "activate"}
      /\ End(w) /\ Elsewhere
  BY DEF Reset, Connect
<1>2. Active(w) /\ tasks[w].kind \notin PrivateHandlers
  BY <1>1, HandlerFacts DEF Handlers, PrivateHandlers
<1>3. tasks[w].seen.input \in Namespaces /\ ui \in View
  BY <1>1 DEF TaskShapes, ShapeOf, TypeOK
<1>4. CASE Reset(w)
  BY <1>1, <1>2, <1>3, <1>4, ReplaceStep DEF Reset
<1>5. CASE Connect(w)
  <2> DEFINE u == [ui EXCEPT !.schema = tasks[w].seen.schema]
  <2>1. tasks[w].seen.schema \in Kinds \cup {""}
    BY <1>5 DEF Connect, TaskShapes, ShapeOf
  <2>2. u \in View /\ u.ready = ui.ready /\ u.draft = ui.draft
    BY <1>3, <2>1 DEF View
  <2>3. Apply(u, Onchain(tasks[w].seen.input))
    BY <1>5 DEF Connect
  <2> HIDE DEF u
  <2> QED
    BY <1>1, <1>2, <1>3, <2>2, <2>3, ReplaceStep
<1> QED
  BY <1>4, <1>5

(* The mode is switched to local. *)
LEMMA LocalModeStep ==
    ASSUME PageInv, NEW w \in Workers, LocalMode(w)
    PROVE  PageInv'
<1> USE DEF PageInv
<1> DEFINE u == [ui EXCEPT !.mode = "offchain", !.busy = TRUE]
<1>1. /\ ~ui.busy /\ ui.mode = "onchain"
      /\ Become(u, refs.store)
      /\ tasks' = [tasks EXCEPT ![w] = Task("boot", ui, FALSE)]
      /\ UNCHANGED <<schemaVars, chain, visit, unsaved, reloads>>
  BY DEF LocalMode, Elsewhere
<1>2. u \in View /\ u.mode = "offchain" /\ u.active = ui.active /\ u.busy /\ Tidy(u)
  BY DEF TypeOK, View, Modes, RowsFollow, Tidy
<1>3. \A x \in Workers : ~Active(x)
  BY <1>1 DEF OneHandler, Actives
<1> HIDE DEF u
<1> QED
  BY <1>1, <1>2, <1>3, LocalStep

(* A handler that a click starts. *)
LEMMA HandlerTask ==
    ASSUME NEW u \in View, NEW kind \in Handlers
    PROVE  \A b \in BOOLEAN :
             LET t == Task(kind, u, b) IN
             /\ t \in TaskState /\ t.kind = kind /\ t.pc = "start"
             /\ kind \in {"reset", "connect", "activate"} => t.seen.input = u.input
             /\ kind \in {"connect", "activate"} => t.seen.schema = u.schema
             /\ kind \in PrivateHandlers => t.seen.mode = u.mode
<1> SUFFICES ASSUME NEW b \in BOOLEAN
             PROVE  LET t == Task(kind, u, b) IN
                    /\ t \in TaskState /\ t.kind = kind /\ t.pc = "start"
                    /\ kind \in {"reset", "connect", "activate"} => t.seen.input = u.input
                    /\ kind \in {"connect", "activate"} => t.seen.schema = u.schema
                    /\ kind \in PrivateHandlers => t.seen.mode = u.mode
  OBVIOUS
<1> QED
  BY TaskFacts

(* A click starts a handler on an idle page. *)
LEMMA ClickStep ==
    ASSUME PageInv, NEW w \in Workers, NEW kind \in Handlers, Click(w, kind)
    PROVE  PageInv'
<1> USE DEF PageInv
<1> DEFINE t == Task(kind, ui, FALSE)
<1>1. /\ ~ui.busy
      /\ tasks' = [tasks EXCEPT ![w] = t]
      /\ ui' = [ui EXCEPT !.busy = TRUE]
      /\ UNCHANGED <<refs, identityVars, schemaVars, chain, visit, unsaved, reloads>>
  BY DEF Click, Elsewhere
<1>2. UNCHANGED <<keys, identity, stored, backups, claims, lost, job>>
  BY <1>1 DEF identityVars
<1>3. ui \in View
  BY DEF TypeOK
<1>4. /\ ui' \in View /\ ui'.busy /\ ui'.mode = ui.mode /\ ui'.active = ui.active
      /\ ui'.rows = ui.rows /\ ui'.later = ui.later /\ ui'.clearing = ui.clearing
      /\ ui'.ready = ui.ready /\ ui'.draft = ui.draft
  BY <1>1, <1>3 DEF View
<1>5. /\ t \in TaskState /\ t.kind = kind /\ t.pc = "start"
      /\ kind \in {"reset", "connect", "activate"} => t.seen.input = ui.input
      /\ kind \in {"connect", "activate"} => t.seen.schema = ui.schema
      /\ kind \in PrivateHandlers => t.seen.mode = ui.mode
  BY <1>3, HandlerTask
<1>6. ui.input \in Namespaces /\ ui.schema \in Kinds \cup {""}
  BY <1>3 DEF View
<1> HIDE DEF t
<1>7. \A x \in Workers : tasks'[x] = IF x = w THEN t ELSE tasks[x]
  BY <1>1 DEF TypeOK
<1>8. t # NoTask /\ t.kind # "boot"
  BY <1>5 DEF NoTask, Handlers
<1>9. Actives = {}
  BY <1>1 DEF OneHandler
<1>10. Actives' = {w}
  <2>1. \A x \in Workers \ {w} : ~Active(x)'
    BY <1>7, <1>9 DEF Active, Actives
  <2>2. Active(w)'
    BY <1>7, <1>8 DEF Active
  <2> QED
    BY <2>1, <2>2 DEF Actives
<1>11. ~Booted /\ ~Booted' /\ Session' = Session
  BY <1>1, <1>7, <1>8, <1>9, <1>10 DEF Booted, Session
<1>12. IdentityInv' /\ SchemaInv' /\ SchemaTypeOK'
  BY <1>1, StutterIdentityInv, NextSchemaInv DEF SchemaInv
<1>13. TypeOK'
  <2>1. tasks' \in [Workers -> TaskState \cup {NoTask}]
    BY <1>1, <1>5 DEF TypeOK
  <2> QED
    BY <1>1, <1>2, <1>4, <1>12, <2>1 DEF TypeOK, IdentityInv, Issued
<1>14. OneHandler'
  BY <1>4, <1>10 DEF OneHandler
<1>15. TaskShapes'
  <2>1. \A x \in Workers : tasks[x].kind \notin Handlers
    BY <1>9, HandlerFacts
  <2>2. \A x \in Workers : tasks[x] = NoTask \/ BootShape(tasks[x])
    BY <2>1, NoHandler
  <2>3. \A x \in Workers : x # w =>
            /\ tasks'[x].kind \in {"boot", "none"}
            /\ tasks'[x].kind = "boot" => tasks'[x].seen.input \in Namespaces
            /\ tasks'[x] # NoTask => tasks'[x].pc \notin {"opened", "backup", "publish"}
    BY <1>7, <2>2, BootShapes
  <2>4. tasks'[w] = t /\ ui'.mode = ui.mode
    BY <1>4, <1>7
  <2>5. /\ t.kind \in {"boot", "reset", "connect", "activate"} => t.seen.input \in Namespaces
        /\ t.kind \in {"connect", "activate"} => t.seen.schema \in Kinds \cup {""}
        /\ t.kind \in PrivateHandlers => t.seen.mode = ui.mode
        /\ t.pc = "start"
    BY <1>5, <1>6, <1>8
  <2> QED
    BY <2>3, <2>4, <2>5 DEF TaskShapes, ShapeOf, PrivateHandlers
<1>16. StoresFollow' /\ RowsFollow' /\ IdentityFollows'
  BY <1>1, <1>2, <1>4, <1>11 DEF StoresFollow, RowsFollow, Tidy, IdentityFollows
<1>17. /\ \A s \in Sessions : job[s].pc = "idle"
       /\ \A s \in Sessions : identity[s] # 0 => Saved(identity[s])
  BY <1>9, Quiet
<1>18. JobsFollow' /\ BackupsFollow'
  BY <1>1, <1>2, <1>17 DEF JobsFollow, BackupsFollow, Saved, PublishedWasBackedUp
<1> QED
  BY <1>12, <1>13, <1>14, <1>15, <1>16, <1>18

(* A handler ends that was neither backing up nor publishing, and did not  *)
(* touch the identities.                                                   *)
LEMMA PlainEnd ==
    ASSUME PageInv, NEW w \in Workers, tasks[w].kind \in Handlers,
           ~BackingUp(w), ~PublishesNext(w),
           End(w), Elsewhere, UNCHANGED identityVars,
           ui' \in View, ui'.mode = ui.mode, ui'.active = ui.active, ~ui'.busy,
           ui'.ready \/ ui'.draft => ui.ready \/ ui.draft,
           refs' = refs \/ refs' = [refs EXCEPT !.store = None],
           Tidy(ui'), "old" \in ui'.later => "old" \in ui.later \/ refs'.store = None
    PROVE  PageInv'
<1> USE DEF PageInv
<1>1. /\ UNCHANGED <<keys, identity, stored, backups, claims, lost, job>>
      /\ UNCHANGED <<schemaVars, chain, visit, unsaved, reloads>>
  BY DEF identityVars, Elsewhere
<1>2. Actives = {w}
  BY HandlerFacts
<1>3. /\ \A s \in Sessions : job[s].pc = "idle"
      /\ \A s \in Sessions : identity[s] # 0 => Saved(identity[s])
  BY <1>2, Quiet
<1>4. IdentityInv' /\ \A k \in unsaved' : Issued(k)'
  BY <1>1, StutterIdentityInv DEF TypeOK, Issued
<1>5. /\ refs' \in [store: Stores, private: Stores, backup: Backup \cup {NoBackup}]
      /\ refs'.private = refs.private /\ refs'.backup = refs.backup
      /\ refs'.store \in {refs.store, None}
  BY DEF TypeOK, Stores
<1>6. Session' = Session
  BY <1>5 DEF Session
<1>7. IdentityFollows'
  BY <1>1, <1>5, <1>6 DEF IdentityFollows
<1>8. BackupsFollow'
  BY <1>1, <1>3, <1>5 DEF BackupsFollow, Saved, PublishedWasBackedUp
<1>9. \A s \in Sessions : job'[s].pc = "idle"
  BY <1>1, <1>3
<1> QED
  BY <1>1, <1>4, <1>5, <1>7, <1>8, <1>9, EndStep

(* A record operation is over. *)
LEMMA RecordStep ==
    ASSUME PageInv, NEW w \in Workers, Record(w)
    PROVE  PageInv'
<1>1. tasks[w].kind = "record" /\ tasks[w].kind \in Handlers
  BY DEF Record, Handlers
<1>2. ~BackingUp(w) /\ ~PublishesNext(w)
  BY <1>1 DEF BackingUp, PublishesNext, At
<1>3. PICK r \in SUBSET {"own"} :
          ui' = [ui EXCEPT !.rows = ui.rows \cup r, !.later = ui.later \cup r, !.busy = FALSE]
  BY DEF Record
<1>4. ui \in View
  BY DEF PageInv, TypeOK
<1>5. /\ ui' \in View /\ ui'.mode = ui.mode /\ ui'.active = ui.active /\ ~ui'.busy
      /\ ui'.ready = ui.ready /\ ui'.draft = ui.draft /\ ui'.rows = ui.rows \cup r
      /\ ui'.later = ui.later \cup r /\ ui'.clearing = ui.clearing
  BY <1>3, <1>4 DEF View
<1>6. Tidy(ui') /\ ("old" \in ui'.later => "old" \in ui.later)
  BY <1>5 DEF Tidy, PageInv, RowsFollow
<1>7. refs' = refs /\ UNCHANGED identityVars /\ End(w) /\ Elsewhere
  BY DEF Record
<1> QED
  BY <1>1, <1>2, <1>5, <1>6, <1>7, PlainEnd

(* The schema was published, and the store is dropped. *)
LEMMA SchemaPublishedStep ==
    ASSUME PageInv, NEW w \in Workers, SchemaPublished(w)
    PROVE  PageInv'
<1>1. tasks[w].kind = "publishSchema" /\ tasks[w].kind \in Handlers /\ tasks[w].pc = "ensure"
  BY DEF SchemaPublished, Handlers
<1>2. ~BackingUp(w) /\ ~PublishesNext(w)
  BY <1>1 DEF BackingUp, PublishesNext, At
<1>3. tasks[w].seen.schema \in Kinds
  BY <1>1 DEF PageInv, TaskShapes, ShapeOf
<1> DEFINE aged == Aged(ui.rows, "own")
           later == Aged(ui.later, "own")
<1>4. ui' = [ui EXCEPT !.schema = tasks[w].seen.schema, !.busy = FALSE,
                       !.rows = aged, !.later = later]
  BY DEF SchemaPublished
<1>5. ui \in View
  BY DEF PageInv, TypeOK
<1>6. AgedTogether(ui, aged, later)
  BY <1>5, AgingIsTidy DEF PageInv, RowsFollow
<1> HIDE DEF aged, later
<1>7. /\ ui' \in View /\ ui'.mode = ui.mode /\ ui'.active = ui.active /\ ~ui'.busy
      /\ ui'.ready = ui.ready /\ ui'.draft = ui.draft
      /\ ui'.rows = aged /\ ui'.later = later /\ ui'.clearing = ui.clearing
  BY <1>3, <1>4, <1>5, <1>6 DEF View, AgedTogether
<1>10. Tidy(ui')
  BY <1>6, <1>7 DEF Tidy, AgedTogether
<1>8. /\ refs' = [refs EXCEPT !.store = None] /\ UNCHANGED identityVars
      /\ End(w) /\ Elsewhere
  BY DEF SchemaPublished
<1>9. refs'.store = None
  BY <1>8 DEF PageInv, TypeOK
<1> QED
  BY <1>1, <1>2, <1>7, <1>8, <1>9, <1>10, PlainEnd

(* A private record was written. *)
LEMMA PrivateSetStep ==
    ASSUME PageInv, NEW w \in Workers, PrivateSet(w)
    PROVE  PageInv'
<1>1. tasks[w].kind = "privateSet" /\ tasks[w].kind \in Handlers
  BY DEF PrivateSet, At, Handlers
<1>2. ~BackingUp(w) /\ ~PublishesNext(w)
  BY <1>1 DEF BackingUp, PublishesNext, At
<1>3. /\ ui' = [ui EXCEPT !.rows = ui.rows \cup {"private"},
                          !.later = ui.later \cup {"private"}, !.busy = FALSE]
      /\ refs' = refs /\ UNCHANGED identityVars /\ End(w) /\ Elsewhere
  BY DEF PrivateSet
<1>4. ui \in View
  BY DEF PageInv, TypeOK
<1>5. /\ ui' \in View /\ ui'.mode = ui.mode /\ ui'.active = ui.active /\ ~ui'.busy
      /\ ui'.ready = ui.ready /\ ui'.draft = ui.draft /\ ui'.rows = ui.rows \cup {"private"}
      /\ ui'.later = ui.later \cup {"private"} /\ ui'.clearing = ui.clearing
  BY <1>3, <1>4 DEF View
<1>6. Tidy(ui') /\ ("old" \in ui'.later => "old" \in ui.later)
  BY <1>5 DEF Tidy, PageInv, RowsFollow
<1> QED
  BY <1>1, <1>2, <1>3, <1>5, <1>6, PlainEnd

(* Past its first step a private handler has a private store. *)
LEMMA OpenedFacts ==
    ASSUME PageInv, NEW w \in Workers, tasks[w].kind \in PrivateHandlers, tasks[w].pc # "start"
    PROVE  /\ tasks[w].kind \in Handlers
           /\ refs.private # None /\ Session = <<ui.mode, ui.active>> /\ Session \in Sessions
           /\ \A s \in Sessions : identity[s] # 0 => s = Session
           /\ \A s \in Sessions : job[s].pc # "idle" => s = Session
<1>1. tasks[w].kind \in Handlers
  BY DEF PrivateHandlers, Handlers
<1>2. refs.private # None
  BY DEF PageInv, TaskShapes, ShapeOf
<1>3. \A s \in Sessions : identity[s] # 0 => s = Session
  BY DEF PageInv, IdentityFollows
<1>4. \A s \in Sessions : job[s].pc # "idle" => s = Session
  BY <1>3 DEF PageInv, JobsFollow
<1> QED
  BY <1>1, <1>2, <1>3, <1>4, SessionFacts

(* The key is published: the one that was backed up, or seen to fail. *)
LEMMA KeyPublishedStep ==
    ASSUME PageInv, NEW w \in Workers, KeyPublished(w)
    PROVE  PageInv'
<1> USE DEF PageInv
<1>1. /\ PublishesNext(w) /\ CommitPublish(Session) /\ refs' = refs
      /\ End(w) /\ Elsewhere
  BY DEF KeyPublished
<1>2. tasks[w].kind \in PrivateHandlers /\ tasks[w].pc # "start" /\ ~BackingUp(w)
  BY <1>1 DEF PublishesNext, At, PrivateHandlers, BackingUp
<1>3. /\ tasks[w].kind \in Handlers /\ refs.private # None /\ Session \in Sessions
      /\ \A s \in Sessions : identity[s] # 0 => s = Session
      /\ \A s \in Sessions : job[s].pc # "idle" => s = Session
  BY <1>2, OpenedFacts
<1>4. Actives = {w}
  BY <1>3, HandlerFacts
<1>5. /\ job[Session].pc = "publish" /\ job' = [job EXCEPT ![Session] = NoJob]
      /\ UNCHANGED <<keys, identity, stored, backups>>
  BY <1>1 DEF CommitPublish
<1>6. identity[Session] # 0 /\ Saved(job[Session].key)
  BY <1>3, <1>5 DEF JobsFollow, BackupsFollow
<1> DEFINE draft == ui.draft \/ tasks[w].kind = "setup"
<1>7. ui' = [ui EXCEPT !.ready = TRUE, !.busy = FALSE, !.draft = draft] /\ draft \in BOOLEAN
  BY DEF KeyPublished
<1> HIDE DEF draft
<1>8. ui \in View
  BY DEF TypeOK
<1>9. ui' \in View /\ ui'.mode = ui.mode /\ ui'.active = ui.active /\ ~ui'.busy
      /\ ui'.rows = ui.rows /\ ui'.later = ui.later /\ ui'.clearing = ui.clearing
  BY <1>7, <1>8 DEF View
<1>10. IdentityInv'
  BY <1>1, <1>3, CommitPublishKeepsInv
<1>11. \A s \in Sessions : job'[s].pc = "idle"
  <2>1. \A s \in Sessions : job'[s] = IF s = Session THEN NoJob ELSE job[s]
    BY <1>5 DEF IdentityInv, IdentityTypeOK
  <2> QED
    BY <1>3, <2>1 DEF NoJob
<1>12. refs' \in [store: Stores, private: Stores, backup: Backup \cup {NoBackup}] /\ Session' = Session
  BY <1>1 DEF TypeOK, Session
<1>13. IdentityFollows'
  BY <1>1, <1>3, <1>5, <1>6, <1>12 DEF IdentityFollows
<1>14. UNCHANGED <<schemaVars, chain, visit, unsaved, reloads>>
  BY <1>1 DEF Elsewhere
<1>15. BackupsFollow'
  <2>1. \A x \in Slots : \A i \in DOMAIN claims'[x] : Saved(claims'[x][i])
    <3>1. \A x \in Slots : \A i \in DOMAIN claims[x] : Saved(claims[x][i])
      BY DEF BackupsFollow, PublishedWasBackedUp, Saved
    <3>2. \A x \in Slots : \A i \in DOMAIN claims'[x] :
              \/ i \in DOMAIN claims[x] /\ claims'[x][i] = claims[x][i]
              \/ claims'[x][i] = job[Session].key
      BY <1>1, <1>3, PublishAdds
    <3> QED
      BY <1>6, <3>1, <3>2
  <2>2. \A s \in Sessions : identity[s] # 0 => Saved(identity[s])
    BY <1>2, <1>4 DEF BackupsFollow
  <2> QED
    BY <1>1, <1>5, <1>11, <1>14, <2>1, <2>2 DEF BackupsFollow, Saved, PublishedWasBackedUp
<1>16. \A k \in unsaved' : Issued(k)'
  BY <1>5, <1>14 DEF TypeOK, Issued
<1>17. /\ refs'.private = refs.private /\ refs'.store \in {refs.store, None}
       /\ Tidy(ui') /\ ("old" \in ui'.later => "old" \in ui.later)
  BY <1>1, <1>9 DEF RowsFollow, Tidy
<1> QED
  BY <1>1, <1>3, <1>9, <1>10, <1>11, <1>12, <1>13, <1>14, <1>15, <1>16, <1>17, EndStep

(* What is restored had been backed up. *)
LEMMA RestoreStep ==
    ASSUME PageInv, NEW w \in Workers, RestoreIdentity(w)
    PROVE  PageInv'
<1> USE DEF PageInv
<1> DEFINE b == IF refs.backup # NoBackup THEN refs.backup
                ELSE stored[<<WalletOf[Session], DappOf[Session]>>]
<1>1. /\ tasks[w].kind = "restore" /\ tasks[w].pc = "opened"
      /\ b # NoBackup
      /\ Restore(Session, b, tasks[w].seen.phrase)
      /\ ui' = [ui EXCEPT !.ready = TRUE, !.draft = TRUE, !.busy = FALSE]
      /\ refs' = refs /\ End(w) /\ Elsewhere
  BY DEF RestoreIdentity, At
<1>2. tasks[w].kind \in PrivateHandlers /\ ~BackingUp(w) /\ ~PublishesNext(w)
  BY <1>1 DEF PrivateHandlers, BackingUp, PublishesNext, At
<1>3. /\ tasks[w].kind \in Handlers /\ refs.private # None /\ Session \in Sessions
      /\ \A s \in Sessions : identity[s] # 0 => s = Session
  BY <1>1, <1>2, OpenedFacts
<1>4. Actives = {w}
  BY <1>3, HandlerFacts
<1>5. /\ \A s \in Sessions : job[s].pc = "idle"
      /\ \A s \in Sessions : identity[s] # 0 => Saved(identity[s])
  BY <1>2, <1>4, Quiet
<1>6. b \in backups
  <2>1. <<WalletOf[Session], DappOf[Session]>> \in Slots
    BY <1>3, Identities DEF Slots
  <2> QED
    BY <1>1, <2>1 DEF BackupsFollow
<1> HIDE DEF b
<1>7. /\ identity' = [identity EXCEPT ![Session] = b.key]
      /\ UNCHANGED <<keys, stored, backups, claims, lost, job>>
      /\ Restore(Session, b, b.phrase)
  BY <1>1 DEF Restore
<1>8. b.phrase \in Phrases /\ b.key # 0
  BY <1>6 DEF IdentityInv, IdentityTypeOK, Backup, Issued
<1>9. IdentityInv'
  BY <1>3, <1>6, <1>7, <1>8, RestoreKeepsInv
<1>10. \A s \in Sessions : identity'[s] = IF s = Session THEN b.key ELSE identity[s]
  BY <1>7 DEF IdentityInv, IdentityTypeOK
<1>11. ui \in View
  BY DEF TypeOK
<1>12. ui' \in View /\ ui'.mode = ui.mode /\ ui'.active = ui.active /\ ~ui'.busy
      /\ ui'.rows = ui.rows /\ ui'.later = ui.later /\ ui'.clearing = ui.clearing
  BY <1>1, <1>11 DEF View
<1>13. refs' \in [store: Stores, private: Stores, backup: Backup \cup {NoBackup}] /\ Session' = Session
  BY <1>1 DEF TypeOK, Session
<1>14. IdentityFollows'
  BY <1>1, <1>3, <1>8, <1>10, <1>13 DEF IdentityFollows
<1>15. UNCHANGED <<schemaVars, chain, visit, unsaved, reloads>>
  BY <1>1 DEF Elsewhere
<1>16. BackupsFollow'
  <2>1. \A s \in Sessions : identity'[s] # 0 => Saved(identity'[s])
    BY <1>5, <1>6, <1>10 DEF Saved
  <2> QED
    BY <1>1, <1>5, <1>7, <1>15, <2>1 DEF BackupsFollow, Saved, PublishedWasBackedUp
<1>17. \A k \in unsaved' : Issued(k)'
  BY <1>7, <1>15 DEF TypeOK, Issued
<1>18. \A s \in Sessions : job'[s].pc = "idle"
  BY <1>5, <1>7
<1>19. /\ refs'.private = refs.private /\ refs'.store \in {refs.store, None}
       /\ Tidy(ui') /\ ("old" \in ui'.later => "old" \in ui.later)
  BY <1>1, <1>12 DEF RowsFollow, Tidy
<1> QED
  BY <1>1, <1>3, <1>9, <1>12, <1>13, <1>14, <1>15, <1>16, <1>17, <1>18, <1>19, EndStep

(* A handler fails: whatever it was backing up has failed before the       *)
(* user's eyes.                                                            *)
LEMMA FailStep ==
    ASSUME PageInv, NEW w \in Workers, Fail(w)
    PROVE  PageInv'
<1> USE DEF PageInv
<1>1. /\ tasks[w].kind \in Handlers
      /\ unsaved' = unsaved \cup (IF tasks[w].pc = "backup" THEN {identity[Session]} ELSE {})
      /\ UNCHANGED <<schemaVars, chain, visit, reloads>>
  BY DEF Fail
<1>2. Actives = {w} /\ Active(w) /\ ui.busy /\ tasks[w] # NoTask
  BY <1>1, HandlerFacts
<1>3. ui \in View
  BY DEF TypeOK
<1>4. tasks[w].pc = "backup" => tasks[w].kind \in {"setup", "create"} /\ identity[Session] # 0
  BY <1>2 DEF TaskShapes, ShapeOf
<1>5. CASE tasks[w].kind = "activate" /\ ui.mode = "onchain"
  <2> DEFINE u == [ui EXCEPT !.mode = "offchain"]
  <2>1. /\ Become(u, refs.store)
        /\ tasks' = [tasks EXCEPT ![w] = Task("boot", ui, FALSE)]
    BY <1>5 DEF Fail
  <2>2. u \in View /\ u.mode = "offchain" /\ u.active = ui.active /\ u.busy = ui.busy /\ Tidy(u)
    BY <1>3 DEF View, Modes, RowsFollow, Tidy
  <2>3. unsaved' = unsaved
    BY <1>1, <1>4, <1>5
  <2>4. \A x \in Workers \ {w} : ~Active(x)
    BY <1>2 DEF Actives
  <2> HIDE DEF u
  <2> QED
    BY <1>1, <1>2, <1>5, <2>1, <2>2, <2>3, <2>4, LocalStep
<1>6. CASE ~(tasks[w].kind = "activate" /\ ui.mode = "onchain")
  <2>1. /\ ui' = [ui EXCEPT !.busy = FALSE] /\ End(w)
        /\ job' = [s \in Sessions |-> NoJob]
        /\ UNCHANGED <<refs, keys, identity, stored, backups, claims, lost>>
    BY <1>6 DEF Fail
  <2>2. /\ ui' \in View /\ ui'.mode = ui.mode /\ ui'.active = ui.active /\ ~ui'.busy
        /\ ui'.rows = ui.rows /\ ui'.later = ui.later /\ ui'.clearing = ui.clearing
        /\ ui'.ready = ui.ready /\ ui'.draft = ui.draft
    BY <1>3, <2>1 DEF View
  <2>3. IdentityInv'
    BY <2>1, ForgetIdentities
  <2>4. refs' \in [store: Stores, private: Stores, backup: Backup \cup {NoBackup}] /\ Session' = Session
    BY <2>1 DEF TypeOK, Session
  <2>5. \A s \in Sessions : job'[s].pc = "idle"
    BY <2>1 DEF NoJob
  <2>6. \A k \in unsaved' : Issued(k)'
    <3>1. \A k \in unsaved : Issued(k)'
      BY <2>1 DEF TypeOK, Issued
    <3>2. tasks[w].pc = "backup" => identity[Session] \in 1..Len(keys')
      <4>1. tasks[w].pc = "backup" => Session \in Sessions
        BY <1>4, OpenedFacts DEF PrivateHandlers
      <4> QED
        BY <1>4, <2>1, <4>1 DEF IdentityInv, IdentityTypeOK, Issued
    <3> QED
      BY <1>1, <3>1, <3>2 DEF Issued
  <2>7. IdentityFollows'
    BY <2>1, <2>2, <2>4 DEF IdentityFollows
  <2>8. BackupsFollow'
    <3>1. \A s \in Sessions : identity[s] # 0 => Saved(identity[s]) \/ identity[s] \in unsaved'
      <4> SUFFICES ASSUME NEW s \in Sessions, identity[s] # 0, ~Saved(identity[s])
                   PROVE  identity[s] \in unsaved'
        OBVIOUS
      <4>1. BackingUp(w) /\ s = Session
        BY <1>2 DEF BackupsFollow, IdentityFollows
      <4> QED
        BY <1>1, <4>1 DEF BackingUp
    <3>2. unsaved \subseteq unsaved'
      BY <1>1
    <3> QED
      BY <2>1, <2>5, <3>1, <3>2 DEF BackupsFollow, Saved, PublishedWasBackedUp
  <2>9. /\ refs'.private = refs.private /\ refs'.store \in {refs.store, None}
        /\ Tidy(ui') /\ ("old" \in ui'.later => "old" \in ui.later)
    BY <2>1, <2>2 DEF RowsFollow, Tidy
  <2> QED
    BY <1>1, <2>1, <2>2, <2>3, <2>4, <2>5, <2>6, <2>7, <2>8, <2>9, EndStep
<1> QED
  BY <1>5, <1>6

(* A handler that goes on is still the active one. *)
LEMMA StaysActive ==
    ASSUME PageInv, NEW w \in Workers, NEW t \in TaskState,
           tasks[w].kind \in Handlers, t.kind = tasks[w].kind,
           \A x \in Workers : tasks'[x] = IF x = w THEN t ELSE tasks[x]
    PROVE  Actives' = {w}
<1>1. Actives = {w} /\ tasks[w].kind # "boot"
  BY HandlerFacts DEF Handlers
<1>2. t # NoTask /\ t.kind # "boot"
  BY <1>1 DEF NoTask, Handlers
<1>3. \A x \in Workers \ {w} : ~Active(x)'
  BY <1>1 DEF Active, Actives
<1>4. Active(w)'
  BY <1>2 DEF Active
<1> QED
  BY <1>3, <1>4 DEF Actives

(* Changing the point that a handler has reached. *)
LEMMA Moves ==
    ASSUME PageInv, NEW w \in Workers, tasks[w].kind \in Handlers,
           NEW pc \in {"opened", "backup", "publish"}, Goto(w, pc)
    PROVE  LET t == [tasks[w] EXCEPT !.pc = pc] IN
           /\ t \in TaskState /\ t.kind = tasks[w].kind /\ t.pc = pc /\ t.seen = tasks[w].seen
           /\ tasks' \in [Workers -> TaskState \cup {NoTask}]
           /\ \A x \in Workers : tasks'[x] = IF x = w THEN t ELSE tasks[x]
           /\ tasks'[w] = t
<1> DEFINE t == [tasks[w] EXCEPT !.pc = pc]
<1>1. tasks[w] \in TaskState
  BY HandlerFacts
<1>2. t \in TaskState /\ t.kind = tasks[w].kind /\ t.pc = pc /\ t.seen = tasks[w].seen
  BY <1>1 DEF TaskState
<1>3. tasks' = [tasks EXCEPT ![w] = t] /\ tasks \in [Workers -> TaskState \cup {NoTask}]
  BY DEF Goto, PageInv, TypeOK
<1> HIDE DEF t
<1>4. /\ tasks' \in [Workers -> TaskState \cup {NoTask}]
      /\ \A x \in Workers : tasks'[x] = IF x = w THEN t ELSE tasks[x]
      /\ tasks'[w] = t
  BY <1>2, <1>3
<1> QED
  BY <1>2, <1>4 DEF t

(* The page becomes a client of the schema registry. *)
LEMMA EnsureStepKeeps ==
    ASSUME PageInv, NEW w \in Workers, NEW k \in Kinds, EnsureOnWalletChain(w, k)
    PROVE  PageInv'
<1> USE DEF PageInv
<1> DEFINE t == [tasks[w] EXCEPT !.pc = "ensure", !.seen = [schema |-> k]]
<1>1. /\ tasks[w].kind = "publishSchema"
      /\ Ensure(page, {<<chain, k>>})
      /\ tasks' = [tasks EXCEPT ![w] = t]
      /\ UNCHANGED <<identityVars, ui, refs, chain, visit, unsaved, reloads>>
  BY DEF EnsureOnWalletChain
<1>2. tasks[w].kind \in Handlers /\ ~BackingUp(w) /\ ~PublishesNext(w)
  BY <1>1 DEF Handlers, BackingUp, PublishesNext, At
<1>3. tasks[w] \in TaskState /\ Actives = {w}
  BY <1>2, HandlerFacts
<1>4. t \in TaskState /\ t.kind = "publishSchema" /\ t.pc = "ensure" /\ t.seen = [schema |-> k]
  BY <1>1, <1>3 DEF TaskState
<1>5. t.seen.schema = k
  BY <1>4
<1> HIDE DEF t
<1>6. /\ tasks' \in [Workers -> TaskState \cup {NoTask}]
      /\ \A x \in Workers : tasks'[x] = IF x = w THEN t ELSE tasks[x]
  BY <1>1, <1>4 DEF TypeOK
<1>7. /\ \A s \in Sessions : job[s].pc = "idle"
      /\ \A s \in Sessions : identity[s] # 0 => Saved(identity[s])
  BY <1>2, <1>3, Quiet
<1>8. SchemaInv'
  BY <1>1, EnsureKeepsInv, Pages
<1>9. UNCHANGED <<keys, identity, stored, backups, claims, lost, job>> /\ Session' = Session
  BY <1>1 DEF identityVars, Session
<1>10. IdentityInv' /\ \A n \in unsaved : Issued(n)'
  BY <1>9, StutterIdentityInv, <1>1 DEF TypeOK, Issued
<1>11. IdentityFollows'
  BY <1>1, <1>9 DEF IdentityFollows
<1>12. JobsFollow' /\ BackupsFollow'
  BY <1>1, <1>7, <1>9 DEF JobsFollow, BackupsFollow, Saved, PublishedWasBackedUp
<1>13. /\ ui' \in View /\ refs' \in [store: Stores, private: Stores, backup: Backup \cup {NoBackup}]
       /\ ui' = ui /\ refs' = refs
  BY <1>1 DEF TypeOK
<1>14. t.kind \notin PrivateHandlers /\ t.pc # "backup"
  BY <1>4 DEF PrivateHandlers
<1> QED
  BY <1>1, <1>4, <1>5, <1>6, <1>8, <1>10, <1>11, <1>12, <1>13, <1>14, GoOnStep

(* The private store is there, or is made for the view. *)
LEMMA OpenStep ==
    ASSUME PageInv, NEW w \in Workers, OpenPrivate(w)
    PROVE  PageInv'
<1> USE DEF PageInv
<1> DEFINE t == [tasks[w] EXCEPT !.pc = "opened"]
           made == [mode |-> ui.mode, namespace |-> ui.active]
<1>1. tasks[w].kind \in PrivateHandlers /\ tasks[w].pc = "start"
  BY DEF OpenPrivate, At
<1>2. tasks[w].kind \in Handlers /\ ~BackingUp(w) /\ ~PublishesNext(w)
  BY <1>1 DEF Handlers, PrivateHandlers, BackingUp, PublishesNext, At
<1>3. tasks[w] \in TaskState /\ Actives = {w} /\ ui \in View
  BY <1>2, HandlerFacts DEF TypeOK
<1>4. tasks[w].seen.mode = ui.mode
  BY <1>1 DEF TaskShapes, ShapeOf
<1>5. /\ refs' = [refs EXCEPT !.private = IF refs.private # None THEN refs.private ELSE made]
      /\ Goto(w, "opened")
      /\ UNCHANGED <<ui, identityVars, schemaVars, chain, visit, unsaved, reloads>>
  BY <1>4 DEF OpenPrivate, Elsewhere
<1>6. made \in Stores /\ made # None
  <2>1. ui.mode \in Modes /\ ui.active \in Namespaces
    BY <1>3 DEF View
  <2>2. made \in [mode: Modes, namespace: Namespaces]
    BY <2>1
  <2>3. made.mode # None.mode
    BY <2>1 DEF Modes, None
  <2> HIDE DEF made
  <2> QED
    BY <2>2, <2>3 DEF Stores
<1> HIDE DEF made
<1>7. /\ refs' \in [store: Stores, private: Stores, backup: Backup \cup {NoBackup}]
      /\ refs'.store = refs.store /\ refs'.backup = refs.backup
      /\ refs'.private = IF refs.private # None THEN refs.private ELSE made
      /\ refs'.private # None
  BY <1>5, <1>6 DEF TypeOK
<1>8. /\ t \in TaskState /\ t.kind = tasks[w].kind /\ t.pc = "opened" /\ t.seen = tasks[w].seen
      /\ tasks' \in [Workers -> TaskState \cup {NoTask}]
      /\ \A x \in Workers : tasks'[x] = IF x = w THEN t ELSE tasks[x]
  BY <1>2, <1>5, Moves
<1> HIDE DEF t
<1>9. /\ \A s \in Sessions : job[s].pc = "idle"
      /\ \A s \in Sessions : identity[s] # 0 => Saved(identity[s])
  BY <1>2, <1>3, Quiet
<1>10. UNCHANGED <<keys, identity, stored, backups, claims, lost, job>>
  BY <1>5 DEF identityVars
<1>11. IdentityInv' /\ SchemaInv' /\ \A n \in unsaved : Issued(n)'
  BY <1>5, <1>10, StutterIdentityInv, NextSchemaInv DEF TypeOK, Issued
<1>12. IdentityFollows'
  <2>1. CASE refs.private # None
    <3>1. Session' = Session
      BY <1>7, <2>1 DEF Session
    <3> QED
      BY <1>5, <1>7, <1>10, <2>1, <3>1 DEF IdentityFollows
  <2>2. CASE refs.private = None
    BY <1>5, <1>10, <2>2 DEF IdentityFollows
  <2> QED
    BY <2>1, <2>2
<1>13. JobsFollow' /\ BackupsFollow'
  BY <1>5, <1>7, <1>9, <1>10 DEF JobsFollow, BackupsFollow, Saved, PublishedWasBackedUp
<1>14. /\ t.kind # "publishSchema" /\ t.pc # "backup" /\ t.seen.mode = ui.mode
       /\ ui' = ui /\ UNCHANGED <<chain, visit, unsaved, reloads>>
  BY <1>1, <1>4, <1>5, <1>8 DEF PrivateHandlers
<1>15. refs'.private \in {refs.private, [mode |-> ui.mode, namespace |-> ui.active]}
  BY <1>7 DEF made
<1> QED
  BY <1>1, <1>3, <1>7, <1>8, <1>11, <1>12, <1>13, <1>14, <1>15, GoOnStep

(* A new identity: its backup is the next thing the handler does. *)
LEMMA CreateStep ==
    ASSUME PageInv, NEW w \in Workers, Create(w)
    PROVE  PageInv'
<1> USE DEF PageInv
<1> DEFINE t == [tasks[w] EXCEPT !.pc = "backup"]
<1>1. /\ tasks[w].kind \in {"setup", "create"} /\ tasks[w].pc = "opened"
      /\ CreateIdentity(Session) /\ Goto(w, "backup")
      /\ UNCHANGED <<ui, refs, schemaVars, chain, visit, unsaved, reloads>>
  BY DEF Create, At, Elsewhere
<1>2. tasks[w].kind \in PrivateHandlers /\ ~BackingUp(w) /\ ~PublishesNext(w)
  BY <1>1 DEF PrivateHandlers, BackingUp, PublishesNext, At
<1>3. /\ tasks[w].kind \in Handlers /\ refs.private # None /\ Session \in Sessions
      /\ \A s \in Sessions : identity[s] # 0 => s = Session
  BY <1>1, <1>2, OpenedFacts
<1>4. Actives = {w}
  BY <1>3, HandlerFacts
<1>5. \A s \in Sessions : job[s].pc = "idle"
  BY <1>2, <1>4, Quiet
<1>6. /\ t \in TaskState /\ t.kind = tasks[w].kind /\ t.pc = "backup" /\ t.seen = tasks[w].seen
      /\ tasks' \in [Workers -> TaskState \cup {NoTask}]
      /\ \A x \in Workers : tasks'[x] = IF x = w THEN t ELSE tasks[x]
  BY <1>1, <1>3, Moves
<1> HIDE DEF t
<1>7. Actives' = {w} /\ BackingUp(w)'
  BY <1>1, <1>3, <1>6, StaysActive DEF BackingUp
<1>8. IdentityInv'
  BY <1>1, <1>3, CreateKeepsInv
<1>9. IdentityNext
  BY <1>1, <1>3 DEF IdentityNext
<1>10. \A n \in unsaved : Issued(n)'
  BY <1>9, IssuedStays DEF TypeOK, Issued
<1>11. /\ identity' = [identity EXCEPT ![Session] = Len(keys) + 1]
       /\ UNCHANGED <<stored, backups, claims, lost, job>>
  BY <1>1 DEF CreateIdentity
<1>12. Len(keys) + 1 # 0
  BY LenProperties DEF IdentityInv, IdentityTypeOK
<1>13. /\ \A s \in Sessions : identity'[s] # 0 => s = Session
       /\ identity'[Session] # 0
  BY <1>3, <1>11, <1>12 DEF IdentityInv, IdentityTypeOK
<1>14. SchemaInv' /\ Session' = Session
  BY <1>1, NextSchemaInv DEF Session
<1>15. IdentityFollows'
  BY <1>1, <1>3, <1>13, <1>14 DEF IdentityFollows
<1>16. JobsFollow' /\ BackupsFollow'
  BY <1>1, <1>5, <1>7, <1>11 DEF JobsFollow, BackupsFollow, Saved, PublishedWasBackedUp
<1>17. /\ ui' \in View /\ refs' \in [store: Stores, private: Stores, backup: Backup \cup {NoBackup}]
       /\ ui' = ui /\ refs' = refs
  BY <1>1 DEF TypeOK
<1>18. t.seen.mode = ui.mode
  BY <1>2, <1>6 DEF TaskShapes, ShapeOf
<1>19. t.kind # "publishSchema"
  BY <1>1, <1>6
<1> QED
  BY <1>1, <1>2, <1>3, <1>6, <1>8, <1>10, <1>13, <1>14, <1>15, <1>16, <1>17, <1>18, <1>19, GoOnStep

(* A backup or a publication begins, of the present identity. *)
LEMMA BeginStep ==
    ASSUME PageInv, NEW w \in Workers, Encrypt(w) \/ SignKey(w)
    PROVE  PageInv'
<1> USE DEF PageInv
<1> DEFINE pc == IF BackingUp(w) THEN "backup" ELSE "publish"
<1>1. /\ \/ BackingUp(w) /\ BeginBackup(Session)
         \/ PublishesNext(w) /\ BeginPublish(Session)
      /\ UNCHANGED <<ui, refs, tasks, schemaVars, chain, visit, unsaved, reloads>>
  BY DEF Encrypt, SignKey, BackingUp, At, Elsewhere
<1>2. /\ tasks[w].kind \in PrivateHandlers /\ tasks[w].pc # "start"
      /\ BackingUp(w) => ~PublishesNext(w)
  BY <1>1 DEF BackingUp, PublishesNext, At, PrivateHandlers
<1>3. /\ tasks[w].kind \in Handlers /\ refs.private # None /\ Session \in Sessions
      /\ \A s \in Sessions : identity[s] # 0 => s = Session
      /\ \A s \in Sessions : job[s].pc # "idle" => s = Session
  BY <1>2, OpenedFacts
<1>4. Actives = {w} /\ tasks[w] \in TaskState
  BY <1>3, HandlerFacts
<1>5. /\ identity[Session] # 0
      /\ UNCHANGED <<keys, identity, stored, backups, claims, lost>>
  BY <1>1 DEF BeginBackup, BeginPublish
<1>6. PICK base : job' = [job EXCEPT ![Session] = [pc |-> pc, key |-> identity[Session], base |-> base]]
  BY <1>1, <1>2 DEF BeginBackup, BeginPublish
<1>7. \A s \in Sessions : job'[s] = IF s = Session
                                   THEN [pc |-> pc, key |-> identity[Session], base |-> base]
                                   ELSE job[s]
  BY <1>6 DEF IdentityInv, IdentityTypeOK
<1>8. IdentityInv' /\ SchemaInv'
  BY <1>1, <1>3, BeginJobKeepsInv, NextSchemaInv
<1>9. Session' = Session /\ Actives' = {w}
  BY <1>1, <1>4 DEF Session, Actives, Active
<1>10. BackingUp(w)' = BackingUp(w) /\ PublishesNext(w)' = PublishesNext(w)
  BY <1>1 DEF BackingUp, PublishesNext, At
<1>11. \A s \in Sessions : job'[s].pc # "idle" =>
           /\ s = Session /\ job'[s].key = identity[Session]
           /\ job'[s].pc = pc
  BY <1>3, <1>7
<1>12. IdentityFollows'
  BY <1>1, <1>5, <1>9 DEF IdentityFollows
<1>13. JobsFollow'
  <2>1. w \in Actives' /\ (BackingUp(w)' \/ PublishesNext(w)')
    BY <1>1, <1>9, <1>10
  <2> QED
    BY <1>1, <1>5, <1>9, <1>10, <1>11, <2>1 DEF JobsFollow
<1>14. BackupsFollow'
  <2>1. ~BackingUp(w) => Saved(identity[Session])
    BY <1>3, <1>4, <1>5 DEF BackupsFollow
  <2>2. \A s \in Sessions : job'[s].pc = "publish" => Saved(job'[s].key)
    BY <1>11, <2>1
  <2>3. \A s \in Sessions : identity[s] # 0 => Saved(identity[s]) \/ BackingUp(w)
    BY <1>4 DEF BackupsFollow
  <2> QED
    BY <1>1, <1>5, <1>9, <1>10, <2>2, <2>3 DEF BackupsFollow, Saved, PublishedWasBackedUp
<1>15. \A n \in unsaved : Issued(n)'
  BY <1>5 DEF TypeOK, Issued
<1>16. /\ ui' \in View /\ refs' \in [store: Stores, private: Stores, backup: Backup \cup {NoBackup}]
       /\ ui' = ui /\ refs' = refs /\ tasks' \in [Workers -> TaskState \cup {NoTask}]
       /\ tasks' = tasks
  BY <1>1 DEF TypeOK
<1> DEFINE t == tasks[w]
<1>17. /\ t \in TaskState /\ t.kind \in PrivateHandlers /\ t.kind # "publishSchema"
       /\ t.seen.mode = ui.mode
       /\ t.pc = "backup" => t.kind \in {"setup", "create"}
       /\ \A x \in Workers : tasks'[x] = IF x = w THEN t ELSE tasks[x]
  BY <1>1, <1>2, <1>4 DEF TaskShapes, ShapeOf, BackingUp, PublishesNext, At, PrivateHandlers
<1> HIDE DEF t, pc
<1>18. tasks[w].kind = t.kind
  BY DEF t
<1> QED
  BY <1>1, <1>3, <1>5, <1>8, <1>9, <1>12, <1>13, <1>14, <1>15, <1>16, <1>17, <1>18, GoOnStep

(* The backup is stored: the identity is safe. *)
LEMMA BackedUpStep ==
    ASSUME PageInv, NEW w \in Workers, NEW phrase \in Phrases, BackedUp(w, phrase)
    PROVE  PageInv'
<1> USE DEF PageInv
<1> DEFINE more == tasks[w].kind = "setup"
           b == [key |-> job[Session].key, phrase |-> phrase]
<1>1. /\ tasks[w].kind \in {"setup", "create"} /\ tasks[w].pc = "backup"
      /\ PutBackup(Session, phrase)
      /\ refs' = [refs EXCEPT !.backup = b]
      /\ ui' = [ui EXCEPT !.phrase = phrase, !.busy = more]
      /\ IF more THEN Goto(w, "publish") ELSE End(w)
      /\ UNCHANGED <<schemaVars, chain, visit, unsaved, reloads>>
  BY DEF BackedUp, At, Elsewhere
<1>2. tasks[w].kind \in PrivateHandlers /\ more \in BOOLEAN
  BY <1>1 DEF PrivateHandlers
<1>3. /\ tasks[w].kind \in Handlers /\ refs.private # None /\ Session \in Sessions
      /\ \A s \in Sessions : identity[s] # 0 => s = Session
      /\ \A s \in Sessions : job[s].pc # "idle" => s = Session
  BY <1>1, <1>2, OpenedFacts
<1>4. Actives = {w} /\ ui.busy /\ ui \in View
  BY <1>3, HandlerFacts DEF TypeOK
<1>5. /\ job[Session].pc = "backup"
      /\ stored' = [stored EXCEPT ![SlotOf(b.key)] = b]
      /\ backups' = backups \cup {b}
      /\ job' = [job EXCEPT ![Session] = NoJob]
      /\ UNCHANGED <<keys, identity, claims, lost>>
  BY <1>1 DEF PutBackup
<1>6. job[Session].key = identity[Session] /\ identity[Session] # 0
  BY <1>3, <1>5 DEF JobsFollow
<1>7. b.key = identity[Session] /\ b \in Backup
  <2>1. identity[Session] \in Nat
    BY <1>3 DEF IdentityInv, IdentityTypeOK
  <2> QED
    BY <1>6, <2>1 DEF Backup
<1> HIDE DEF b, more
<1>8. IdentityInv'
  BY <1>1, <1>3, PutBackupKeepsInv
<1>9. \A s \in Sessions : job'[s].pc = "idle"
  <2>1. \A s \in Sessions : job'[s] = IF s = Session THEN NoJob ELSE job[s]
    BY <1>5 DEF IdentityInv, IdentityTypeOK
  <2> QED
    BY <1>3, <2>1 DEF NoJob
<1>10. /\ refs' \in [store: Stores, private: Stores, backup: Backup \cup {NoBackup}]
       /\ refs'.store = refs.store /\ refs'.private = refs.private /\ refs'.backup = b
       /\ Session' = Session
  BY <1>1, <1>7 DEF TypeOK, Session
<1>11. /\ ui' \in View /\ ui'.mode = ui.mode /\ ui'.active = ui.active /\ ui'.busy = more
       /\ ui'.rows = ui.rows /\ ui'.later = ui.later /\ ui'.clearing = ui.clearing
       /\ ui'.ready = ui.ready /\ ui'.draft = ui.draft
  BY <1>1, <1>2, <1>4 DEF View
<1>12. IdentityFollows'
  BY <1>5, <1>10, <1>11 DEF IdentityFollows
<1>13. BackupsFollow'
  <2>1. \A s \in Sessions : identity'[s] # 0 => \E c \in backups' : c.key = identity'[s]
    BY <1>3, <1>5, <1>7
  <2>2. \A x \in Slots : stored'[x] \in backups' \cup {NoBackup}
    BY <1>5 DEF BackupsFollow, IdentityInv, IdentityTypeOK
  <2>3. PublishedWasBackedUp'
    BY <1>1, <1>5 DEF BackupsFollow, PublishedWasBackedUp
  <2> QED
    BY <1>5, <1>9, <1>10, <2>1, <2>2, <2>3 DEF BackupsFollow, Saved
<1>14. \A n \in unsaved : Issued(n)'
  BY <1>5 DEF TypeOK, Issued
<1>15. CASE more
  <2> DEFINE t == [tasks[w] EXCEPT !.pc = "publish"]
  <2>1. /\ t \in TaskState /\ t.kind = tasks[w].kind /\ t.pc = "publish" /\ t.seen = tasks[w].seen
        /\ tasks' \in [Workers -> TaskState \cup {NoTask}]
        /\ \A x \in Workers : tasks'[x] = IF x = w THEN t ELSE tasks[x]
    BY <1>1, <1>3, <1>15, Moves
  <2> HIDE DEF t
  <2>2. /\ t.kind \in PrivateHandlers /\ t.kind # "publishSchema"
        /\ t.pc # "backup" /\ t.seen.mode = ui.mode
    BY <1>1, <1>2, <2>1 DEF TaskShapes, ShapeOf
  <2>3. ui'.busy = ui.busy
    BY <1>4, <1>11, <1>15 DEF View
  <2>4. SchemaInv'
    BY <1>1, NextSchemaInv
  <2>5. JobsFollow'
    BY <1>9 DEF JobsFollow
  <2>6. refs'.private # None /\ refs'.private \in {refs.private, [mode |-> ui.mode, namespace |-> ui.active]}
    BY <1>3, <1>10
  <2> QED
    BY <1>1, <1>2, <1>8, <1>10, <1>11, <1>12, <1>13, <1>14, <2>1, <2>2, <2>3, <2>4, <2>5, <2>6, GoOnStep
<1>16. CASE ~more
  <2>1. End(w) /\ ~ui'.busy
    BY <1>1, <1>11, <1>16
  <2>2. \A k \in unsaved' : Issued(k)'
    BY <1>1, <1>14
  <2>3. /\ refs'.store \in {refs.store, None}
        /\ Tidy(ui') /\ ("old" \in ui'.later => "old" \in ui.later)
    BY <1>10, <1>11 DEF RowsFollow, Tidy
  <2> QED
    BY <1>1, <1>3, <1>8, <1>9, <1>10, <1>11, <1>12, <1>13, <2>1, <2>2, <2>3, EndStep
<1> QED
  BY <1>15, <1>16

(* Typing and toggling change nothing that the stores depend on. *)
LEMMA FieldStep ==
    ASSUME PageInv, Type \/ TogglePrivate
    PROVE  PageInv'
<1> USE DEF PageInv
<1>1. ui \in View /\ chain \in Networks
  BY DEF TypeOK
<1>2. UNCHANGED <<refs, tasks, identityVars, schemaVars, chain, visit, unsaved, reloads>>
  BY DEF Type, TogglePrivate, Elsewhere
<1>3. SchemaInv' /\ chain' \in Networks
  BY <1>1, <1>2, NextSchemaInv
<1> DEFINE Kept ==
      /\ ui' \in View /\ ui'.mode = ui.mode /\ ui'.active = ui.active
      /\ ui'.busy = ui.busy
      /\ ui'.rows = ui.rows /\ ui'.later = ui.later /\ ui'.clearing = ui.clearing
      /\ ui'.ready \/ ui'.draft => ui.ready \/ ui.draft
<1>4. Kept
  <2>1. ASSUME NEW ns \in Namespaces, ui' = [ui EXCEPT !.input = ns]
        PROVE  Kept
    BY <1>1, <2>1 DEF View
  <2>2. ASSUME NEW phrase \in Phrases, ui' = [ui EXCEPT !.phrase = phrase]
        PROVE  Kept
    BY <1>1, <2>2 DEF View
  <2>3. ASSUME ui' = [ui EXCEPT !.schema = ""]
        PROVE  Kept
    BY <1>1, <2>3 DEF View
  <2>4. ASSUME TogglePrivate
        PROVE  Kept
    <3> DEFINE draft == ~ui.draft
    <3>1. ui' = [ui EXCEPT !.draft = draft] /\ draft \in BOOLEAN /\ (ui.draft \/ ui.ready)
      BY <2>4 DEF TogglePrivate
    <3> HIDE DEF draft
    <3> QED
      BY <1>1, <3>1 DEF View
  <2> QED
    BY <2>1, <2>2, <2>3, <2>4 DEF Type
<1>5. Tidy(ui') /\ ("old" \in ui'.later => "old" \in ui.later)
  BY <1>4 DEF RowsFollow, Tidy
<1> QED
  BY <1>2, <1>3, <1>4, <1>5, ViewStep

(* The pending transition takes the stale rows away. *)
LEMMA CommitStep ==
    ASSUME PageInv, CommitTransition
    PROVE  PageInv'
<1> USE DEF PageInv
<1>1. ui \in View /\ chain \in Networks
  BY DEF TypeOK
<1>2. /\ ui' = [ui EXCEPT !.rows = ui.later, !.clearing = FALSE]
      /\ UNCHANGED <<refs, tasks, identityVars, schemaVars, chain, visit, unsaved, reloads>>
  BY DEF CommitTransition, Elsewhere
<1>3. SchemaInv' /\ chain' \in Networks
  BY <1>1, <1>2, NextSchemaInv
<1>4. /\ ui' \in View /\ ui'.mode = ui.mode /\ ui'.active = ui.active /\ ui'.busy = ui.busy
      /\ ui'.rows = ui.later /\ ui'.later = ui.later
      /\ ui'.ready = ui.ready /\ ui'.draft = ui.draft
  BY <1>1, <1>2 DEF View
<1>5. Tidy(ui')
  BY <1>4 DEF Tidy
<1> QED
  BY <1>2, <1>3, <1>4, <1>5, ViewStep

(* The wallet and the other clients do not touch the page. *)
LEMMA OutsideStep ==
    ASSUME PageInv, OtherClients \/ \E n \in Networks : SwitchWallet(n)
    PROVE  PageInv'
<1> USE DEF PageInv
<1>1. UNCHANGED <<ui, refs, tasks, identityVars, visit, unsaved, reloads>>
  BY DEF OtherClients, SwitchWallet, pageVars
<1>2. chain' \in Networks
  BY DEF OtherClients, SwitchWallet, pageVars, TypeOK
<1>3. SchemaInv'
  <2>1. ASSUME NEW c \in Clients, EnsureStep(c)
        PROVE  SchemaInv'
    BY <2>1, NextSchemaInv DEF SchemaNext
  <2>2. ASSUME NEW c \in Clients, NEW X, Ensure(c, X)
        PROVE  SchemaInv'
    BY <2>2, EnsureKeepsInv
  <2>4. ASSUME NEW x \in Schemas, LateRegister(x)
        PROVE  SchemaInv'
    BY <2>4, NextSchemaInv DEF SchemaNext
  <2>3. ASSUME UNCHANGED schemaVars
        PROVE  SchemaInv'
    BY <2>3, NextSchemaInv
  <2> QED
    BY <2>1, <2>2, <2>3, <2>4 DEF OtherClients, SwitchWallet
<1>4. ui' \in View /\ ui' = ui /\ Tidy(ui')
  BY <1>1 DEF TypeOK, RowsFollow
<1> QED
  BY <1>1, <1>2, <1>3, <1>4, ViewStep

(* Every step keeps the invariant. *)
LEMMA NextPageInv == PageInv /\ [Next]_vars => PageInv'
<1> SUFFICES ASSUME PageInv, [Next]_vars
             PROVE  PageInv'
  OBVIOUS
<1>1. CASE UNCHANGED vars
  <2>1. UNCHANGED <<ui, refs, tasks, identityVars, schemaVars, chain, visit, unsaved, reloads>>
    BY <1>1 DEF vars, pageVars
  <2>2. SchemaInv' /\ chain' \in Networks /\ ui' \in View /\ Tidy(ui')
    BY <2>1, NextSchemaInv DEF PageInv, TypeOK, RowsFollow
  <2> QED
    BY <2>1, <2>2, ViewStep
<1>2. ASSUME NEW w \in Workers, Step(w)
      PROVE  PageInv'
  BY <1>2, BootStep, ConnectStep, RecordStep, SchemaPublishedStep, OpenStep, CreateStep, BeginStep,
     KeyPublishedStep, PrivateSetStep, RestoreStep, FailStep, BackedUpStep, EnsureStepKeeps
     DEF Step
<1>3. ASSUME NEW w \in Workers, LocalMode(w)
      PROVE  PageInv'
  BY <1>3, LocalModeStep
<1>4. ASSUME NEW w \in Workers, NEW kind \in Handlers, Click(w, kind)
      PROVE  PageInv'
  BY <1>4, ClickStep
<1>5. ASSUME OtherClients \/ \E n \in Networks : SwitchWallet(n)
      PROVE  PageInv'
  BY <1>5, OutsideStep
<1>6. ASSUME Type \/ TogglePrivate
      PROVE  PageInv'
  BY <1>6, FieldStep
<1>7. ASSUME Reload
      PROVE  PageInv'
  BY <1>7, ReloadStep
<1>8. ASSUME CommitTransition
      PROVE  PageInv'
  BY <1>8, CommitStep
<1> QED
  BY <1>1, <1>2, <1>3, <1>4, <1>5, <1>6, <1>7, <1>8 DEF Next

LEMMA PageInvHolds == Spec => []PageInv
BY InitPageInv, NextPageInv, PTL DEF Spec

-----------------------------------------------------------------------------
(* Every state of the page is well typed, whatever the visitor does. *)
THEOREM PageTypes == Spec => []TypeOK
<1>1. PageInv => TypeOK
  BY DEF PageInv
<1> QED
  BY <1>1, PageInvHolds, PTL

(* One handler runs while the buttons are disabled, none while they are    *)
(* not: no click, fallback, second boot or reload gets two of them going.  *)
THEOREM OneHandlerAtATime == Spec => []BusyMeansRunning
<1>1. PageInv => BusyMeansRunning
  <2> SUFFICES ASSUME PageInv PROVE Cardinality(Actives) = IF ui.busy THEN 1 ELSE 0
    BY DEF BusyMeansRunning, Actives, Active
  <2>1. CASE ui.busy
    <3>1. PICK w \in Workers : Actives = {w}
      BY <2>1 DEF PageInv, OneHandler
    <3>2. Cardinality({w}) = 1
      BY FS_Singleton
    <3> QED
      BY <2>1, <3>1, <3>2
  <2>2. CASE ~ui.busy
    <3>1. Actives = {}
      BY <2>2 DEF PageInv, OneHandler
    <3> QED
      BY <2>2, <3>1, FS_EmptySet
  <2> QED
    BY <2>1, <2>2
<1> QED
  BY <1>1, PageInvHolds, PTL

(* On an idle page no boot is left that has yet to replace a store. *)
LEMMA IdleMeansBooted == PageInv /\ ~ui.busy => ~Booted
BY DEF PageInv, OneHandler, Booted

(* The stores in use are those of the mode and namespace on screen. *)
THEOREM ViewAndStoresAgree == Spec => []StoresMatchTheView
<1>1. PageInv => StoresMatchTheView
  BY IdleMeansBooted DEF PageInv, StoresFollow, StoresMatchTheView
<1> QED
  BY <1>1, PageInvHolds, PTL

(* Stale rows are shown by an idle page at most until the transition that  *)
(* was started with the store in use is rendered, which leaves the rows    *)
(* written to that store.                                                  *)
THEOREM RowsAreCurrent == Spec => []RowsAreOfTheStoreInUse
<1>1. PageInv => RowsAreOfTheStoreInUse
  <2> SUFFICES ASSUME PageInv, ~ui.busy, refs.store # None
               PROVE  ui.later = ui.rows \ {"old"} /\ (ui.clearing \/ ui.rows = ui.later)
    BY DEF RowsAreOfTheStoreInUse
  <2>1. Tidy(ui) /\ "old" \notin ui.later
    BY IdleMeansBooted DEF PageInv, RowsFollow
  <2> QED
    BY <2>1 DEF Tidy
<1> QED
  BY <1>1, PageInvHolds, PTL

(* Private mode is on only over an identity of the wallet that it is for. *)
THEOREM PrivateModeIsUsable == Spec => []PrivateModeHasIdentity
<1>1. PageInv => PrivateModeHasIdentity
  <2> SUFFICES ASSUME PageInv, ui.ready \/ ui.draft
               PROVE  /\ refs.private # None
                      /\ identity[<<ui.mode, ui.active>>] # 0
                      /\ keys[identity[<<ui.mode, ui.active>>]].wallet = WalletOf[<<ui.mode, ui.active>>]
    BY DEF PrivateModeHasIdentity
  <2>1. refs.private # None /\ identity[Session] # 0
    BY DEF PageInv, IdentityFollows
  <2>2. Session = <<ui.mode, ui.active>> /\ Session \in Sessions
    BY <2>1, SessionFacts
  <2>3. keys[identity[Session]].wallet = WalletOf[Session]
    BY <2>1, <2>2 DEF PageInv, IdentityInv, KeysStayWithTheirWallet
  <2> QED
    BY <2>1, <2>2, <2>3
<1> QED
  BY <1>1, PageInvHolds, PTL

(* Whatever fails, races or reloads, a key that the page published was     *)
(* backed up, or the user saw its backup fail.                             *)
THEOREM KeysAreBackedUpFirst == Spec => []PublishedWasBackedUp
<1>1. PageInv => PublishedWasBackedUp
  BY DEF PageInv, BackupsFollow
<1> QED
  BY <1>1, PageInvHolds, PTL
=============================================================================
