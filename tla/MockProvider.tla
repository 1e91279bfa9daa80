----------------------------- MODULE MockProvider -----------------------------
(***************************************************************************)
(* MockEASStoreProvider (src/src/testing.ts): the stores it makes share    *)
(* one storage and one memory index until reset() puts new ones in their   *)
(* place; stores made before keep the old ones.  store() awaits the        *)
(* signer's address, and a write puts its value before it indexes.         *)
(***************************************************************************)
EXTENDS Naturals

CONSTANTS Stores, Records,
          MaxResets      \* bound

ASSUME ResetBound == MaxResets \in Nat

VARIABLES
    generation,          \* the provider's current storage and index
    made,                \* made[s]: whether store() was called, and returned
    storage, indexer,    \* of each store, by generation
    values, indexed,     \* the contents of each generation
    writing              \* writing[s]: the record between put and index

mockVars == <<generation, made, storage, indexer, values, indexed, writing>>

NoRecord == "no record"
Generations == 0..MaxResets

MockInit ==
    /\ generation = 0
    /\ made = [s \in Stores |-> "no"]
    /\ storage = [s \in Stores |-> 0] /\ indexer = [s \in Stores |-> 0]
    /\ values = [g \in Generations |-> {}]
    /\ indexed = [g \in Generations |-> {}]
    /\ writing = [s \in Stores |-> NoRecord]

ResetProvider ==
    /\ generation < MaxResets
    /\ generation' = generation + 1
    /\ UNCHANGED <<made, storage, indexer, values, indexed, writing>>

BeginStore(s) ==
    /\ made[s] = "no"
    /\ made' = [made EXCEPT ![s] = "begun"]
    /\ storage' = [storage EXCEPT ![s] = generation]
    /\ UNCHANGED <<generation, indexer, values, indexed, writing>>

(* Mutant: the storage is the one from before the await. *)
StorageAtBegin(s) == storage[s]

StorageAtEnd(s) == generation

MakeStore(s) ==
    /\ made[s] = "begun"
    /\ made' = [made EXCEPT ![s] = "yes"]
    /\ storage' = [storage EXCEPT ![s] = StorageAtEnd(s)]
    /\ indexer' = [indexer EXCEPT ![s] = generation]
    /\ UNCHANGED <<generation, values, indexed, writing>>

PutValue(s, r) ==
    /\ made[s] = "yes"
    /\ writing[s] = NoRecord
    /\ values' = [values EXCEPT ![storage[s]] = @ \cup {r}]
    /\ writing' = [writing EXCEPT ![s] = r]
    /\ UNCHANGED <<generation, made, storage, indexer, indexed>>

IndexRecord(s) ==
    /\ writing[s] # NoRecord
    /\ indexed' = [indexed EXCEPT ![indexer[s]] = @ \cup {writing[s]}]
    /\ writing' = [writing EXCEPT ![s] = NoRecord]
    /\ UNCHANGED <<generation, made, storage, indexer, values>>

MockNext ==
    \/ ResetProvider
    \/ \E s \in Stores :
          \/ BeginStore(s) \/ MakeStore(s) \/ IndexRecord(s)
          \/ \E r \in Records : PutValue(s, r)

MockSpec == MockInit /\ [][MockNext]_mockVars

-----------------------------------------------------------------------------
(* However stores are made and the provider is reset meanwhile, a store    *)
(* can fetch the value of every record that it finds (testing.ts:75-94).   *)
IndexedValuesAreStored ==
    \A s \in Stores : made[s] = "yes" => indexed[indexer[s]] \subseteq values[storage[s]]
=============================================================================
