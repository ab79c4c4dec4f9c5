-------------------------- MODULE ProductionTypeIds --------------------------
(***************************************************************************)
(* Surrogate keys of silver/dim_production_type and the rows of            *)
(* silver/fact_generation that are labelled with them.                     *)
(*                                                                         *)
(* DimProductionTypeProcessor.process reads the types present in Bronze,   *)
(* reads the ids already assigned, builds rows and MERGEs them on the      *)
(* name; FactGenerationProcessor.process then looks names up in the        *)
(* dimension and MERGEs fact rows on the id.  Reading and committing are   *)
(* separate steps: a processor is one operating-system process running the *)
(* Silver step (the scheduler, a backfill, a manual run).                  *)
(***************************************************************************)
EXTENDS Integers, FiniteSets, Functions, DeltaIO

CONSTANTS
    Processors,   \* processes that may run the Silver step
    Types,        \* production type names; a name is its alphabetical position
    Canonical,    \* the names listed in _CANONICAL
    CanonicalId   \* the id _CANONICAL gives each of them

(* _CANONICAL is a non-empty literal whose ids are numbered from 1.        *)
ASSUME TypesAssumption ==
    /\ Types \subseteq Nat
    /\ IsFiniteSet(Types)
    /\ Canonical \subseteq Types
    /\ Canonical # {}
    /\ CanonicalId \in [Canonical -> 1..Cardinality(Canonical)]
    /\ \A s, t \in Canonical : CanonicalId[s] = CanonicalId[t] => s = t

VARIABLES
    bronzeTypes,  \* distinct production_type values in bronze/entsoe_generation
    dim,          \* dim_production_type: name -> production_type_id
    facts,        \* labels of fact_generation: [name, id] of every row written
    pc,           \* where each processor is in its Silver run
    seenTypes,    \* bronze_types, as the processor read them
    seenIds,      \* the dimension, as the processor read it
    overlapped    \* history: whether two Silver runs have overlapped

vars == <<bronzeTypes, dim, facts, pc, seenTypes, seenIds, overlapped>>

Phases == {"idle", "readIds", "findTable", "create", "merge",
           "readDim", "mergeFacts"}

NoIds == [t \in {} |-> 0]

(* An assignment of ids to some of the names. *)
IsIdTable(f) == DOMAIN f \subseteq Types /\ f \in [DOMAIN f -> Nat \ {0}]

TypeOK ==
    /\ bronzeTypes \subseteq Types
    /\ IsIdTable(dim)
    /\ facts \subseteq [name : Types, id : Nat \ {0}]
    /\ pc \in [Processors -> Phases]
    /\ seenTypes \in [Processors -> SUBSET Types]
    /\ DOMAIN seenIds = Processors
    /\ \A p \in Processors : IsIdTable(seenIds[p])
    /\ overlapped \in BOOLEAN

Init ==
    /\ bronzeTypes = {}
    /\ dim = NoIds
    /\ facts = {}
    /\ pc = [p \in Processors |-> "idle"]
    /\ seenTypes = [p \in Processors |-> {}]
    /\ seenIds = [p \in Processors |-> NoIds]
    /\ overlapped = FALSE

------------------------------------------------------------------------------
(* _build_rows                                                             *)

(* Faulty variant of UsedIds: only the ids found in the table are spared.  *)
TableIds(ids) == {0} \cup Range(ids)

UsedIds(ids) == Range(CanonicalId) \cup Range(ids)

MaxId(S) == CHOOSE m \in S : \A i \in S : i <= m

(* Discovered types that have no id yet. *)
NewTypes(types, ids) == types \ (Canonical \cup DOMAIN ids)

(* Faulty variant of NextId: it forgets the ids found in the table.        *)
NextIdAfterCanonical(t, types, ids) ==
    MaxId(Range(CanonicalId)) + 1
        + Cardinality({u \in NewTypes(types, ids) : u < t})

(* next_id, incremented along the sorted new types. *)
NextId(t, types, ids) ==
    MaxId(UsedIds(ids)) + 1
        + Cardinality({u \in NewTypes(types, ids) : u < t})

(* Faulty variant of BuildRows: discovered types numbered alphabetically   *)
(* on every run.                                                           *)
RenumberedRows(types, ids) ==
    [t \in Canonical \cup types |->
        IF t \in Canonical THEN CanonicalId[t]
        ELSE Cardinality(Canonical) + 1
                 + Cardinality({u \in types \ Canonical : u < t})]

(* Canonical types keep their fixed id, known types the one they have.     *)
BuildRows(types, ids) ==
    [t \in Canonical \cup types |->
        IF t \in Canonical THEN CanonicalId[t]
        ELSE IF t \in DOMAIN ids THEN ids[t]
        ELSE NextId(t, types, ids)]

------------------------------------------------------------------------------
(* The ENTSO-E Bronze writer appends generation of a type not seen before. *)
Discover(t) ==
    /\ t \notin bronzeTypes
    /\ bronzeTypes' = bronzeTypes \cup {t}
    /\ UNCHANGED <<dim, facts, pc, seenTypes, seenIds, overlapped>>

(* _read_bronze_types; any exception reads as the empty set.               *)
ReadBronzeTypes(p) ==
    /\ pc[p] = "idle"
    /\ \E S \in {bronzeTypes, {}} : seenTypes' = [seenTypes EXCEPT ![p] = S]
    /\ pc' = [pc EXCEPT ![p] = "readIds"]
    /\ overlapped' = (overlapped \/ \E q \in Processors \ {p} : pc[q] # "idle")
    /\ UNCHANGED <<bronzeTypes, dim, facts, seenIds>>

(* _read_existing_ids *)
ReadExistingIds(p) ==
    /\ pc[p] = "readIds"
    /\ seenIds' = [seenIds EXCEPT ![p] = dim]
    /\ pc' = [pc EXCEPT ![p] = "findTable"]
    /\ UNCHANGED <<bronzeTypes, dim, facts, seenTypes, overlapped>>

(* merge_upsert asks once whether the table exists...                      *)
FindTable(p) ==
    /\ pc[p] = "findTable"
    /\ pc' = [pc EXCEPT ![p] = IF IsSilverTable(dim) THEN "merge" ELSE "create"]
    /\ UNCHANGED <<bronzeTypes, dim, facts, seenTypes, seenIds, overlapped>>

(* ... and overwrites it if it did not...                                  *)
CreateDim(p) ==
    /\ pc[p] = "create"
    /\ dim' = InitialWrite(BuildRows(seenTypes[p], seenIds[p]))
    /\ pc' = [pc EXCEPT ![p] = "readDim"]
    /\ UNCHANGED <<bronzeTypes, facts, seenTypes, seenIds, overlapped>>

(* ... or MERGEs into it if it did.                                        *)
MergeDim(p) ==
    /\ pc[p] = "merge"
    /\ dim' = MergeUpsert(dim, BuildRows(seenTypes[p], seenIds[p]))
    /\ pc' = [pc EXCEPT ![p] = "readDim"]
    /\ UNCHANGED <<bronzeTypes, facts, seenTypes, seenIds, overlapped>>

(* FactGenerationProcessor.process loads and caches its lookup; it raises  *)
(* when there is no dimension.                                             *)
ReadDim(p) ==
    /\ pc[p] = "readDim"
    /\ IsSilverTable(dim)
    /\ seenTypes' = [seenTypes EXCEPT ![p] = bronzeTypes]
    /\ seenIds' = [seenIds EXCEPT ![p] = dim]
    /\ pc' = [pc EXCEPT ![p] = "mergeFacts"]
    /\ UNCHANGED <<bronzeTypes, dim, facts, overlapped>>

(* ... drops the rows whose lookup failed and MERGEs those of the types    *)
(* that have data in the run's window.  It runs once for every market, and *)
(* in a backfill for every month, after one run of the dimension.          *)
MergeFacts(p) ==
    /\ pc[p] = "mergeFacts"
    /\ \E S \in SUBSET (seenTypes[p] \cap DOMAIN seenIds[p]) :
           facts' = facts \cup {[name |-> t, id |-> seenIds[p][t]] : t \in S}
    /\ \E next \in {"readDim", "idle"} : pc' = [pc EXCEPT ![p] = next]
    /\ UNCHANGED <<bronzeTypes, dim, seenTypes, seenIds, overlapped>>

(* A dimension step that raised is followed by the facts (_run_safe), or   *)
(* the run is over (a backfill, or a process that died)...                 *)
DimStepFails(p) ==
    /\ pc[p] \in {"readIds", "findTable", "create", "merge"}
    /\ \E next \in {"readDim", "idle"} : pc' = [pc EXCEPT ![p] = next]
    /\ UNCHANGED <<bronzeTypes, dim, facts, seenTypes, seenIds, overlapped>>

(* ... and a fact step that raised by the next market's or by nothing.     *)
FactStepFails(p) ==
    /\ pc[p] \in {"readDim", "mergeFacts"}
    /\ \E next \in {"readDim", "idle"} : pc' = [pc EXCEPT ![p] = next]
    /\ UNCHANGED <<bronzeTypes, dim, facts, seenTypes, seenIds, overlapped>>

Step(p) ==
    \/ ReadBronzeTypes(p)
    \/ ReadExistingIds(p)
    \/ FindTable(p)
    \/ CreateDim(p)
    \/ MergeDim(p)
    \/ ReadDim(p)
    \/ MergeFacts(p)
    \/ DimStepFails(p)
    \/ FactStepFails(p)

Next ==
    \/ \E t \in Types : Discover(t)
    \/ \E p \in Processors : Step(p)

Spec == Init /\ [][Next]_vars

------------------------------------------------------------------------------
(* No two production types share a surrogate id, as long as Silver runs    *)
(* take turns; fact_generation merges on the id, so a shared one would mix *)
(* two types in a single row.                                              *)
IdsUnique ==
    ~ overlapped => \A s, t \in DOMAIN dim : dim[s] = dim[t] => s = t

(* As long as Silver runs take turns, every fact row ever written is still *)
(* labelled by the type it was measured for: its id still belongs to that  *)
(* name and to no other.                                                   *)
FactsKeepTheirType ==
    ~ overlapped => \A f \in facts :
        /\ f.name \in DOMAIN dim
        /\ \A t \in DOMAIN dim : dim[t] = f.id <=> t = f.name

(* However Silver runs overlap, the ids that are written in the source     *)
(* label the facts of their types and of no other.                         *)
CanonicalFactsHold ==
    \A f \in facts :
        f.name \in Canonical \/ f.id \in Range(CanonicalId) =>
            f.name \in Canonical /\ f.id = CanonicalId[f.name]

IdsStable ==
    \A t \in DOMAIN dim : t \in DOMAIN dim' /\ dim'[t] = dim[t]

(* As long as Silver runs take turns, an id that was ever assigned to a    *)
(* name is never reassigned, renumbered or forgotten.                      *)
IdsStayInTurn == [][~ overlapped' => IdsStable]_dim

(* REFUTED.  The docstring of _read_existing_ids makes that promise        *)
(* without the condition.  Runs that overlap read the same snapshot and    *)
(* give a new type two ids, one after the other.                           *)
IdsNeverReassigned == [][IdsStable]_dim
==============================================================================
