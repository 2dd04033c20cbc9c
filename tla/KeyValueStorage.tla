-------------------------- MODULE KeyValueStorage --------------------------
(***************************************************************************)
(* The persistency library: a map kept in memory, loaded from a file when  *)
(* it is constructed and written back as a whole by SyncToStorage, which   *)
(* truncates the file first.  The process may die at any step, the file    *)
(* may not open and a write may fail; no stream is ever asked whether it   *)
(* succeeded.  A file that was cut off is no JSON text.                    *)
(***************************************************************************)
CONSTANTS Keys, Values

VARIABLES
    phase,        \* "down": no instance, "open", "sync": in SyncToStorage
    data,         \* m_data
    file,         \* the file: whole, with its map, or cut off or missing
    synced,       \* history: the map of the last SyncToStorage that returned
    intact,       \* history: nothing has gone wrong with the file since
    fresh         \* history: the instance has only been constructed

vars == <<phase, data, file, synced, intact, fresh>>

NoKeys == [k \in {} |-> k]
Maps == UNION {[ks -> Values] : ks \in SUBSET Keys}
CutOff == [whole |-> FALSE, map |-> NoKeys]

Init ==
    /\ phase = "down"
    /\ data = NoKeys
    /\ file = CutOff
    /\ synced = NoKeys
    /\ intact = TRUE
    /\ fresh = FALSE

\* A text that json::accept refuses, and a missing file, leave no keys.  Any
\* JSON text is accepted; the file is only ever written by SyncToStorage, so
\* that one with entries of another shape does not occur.
Construct ==
    /\ phase = "down"
    /\ phase' = "open"
    /\ data' = IF file.whole THEN file.map ELSE NoKeys
    /\ fresh' = TRUE
    /\ UNCHANGED <<file, synced, intact>>

\* A variant for the mutants: an instance without a value is stored.
SetNotSet(key, value) ==
    /\ phase = "open"
    /\ data' = [k \in DOMAIN data \cup {key} |-> IF k = key THEN "kNotSet" ELSE data[k]]
    /\ fresh' = FALSE
    /\ UNCHANGED <<phase, file, synced, intact>>

\* Every value is a string: KvsType with kSuccess and kString.  An instance
\* without a value has no string to store and makes to_json throw.
SetValue(key, value) ==
    /\ phase = "open"
    /\ data' = [k \in DOMAIN data \cup {key} |-> IF k = key THEN value ELSE data[k]]
    /\ fresh' = FALSE
    /\ UNCHANGED <<phase, file, synced, intact>>

RemoveAllKeys ==
    /\ phase = "open"
    /\ data' = NoKeys
    /\ fresh' = FALSE
    /\ UNCHANGED <<phase, file, synced, intact>>

OpenFile ==
    /\ phase = "open"
    /\ phase' = "sync"
    /\ file' = CutOff
    /\ fresh' = FALSE
    /\ UNCHANGED <<data, synced, intact>>

\* A variant for the mutants: m_data is appended to what the file has.
CloseMerged ==
    /\ phase = "sync"
    /\ phase' = "open"
    /\ file' = [whole |-> TRUE,
                map |-> [k \in DOMAIN data \cup DOMAIN synced |->
                            IF k \in DOMAIN data THEN data[k] ELSE synced[k]]]
    /\ synced' = data
    /\ intact' = TRUE
    /\ UNCHANGED <<data, fresh>>

\* The destructor of the stream has written the whole text.
CloseFile ==
    /\ phase = "sync"
    /\ phase' = "open"
    /\ file' = [whole |-> TRUE, map |-> data]
    /\ synced' = data
    /\ intact' = TRUE
    /\ UNCHANGED <<data, fresh>>

\* SyncToStorage returns all the same when the file does not open ...
OpenFails ==
    /\ phase = "open"
    /\ synced' = data
    /\ intact' = FALSE
    /\ fresh' = FALSE
    /\ UNCHANGED <<phase, data, file>>

\* ... and when it cannot be written.
WriteFails ==
    /\ phase = "sync"
    /\ phase' = "open"
    /\ synced' = data
    /\ intact' = FALSE
    /\ UNCHANGED <<data, file, fresh>>

Crash ==
    /\ phase # "down"
    /\ phase' = "down"
    /\ data' = NoKeys
    /\ intact' = (intact /\ phase # "sync")
    /\ fresh' = FALSE
    /\ UNCHANGED <<file, synced>>

Next ==
    \/ Construct
    \/ \E key \in Keys, value \in Values : SetValue(key, value)
    \/ RemoveAllKeys
    \/ OpenFile
    \/ CloseFile
    \/ OpenFails
    \/ WriteFails
    \/ Crash

Spec == Init /\ [][Next]_vars
-----------------------------------------------------------------------------
\* The type invariant: the maps in memory and in the file have a value for
\* each of their keys, so that GetValue, which is noexcept, never throws.
KvsTypeOK ==
    /\ phase \in {"down", "open", "sync"}
    /\ data \in Maps
    /\ file \in [whole : BOOLEAN, map : Maps]
    /\ synced \in Maps
    /\ intact \in BOOLEAN
    /\ fresh \in BOOLEAN

\* The keys and values of the last SyncToStorage, and no others, are what a
\* new instance has, whatever was set or removed after it and however often
\* the process died, unless it died inside SyncToStorage or the file failed
\* (KeyValueStorage's constructor and SyncToStorage).
SyncedSurvives ==
    fresh /\ intact => data = synced

\* When SyncToStorage has returned, the file has what was in memory.  The
\* interface leaves room for a failure (noexcept(false)); the code has no
\* way to notice one.
SyncIsDurable ==
    phase = "open" /\ synced # NoKeys => file.whole /\ file.map = synced
=============================================================================
