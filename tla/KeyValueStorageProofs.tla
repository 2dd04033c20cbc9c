----------------------- MODULE KeyValueStorageProofs -----------------------
(***************************************************************************)
(* Proofs about KeyValueStorage, for every set of keys and values.         *)
(***************************************************************************)
EXTENDS KeyValueStorage, TLAPS

\* Between two synchronisations an intact file has what the last one wrote.
FileInv ==
    intact /\ phase # "sync" =>
        (IF file.whole THEN file.map = synced ELSE synced = NoKeys)

\* What a new instance has when nothing has gone wrong is what the last
\* SyncToStorage was given.
THEOREM SyncedIsRestored == Spec => []SyncedSurvives
<1> USE DEF FileInv, SyncedSurvives, CutOff
<1>1. Init => FileInv /\ SyncedSurvives
  BY DEF Init
<1>2. FileInv /\ SyncedSurvives /\ [Next]_vars => FileInv' /\ SyncedSurvives'
  <2> SUFFICES ASSUME FileInv, SyncedSurvives, [Next]_vars
               PROVE  FileInv' /\ SyncedSurvives'
    OBVIOUS
  <2>1. CASE Construct
    BY <2>1 DEF Construct
  <2>2. ASSUME NEW key \in Keys, NEW value \in Values, SetValue(key, value)
        PROVE  FileInv' /\ SyncedSurvives'
    BY <2>2 DEF SetValue
  <2>3. CASE RemoveAllKeys
    BY <2>3 DEF RemoveAllKeys
  <2>4. CASE OpenFile
    BY <2>4 DEF OpenFile
  <2>5. CASE CloseFile
    <3>1. file'.whole /\ file'.map = synced' /\ data' = synced'
      BY <2>5 DEF CloseFile
    <3> QED BY <3>1
  <2>6. CASE OpenFails
    BY <2>6 DEF OpenFails
  <2>7. CASE WriteFails
    BY <2>7 DEF WriteFails
  <2>8. CASE Crash
    BY <2>8 DEF Crash
  <2>9. CASE UNCHANGED vars
    BY <2>9 DEF vars
  <2> QED BY <2>1, <2>2, <2>3, <2>4, <2>5, <2>6, <2>7, <2>8, <2>9 DEF Next
<1> QED BY <1>1, <1>2, PTL DEF Spec

\* A map with one more key is a map, and so is one without keys.
LEMMA MapsClosed ==
    /\ NoKeys \in Maps
    /\ \A m \in Maps, key \in Keys, value \in Values :
          [k \in DOMAIN m \cup {key} |-> IF k = key THEN value ELSE m[k]] \in Maps
<1>1. NoKeys \in Maps
  <2>1. NoKeys \in [{} -> Values]
    BY DEF NoKeys
  <2> QED BY <2>1 DEF Maps
<1>2. ASSUME NEW m \in Maps, NEW key \in Keys, NEW value \in Values
      PROVE  [k \in DOMAIN m \cup {key} |-> IF k = key THEN value ELSE m[k]] \in Maps
  <2>1. PICK ks \in SUBSET Keys : m \in [ks -> Values]
    BY DEF Maps
  <2>2. [k \in DOMAIN m \cup {key} |-> IF k = key THEN value ELSE m[k]]
          \in [ks \cup {key} -> Values]
    BY <2>1
  <2>3. ks \cup {key} \in SUBSET Keys
    OBVIOUS
  <2> QED BY <2>2, <2>3 DEF Maps
<1> QED BY <1>1, <1>2

\* The type invariant of the storage.
THEOREM KvsTypeCorrect == Spec => []KvsTypeOK
<1> USE DEF KvsTypeOK, CutOff
<1>1. Init => KvsTypeOK
  <2>1. NoKeys \in Maps
    BY MapsClosed
  <2>2. CutOff \in [whole : BOOLEAN, map : Maps]
    BY <2>1
  <2> HIDE DEF CutOff
  <2>3. Init => intact \in BOOLEAN /\ fresh \in BOOLEAN
    BY Zenon DEF Init
  <2> QED BY <2>1, <2>2, <2>3 DEF Init
<1>2. KvsTypeOK /\ [Next]_vars => KvsTypeOK'
  <2> SUFFICES ASSUME KvsTypeOK, [Next]_vars PROVE KvsTypeOK'
    OBVIOUS
  <2>1. CASE Construct
    BY <2>1, MapsClosed DEF Construct
  <2>2. ASSUME NEW key \in Keys, NEW value \in Values, SetValue(key, value)
        PROVE  KvsTypeOK'
    BY <2>2, MapsClosed DEF SetValue
  <2>3. CASE RemoveAllKeys
    BY <2>3, MapsClosed DEF RemoveAllKeys
  <2>4. CASE OpenFile
    BY <2>4, MapsClosed DEF OpenFile
  <2>5. CASE CloseFile
    BY <2>5 DEF CloseFile
  <2>6. CASE OpenFails
    BY <2>6 DEF OpenFails
  <2>7. CASE WriteFails
    BY <2>7 DEF WriteFails
  <2>8. CASE Crash
    BY <2>8, MapsClosed DEF Crash
  <2>9. CASE UNCHANGED vars
    BY <2>9 DEF vars
  <2> QED BY <2>1, <2>2, <2>3, <2>4, <2>5, <2>6, <2>7, <2>8, <2>9 DEF Next
<1> QED BY <1>1, <1>2, PTL DEF Spec
=============================================================================
