----------------------------- MODULE ObjectCas ------------------------------
(***************************************************************************)
(* LocalObjectCas and InMemoryFingerprintCache of artifact-store.          *)
(*                                                                         *)
(* An upload streams its source into a temporary file of its own while it  *)
(* hashes it, looks at the file under that hash and then either renames    *)
(* the temporary file to it or drops it.  Every arrow between two steps is *)
(* an await, so uploads of several processes interleave there and a        *)
(* process may die there.  A content stands for its own SHA-256 hash.      *)
(***************************************************************************)
EXTENDS FiniteSets, Naturals

CONSTANTS
  Contents,  \* the byte strings that are uploaded
  Uploads,   \* processes that upload, one upload at a time
  CacheKeys, \* tenant, fingerprint, verifier policy and sensitivity, joined
  Absent,    \* no such file; no such entry; no expected hash
  Damaged,   \* bytes the storage corrupted
  Partial,   \* bytes of which some are not written yet
  MaxPuts    \* bound: uploads begun by one process

ASSUME CasValues ==
  /\ {Absent, Damaged, Partial} \cap Contents = {}
  /\ Absent # Damaged /\ Absent # Partial /\ Damaged # Partial
ASSUME MaxPutsAssumption == MaxPuts \in Nat

VARIABLES
  objects,      \* objects[h]: what the file sha256/../h holds
  temporary,    \* temporary[u]: what u's temporary file holds
  upload,       \* upload[u]: where u's put stands, and its arguments
  puts,         \* uploads begun by u
  acknowledged, \* history: hashes of the puts that returned
  cache         \* the fingerprint cache: the content of the artifact it names

casVars == <<objects, temporary, upload, puts, acknowledged, cache>>

PutStep == {"idle", "writing", "hashed", "removing", "renaming"}

CasTypeOK ==
  /\ objects \in [Contents -> Contents \cup {Absent, Damaged}]
  /\ temporary \in [Uploads -> Contents \cup {Absent, Partial}]
  /\ upload \in [Uploads -> [step : PutStep, source : Contents \cup {Absent},
                             expected : Contents \cup {Absent}]]
  /\ puts \in [Uploads -> 0 .. MaxPuts]
  /\ acknowledged \subseteq Contents
  /\ cache \in [CacheKeys -> Contents \cup {Absent}]

NoUpload == [step |-> "idle", source |-> Absent, expected |-> Absent]

CasInit ==
  /\ objects = [h \in Contents |-> Absent]
  /\ temporary = [u \in Uploads |-> Absent]
  /\ upload = [u \in Uploads |-> NoUpload]
  /\ puts = [u \in Uploads |-> 0]
  /\ acknowledged = {}
  /\ cache = [k \in CacheKeys |-> Absent]

ContentHash(u) == upload[u].source
GotoPut(u, step) == upload' = [upload EXCEPT ![u].step = step]

\* The end of a put, and its finally block: the temporary file is gone.
EndPut(u) ==
  /\ upload' = [upload EXCEPT ![u] = NoUpload]
  /\ temporary' = [temporary EXCEPT ![u] = Absent]

\* put(source, expectedHash): the temporary file exists and is still empty.
BeginPut(u, source, expected) ==
  /\ upload[u].step = "idle" /\ puts[u] < MaxPuts
  /\ puts' = [puts EXCEPT ![u] = @ + 1]
  /\ upload' = [upload EXCEPT ![u] = [step |-> "writing", source |-> source,
                                      expected |-> expected]]
  /\ temporary' = [temporary EXCEPT ![u] = Partial]
  /\ UNCHANGED <<objects, acknowledged, cache>>

\* The last chunk is written, synced and hashed.
WriteChunks(u) ==
  /\ upload[u].step = "writing"
  /\ temporary' = [temporary EXCEPT ![u] = upload[u].source]
  /\ GotoPut(u, "hashed")
  /\ UNCHANGED <<objects, puts, acknowledged, cache>>

\* A chunk that is no Uint8Array, a write without progress, a full disk; or
\* the process dies, and its temporary file stays under a name nobody uses.
FailPut(u) ==
  /\ upload[u].step # "idle"
  /\ EndPut(u)
  /\ UNCHANGED <<objects, puts, acknowledged, cache>>

\* A variant with a plausible mistake: the file is moved as soon as it exists.
MoveUnwritten(u) ==
  /\ upload[u].step \in {"writing", "hashed"}
  /\ GotoPut(u, "renaming")
  /\ UNCHANGED <<objects, temporary, puts, acknowledged, cache>>

\* ContentHashMismatchError; else the destination is read: another upload of
\* the same content was here first, nobody was, or the file there is corrupt.
LookAtDestination(u) ==
  /\ upload[u].step = "hashed"
  /\ \/ /\ upload[u].expected \notin {Absent, ContentHash(u)}
        /\ EndPut(u)
     \/ /\ upload[u].expected \in {Absent, ContentHash(u)}
        /\ \/ objects[ContentHash(u)] = ContentHash(u) /\ GotoPut(u, "removing") /\ UNCHANGED temporary
           \/ objects[ContentHash(u)] = Absent /\ GotoPut(u, "renaming") /\ UNCHANGED temporary
           \/ objects[ContentHash(u)] = Damaged /\ EndPut(u)
  /\ UNCHANGED <<objects, puts, acknowledged, cache>>

Acknowledge(u) == acknowledged' = acknowledged \cup {ContentHash(u)}

RemoveTemporary(u) ==
  /\ upload[u].step = "removing"
  /\ Acknowledge(u)
  /\ EndPut(u)
  /\ UNCHANGED <<objects, puts, cache>>

\* rename() replaces whatever is there by now: the same content, or damage.
RenameTemporary(u) ==
  /\ upload[u].step = "renaming"
  /\ objects' = [objects EXCEPT ![ContentHash(u)] = temporary[u]]
  /\ Acknowledge(u)
  /\ EndPut(u)
  /\ UNCHANGED <<puts, cache>>

\* The storage corrupts an object (external).
Corrupt(h) ==
  /\ objects[h] = h
  /\ objects' = [objects EXCEPT ![h] = Damaged]
  /\ UNCHANGED <<temporary, upload, puts, acknowledged, cache>>

\* get(hash): the bytes, or an error.
Get(h) == IF objects[h] = h THEN h ELSE Absent

\* InMemoryFingerprintCache.put of an artifact whose content is stored; an
\* entry for another artifact is a CacheEntryConflictError.
CachePut(k, h) ==
  /\ h \in acknowledged
  /\ cache[k] = Absent
  /\ cache' = [cache EXCEPT ![k] = h]
  /\ UNCHANGED <<objects, temporary, upload, puts, acknowledged>>

PutAdvances(u) ==
  \/ \E source \in Contents, expected \in Contents \cup {Absent} : BeginPut(u, source, expected)
  \/ WriteChunks(u) \/ FailPut(u) \/ LookAtDestination(u)
  \/ RemoveTemporary(u) \/ RenameTemporary(u)

CasNext ==
  \/ \E u \in Uploads : PutAdvances(u)
  \/ \E h \in Contents : Corrupt(h) \/ \E k \in CacheKeys : CachePut(k, h)

CasSpec == CasInit /\ [][CasNext]_casVars

-----------------------------------------------------------------------------
(* Whatever uploads overlap, fail or die: a file under a hash holds that   *)
(* content or is damaged, never half of an upload and never other bytes;   *)
(* and the object of a put that returned is there for good, so that a      *)
(* later get returns it or reports the corruption.                         *)
AcknowledgedAreServed ==
  /\ \A h \in Contents : objects[h] \in {Absent, h, Damaged}
  /\ \A h \in acknowledged : objects[h] # Absent
  /\ \A k \in CacheKeys : cache[k] # Absent => objects[cache[k]] # Absent
=============================================================================
