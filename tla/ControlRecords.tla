--------------------------- MODULE ControlRecords ---------------------------
(***************************************************************************)
(* The records of the control plane: the artifact lineage, the event store *)
(* and the evidence of its tenants, the retention plan computed from them  *)
(* and the backup that is collected from them, kept, verified and restored.*)
(*                                                                         *)
(* Publishing and appending are synchronous; collecting is not: whoever    *)
(* makes a backup reads the three lists one after the other while others   *)
(* go on writing.                                                          *)
(***************************************************************************)
EXTENDS Walks

CONSTANTS
  Tenants, ArtifactIds, RunIds, EventKeys, BundleIds,
  TenantOf,     \* the tenant that publishes each artifact id
  HashOf,       \* the hash of its content
  SecretKeys,   \* keys of events whose payload has a forbidden field
  MaxRecords,   \* bound: artifacts, events and bundles written in all
  Unread        \* nothing read or kept yet

ASSUME UnreadAssumption == Unread \notin Tenants
ASSUME MetadataAssumption == TenantOf \in [ArtifactIds -> Tenants] /\ DOMAIN HashOf = ArtifactIds
ASSUME SecretAssumption == SecretKeys \subseteq EventKeys

VARIABLES
  artifacts, \* InMemoryArtifactLineage: artifacts with their provenance
  events,    \* InMemoryRunEventStore: the events of every run
  evidence,  \* the evidence bundles filed so far
  collector, \* the backup being collected
  backup     \* the last ControlPlaneBackup that was created, as it is stored

recordVars == <<artifacts, events, evidence, collector, backup>>

Artifact == {[id |-> i, tenant |-> TenantOf[i], hash |-> HashOf[i], parents |-> P] :
               i \in ArtifactIds, P \in SUBSET ArtifactIds}
RunEvent == [run : RunIds, tenant : Tenants, sequence : Nat \ {0}, key : EventKeys]
Bundle == [id : BundleIds, tenant : Tenants, product : ArtifactIds, cited : SUBSET ArtifactIds]

IdsOf(records) == {a.id : a \in records}
EventsOf(log, r) == {e \in log : e.run = r}

RecordsTypeOK ==
  /\ artifacts \subseteq Artifact /\ events \subseteq RunEvent /\ evidence \subseteq Bundle
  /\ collector.tenant \in Tenants \cup {Unread}
  /\ backup # Unread => backup.digest.tenant \in Tenants

Room == Cardinality(artifacts) + Cardinality(events) + Cardinality(evidence) < MaxRecords

NoCollection == [tenant |-> Unread, artifacts |-> Unread, events |-> Unread, evidence |-> Unread]

RecordsInit ==
  /\ artifacts = {} /\ events = {} /\ evidence = {}
  /\ collector = NoCollection
  /\ backup = Unread

-----------------------------------------------------------------------------
(* Lineage.                                                                *)

\* A variant with a plausible mistake: parents are not looked up.
MayPublishUnchecked(a, known) ==
  /\ a.id \notin IdsOf(known)
  /\ \A b \in known : b.hash # a.hash \/ b.tenant # a.tenant

\* publish: a fresh id, content the tenant does not have, parents it has.
MayPublish(a, known) ==
  /\ a.id \notin IdsOf(known)
  /\ \A b \in known : b.hash # a.hash \/ b.tenant # a.tenant
  /\ \A p \in a.parents : \E b \in known : b.id = p /\ b.tenant = a.tenant

Publish(a) ==
  /\ MayPublish(a, artifacts) /\ Room
  /\ artifacts' = artifacts \cup {a}
  /\ UNCHANGED <<events, evidence, collector, backup>>

Parents(a, known) == {b \in known : b.id \in a.parents}
Children(a, known) == {b \in known : a.id \in b.parents}

\* traverse: breadth first from a, which is not part of the result.
AncestorsOf(a, known) == Reach({a}, [b \in known |-> Parents(b, known)], known) \ {a}
DescendantsOf(a, known) == Reach({a}, [b \in known |-> Children(b, known)], known) \ {a}

-----------------------------------------------------------------------------
(* The event store and the evidence.                                       *)

AppendTo(r, t, key) ==
  /\ \A e \in EventsOf(events, r) : e.tenant = t /\ e.key # key
  /\ Room
  /\ events' = events \cup {[run |-> r, tenant |-> t, key |-> key,
                             sequence |-> Cardinality(EventsOf(events, r)) + 1]}
  /\ UNCHANGED <<artifacts, evidence, collector, backup>>

\* A verifier files a bundle about artifacts that are published.
FileEvidence(id, product, cited) ==
  /\ id \notin {b.id : b \in evidence} /\ Room
  /\ cited \subseteq {a.id : a \in {b \in artifacts : b.tenant = product.tenant}}
  /\ evidence' = evidence \cup {[id |-> id, tenant |-> product.tenant, product |-> product.id,
                                 cited |-> cited]}
  /\ UNCHANGED <<artifacts, events, collector, backup>>

-----------------------------------------------------------------------------
(* Retention: planArtifactRetention(artifacts, policy, now).  A policy     *)
(* comes down to the artifacts that are past their time, those explicitly  *)
(* protected and those under a legal hold.                                 *)

BaseReason(a, policy) ==
  IF a.id \in policy.explicit THEN "explicitly_protected"
  ELSE IF a.id \in policy.held THEN "legal_hold"
  ELSE IF a.id \in policy.expired THEN "expired" ELSE "not_expired"

\* A variant with a plausible mistake: only direct parents are kept.
KeepParents(known, policy) ==
  LET kept == {a \in known : BaseReason(a, policy) # "expired"}
  IN  kept \cup UNION {Parents(a, known) : a \in kept}
\* The queue of kept artifacts pulls in its parents ("lineage_dependency").
Retained(known, policy) ==
  Reach({a \in known : BaseReason(a, policy) # "expired"}, [b \in known |-> Parents(b, known)], known)

-----------------------------------------------------------------------------
(* Backup: createControlPlaneBackup, verifyControlPlaneBackup,             *)
(* restoreControlPlaneBackup.                                              *)

\* Passes over what is pending, each taking what has all its parents.
PublishedInPasses(known) ==
  Rounds({}, [S \in SUBSET known |-> S \cup {a \in known : a.parents \subseteq IdsOf(S)}], known)

Cites(b) == {b.product} \cup b.cited

\* A variant with a plausible mistake: what evidence cites is not looked up.
ValidWithoutEvidence(content) ==
  /\ \A a \in content.artifacts : a.tenant = content.tenant /\ a.parents \subseteq IdsOf(content.artifacts)
  /\ \A e \in content.events : e.tenant = content.tenant /\ e.key \notin SecretKeys
\* validateContent
ValidContent(content) ==
  /\ \A a \in content.artifacts : a.tenant = content.tenant
  /\ \A a, b \in content.artifacts : a.id = b.id => a = b
  /\ \A a \in content.artifacts : a.parents \subseteq IdsOf(content.artifacts)
  /\ PublishedInPasses(content.artifacts) = content.artifacts
  /\ \A e \in content.events : e.tenant = content.tenant /\ e.key \notin SecretKeys
  /\ \A r \in RunIds :
       LET log == EventsOf(content.events, r) IN
       /\ {e.sequence : e \in log} = 1 .. Cardinality(log)
       /\ \A e, f \in log : e.key = f.key => e = f
  /\ \A b \in content.evidence : b.tenant = content.tenant /\ Cites(b) \subseteq IdsOf(content.artifacts)

OfTenant(records, t) == {x \in records : x.tenant = t}

\* Bound: until one backup is accepted.
StartCollecting(t) ==
  /\ collector.tenant = Unread /\ backup = Unread
  /\ collector' = [NoCollection EXCEPT !.tenant = t]
  /\ UNCHANGED <<artifacts, events, evidence, backup>>

\* One of the three lists is read.
Collect ==
  /\ collector.tenant # Unread
  /\ \/ collector.artifacts = Unread
        /\ collector' = [collector EXCEPT !.artifacts = OfTenant(artifacts, collector.tenant)]
     \/ collector.events = Unread
        /\ collector' = [collector EXCEPT !.events = OfTenant(events, collector.tenant)]
     \/ collector.evidence = Unread
        /\ collector' = [collector EXCEPT !.evidence = OfTenant(evidence, collector.tenant)]
  /\ UNCHANGED <<artifacts, events, evidence, backup>>

\* The content with its digest, which stands for all of it; or a
\* BackupIntegrityError.
CreateBackup ==
  /\ Unread \notin {collector.artifacts, collector.events, collector.evidence}
  /\ backup' = IF ValidContent(collector) THEN [content |-> collector, digest |-> collector] ELSE backup
  /\ collector' = NoCollection
  /\ UNCHANGED <<artifacts, events, evidence>>

\* The stored backup loses one of its records (external).
DamageBackup ==
  /\ backup # Unread /\ backup.content = backup.digest
  /\ \/ \E a \in backup.content.artifacts : backup' = [backup EXCEPT !.content.artifacts = @ \ {a}]
     \/ \E e \in backup.content.events : backup' = [backup EXCEPT !.content.events = @ \ {e}]
     \/ \E b \in backup.content.evidence : backup' = [backup EXCEPT !.content.evidence = @ \ {b}]
  /\ UNCHANGED <<artifacts, events, evidence, collector>>

Verifies(kept) == ValidContent(kept.content) /\ kept.content = kept.digest

\* restoreControlPlaneBackup returns what it was given and changes nothing.
\* Republishing goes through publish of an empty lineage, which may throw;
\* every event is appended with its sequence as the expected next one.
CanRepublish(known) ==
  /\ PublishedInPasses(known) = known
  /\ \A a \in known : MayPublish(a, known \ ({a} \cup DescendantsOf(a, known)))

RecordsNext ==
  \/ \E a \in Artifact : Publish(a)
  \/ \E r \in RunIds, t \in Tenants, key \in EventKeys : AppendTo(r, t, key)
  \/ \E id \in BundleIds, product \in artifacts, cited \in SUBSET ArtifactIds :
       FileEvidence(id, product, cited)
  \/ \E t \in Tenants : StartCollecting(t)
  \/ Collect \/ CreateBackup \/ DamageBackup

RecordsSpec == RecordsInit /\ [][RecordsNext]_recordVars

-----------------------------------------------------------------------------
(* Lineage is a partial order inside each tenant: no artifact is its own   *)
(* ancestor, an ancestor has the same tenant, and the ancestors of an      *)
(* artifact are the artifacts it descends from in the other direction.     *)
LineageIsAnOrder ==
  \A a \in artifacts :
    LET up == AncestorsOf(a, artifacts) IN
    /\ \A b \in up : b.tenant = a.tenant /\ a \notin AncestorsOf(b, artifacts)
    /\ \A b \in artifacts : b \in up <=> a \in DescendantsOf(b, artifacts)
    /\ \A b \in up \cup {a} : Parents(b, artifacts) \subseteq up /\ IdsOf(Parents(b, artifacts)) = b.parents

(* However the three lists were read between the writes of others, and     *)
(* whatever the storage lost since: a backup that was accepted and is      *)
(* intact can be restored; what a restore returned gives every artifact    *)
(* exactly the ancestors it has in the live lineage, is for every run a    *)
(* beginning of the live log, and has what its evidence is about.          *)
BackupsRestoreFaithfully ==
  /\ backup # Unread /\ backup.content = backup.digest =>
       Verifies(backup) /\ CanRepublish(backup.content.artifacts)
  /\ backup # Unread /\ Verifies(backup) =>
       LET copy == backup.content IN
       /\ \A a \in copy.artifacts : AncestorsOf(a, copy.artifacts) = AncestorsOf(a, artifacts)
       /\ \A r \in RunIds :
            LET log == EventsOf(copy.events, r) IN
            log = {e \in EventsOf(events, r) : e.sequence <= Cardinality(log)}
       /\ \A b \in copy.evidence : Cites(b) \subseteq IdsOf(copy.artifacts)

Policies == [explicit : SUBSET IdsOf(artifacts), held : {{}} \cup {{i} : i \in IdsOf(artifacts)},
             expired : SUBSET IdsOf(artifacts)]

(* For every policy, what retention keeps is the least set that holds what *)
(* must stay and the parents of what it holds; when the artifacts of the   *)
(* evidence are protected, as the governance rules ask, what remains after *)
(* deleting the rest is still a tenant that can be backed up.  (The plan   *)
(* reads neither collector nor backup: it is checked while there is none.) *)
RetentionLeavesAWhole ==
  collector = NoCollection /\ backup = Unread /\ events = {} => \A policy \in Policies :
    LET kept == Retained(artifacts, policy)
        must == {a \in artifacts : BaseReason(a, policy) # "expired"}
    IN  /\ must \subseteq kept
        /\ \A a \in kept : IdsOf(Parents(a, kept)) = a.parents
        /\ \A a \in kept \ must : DescendantsOf(a, artifacts) \cap must # {}
        /\ \A t \in Tenants :
             UNION {Cites(b) : b \in OfTenant(evidence, t)} \subseteq policy.explicit =>
               ValidContent([tenant |-> t, artifacts |-> OfTenant(kept, t), events |-> {},
                             evidence |-> OfTenant(evidence, t)])
=============================================================================
