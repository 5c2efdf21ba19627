----------------------------- MODULE ObjectStore -----------------------------
(***************************************************************************)
(* The private bucket of original images (inventory/object_store.py). An   *)
(* importer asks for one content at a time; each call of the S3 interface  *)
(* is a step of its own, because the bucket belongs to an operator, two     *)
(* importers of different sources share contents, and a call may fail after *)
(* it took effect. Bytes are the number of the content they are, 0 for any *)
(* others; the key of an object is the content it should have.             *)
(***************************************************************************)
EXTENDS Integers, FiniteSets, SequencesExt

CONSTANTS
  Importers,  \* processes that hold the import locks of different sources
  Pictures,   \* contents they ask for
  Buckets,    \* what the bucket may be: endpoint, exists, policy, status, grants
  Strays,     \* objects that may be in it already, by key
  MaxChanges  \* BOUND: changes of the bucket by its operator

VARIABLES
  bucket,     \* the bucket of this moment
  changes,
  objects,    \* objects[c]: bytes, metadata and ACL at the key of content c
  strays,     \* objects at the beginning
  upload      \* each importer: its call in progress and the facts it was given

storeVars == <<bucket, changes, objects, strays, upload>>

\* statements of a bucket policy, by what _policy_allows_public_access makes of them
Statements ==
  {"allow_anyone", "allow_not_principal", "allow_service", "allow_without_principal", "malformed",
   "allow_account", "deny_anyone"}
Policies == Seq(Statements) \cup {<<"absent">>}
\* grantees of an ACL; "other" is any group or type that is not recognized
Grantees == {"owner", "email", "anyone", "other"}
BucketStates ==
  [endpoint : {"https", "http_loopback", "http_named"}, exists : BOOLEAN, policy : Policies,
   status : {"private", "public", "unknown"}, grants : Seq(Grantees)]
ASSUME BucketsAssumption == Buckets \subseteq BucketStates /\ Buckets # {}

NoObject == [bytes |-> -1, sha |-> -1, size |-> -1, media |-> "none", grants |-> <<>>]
\* size and media type are functions of the content
Original(c) == [bytes |-> c, sha |-> c, size |-> c, media |-> "image", grants |-> <<"owner">>]
NoUpload == [pc |-> "idle", image |-> 0, error |-> "none", policies |-> {}, grants |-> {}, facts |-> {}]

StoreInit(buckets, before) ==
  /\ bucket \in buckets
  /\ changes = 0
  /\ \E stray \in before :
       /\ objects = [c \in Pictures |-> IF bucket.exists /\ c \in DOMAIN stray THEN stray[c] ELSE NoObject]
       /\ strays = objects
  /\ upload = [p \in Importers |-> NoUpload]

-----------------------------------------------------------------------------
(* What is private enough.                                                 *)

\* ObjectStoreConfig.validate: plain HTTP to a literal loopback address only
Usable(endpoint) == endpoint \in {"https", "http_loopback"}

\* _policy_allows_public_access: the first statement that decides
Opens(statement) == statement \in {"allow_anyone", "allow_not_principal"}
Unprovable(statement) == statement \in {"allow_service", "allow_without_principal", "malformed"}
PolicyVerdict(policy) ==
  LET deciding == {i \in DOMAIN policy : Opens(policy[i]) \/ Unprovable(policy[i])}
  IN CASE policy = <<"absent">> -> "private"
       [] policy = <<>> -> "unverifiable"
       [] OTHER -> IF deciding = {} THEN "private"
                   ELSE IF Opens(policy[Min(deciding)]) THEN "public" ELSE "unverifiable"

\* _assert_private_acl_grants: the first grant that is not one of a person
AclVerdict(grants) ==
  LET deciding == {i \in DOMAIN grants : grants[i] \notin {"owner", "email"}}
  IN IF deciding = {} THEN "private"
     ELSE IF grants[Min(deciding)] = "anyone" THEN "public" ELSE "unverifiable"

\* mutant: metadata says it all
VerifiedByHead(o, c) == o.sha = c
\* _validate_head, then the digest of what was downloaded
HeadMatches(o, c) == o.sha = c /\ o.size = Original(c).size /\ o.media = Original(c).media
Verified(o, c) == HeadMatches(o, c) /\ o.bytes = c

-----------------------------------------------------------------------------
(* One call of ensure_object.                                              *)

At(p, pc) == upload[p].pc = pc
Asked(p) == upload[p].image
Found(p) == objects[Asked(p)]
World == <<bucket, changes, objects, strays>>
Go(p, pc) == upload' = [upload EXCEPT ![p].pc = pc]
Fail(p, error) == upload' = [upload EXCEPT ![p] = [@ EXCEPT !.pc = "idle", !.error = error]]
GoIf(p, ok, pc, error) == IF ok THEN Go(p, pc) ELSE Fail(p, error)
Beginning(p, c) ==
  [NoUpload EXCEPT !.pc = "reach", !.image = c, !.facts = upload[p].facts,
                   !.policies = {bucket.policy}, !.grants = {bucket.grants}]

BeginStore(p, c) ==
  /\ At(p, "idle")
  /\ IF Usable(bucket.endpoint) THEN upload' = [upload EXCEPT ![p] = Beginning(p, c)]
     ELSE Fail(p, "object_endpoint_insecure")
  /\ UNCHANGED World

\* the policies and grants that a call in progress could have met
Witnessed(b) ==
  [p \in Importers |->
     IF At(p, "idle") THEN upload[p]
     ELSE [upload[p] EXCEPT !.policies = @ \cup {b.policy}, !.grants = @ \cup {b.grants}]]

Created ==
  [bucket EXCEPT !.exists = TRUE, !.policy = <<"absent">>, !.status = "private", !.grants = <<"owner">>]
\* ensure_private_bucket: the new bucket has no policy and its owner's grant;
\* two importers may both find it missing, and the second is told so
Reach(p) ==
  /\ At(p, "reach")
  /\ Go(p, IF bucket.exists THEN "policy" ELSE "create")
  /\ UNCHANGED World
Create(p) ==
  /\ At(p, "create")
  /\ IF bucket.exists THEN Fail(p, "bucket_create_failed") /\ UNCHANGED bucket
     ELSE /\ bucket' = Created
          /\ upload' = [Witnessed(Created) EXCEPT ![p].pc = "policy"]
  /\ UNCHANGED <<changes, objects, strays>>

\* _assert_private_bucket: the policy, a status that counts only where it says
\* public, and the ACL, one after the other
CheckPolicy(p) ==
  /\ At(p, "policy")
  /\ GoIf(p, PolicyVerdict(bucket.policy) = "private", "status", "bucket_policy")
  /\ UNCHANGED World
CheckStatus(p) ==
  /\ At(p, "status")
  /\ GoIf(p, bucket.status # "public", "acl", "bucket_policy_public")
  /\ UNCHANGED World
CheckAcl(p) ==
  /\ At(p, "acl")
  /\ GoIf(p, AclVerdict(bucket.grants) = "private", "head", "bucket_acl")
  /\ UNCHANGED World

HeadObject(p) ==
  /\ At(p, "head")
  /\ Go(p, IF Found(p) = NoObject THEN "put" ELSE "verify")
  /\ UNCHANGED World

\* _download_and_verify: ACL, metadata, bytes, and the ACL again
Download(p) ==
  /\ At(p, "verify")
  /\ GoIf(p, AclVerdict(Found(p).grants) = "private" /\ Verified(Found(p), Asked(p)), "recheck", "object_conflict")
  /\ UNCHANGED World

\* put_object: the object is there, whatever becomes of the answer
Put(p) ==
  /\ At(p, "put")
  /\ objects' = [objects EXCEPT ![Asked(p)] = Original(Asked(p))]
  /\ \/ Go(p, "headed")
     \/ Fail(p, "object_upload_failed")
  /\ UNCHANGED <<bucket, changes, strays>>

\* the upload is compared by its metadata only
HeadAfter(p) ==
  /\ At(p, "headed")
  /\ GoIf(p, HeadMatches(Found(p), Asked(p)), "recheck", "object_conflict")
  /\ UNCHANGED World

\* _assert_private_object, the last call of both ways
Recheck(p) ==
  /\ At(p, "recheck")
  /\ IF AclVerdict(Found(p).grants) = "private"
     THEN upload' = [upload EXCEPT ![p].pc = "idle", ![p].facts = @ \cup {Asked(p)}]
     ELSE Fail(p, "object_acl")
  /\ UNCHANGED World

\* download_hashes, of a fact that was given before
Reverify(p, c) ==
  /\ At(p, "idle") /\ c \in upload[p].facts
  /\ upload' = [upload EXCEPT ![p] = [Beginning(p, c) EXCEPT !.pc = "verify"]]
  /\ UNCHANGED World

\* the interface does not answer, or the process ends
StoreFails(p) ==
  /\ ~At(p, "idle")
  /\ \/ Fail(p, "unavailable")
     \/ upload' = [upload EXCEPT ![p] = NoUpload]
  /\ UNCHANGED World

\* the operator of the bucket
Reconfigure(b) ==
  /\ changes < MaxChanges
  /\ bucket.exists /\ b.exists /\ b # bucket /\ b.endpoint = bucket.endpoint
  /\ bucket' = b
  /\ changes' = changes + 1
  /\ upload' = Witnessed(b)
  /\ UNCHANGED <<objects, strays>>

-----------------------------------------------------------------------------
\* Whoever was told that a content is stored has it: the object is there, with
\* its bytes and not only its metadata, and is nobody's but its owner's. What
\* was at the key before is kept, right or wrong. And a call stores nothing
\* unless the policy and the grants each let only persons in at some moment
\* since it began: with an operator at work not at one moment, for the three
\* calls that ask are not one.
ForPersons(policy) ==
  policy = <<"absent">> \/ (policy # <<>> /\ ToSet(policy) \subseteq {"allow_account", "deny_anyone"})
StoredIsVerified ==
  /\ \A p \in Importers : \A c \in upload[p].facts :
       objects[c].bytes = c /\ ToSet(objects[c].grants) \subseteq {"owner", "email"}
  /\ \A c \in Pictures : strays[c] # NoObject => objects[c] = strays[c]
  /\ \A p \in Importers : upload[p].pc \in {"put", "headed"} =>
       /\ \E policy \in upload[p].policies : ForPersons(policy)
       /\ \E grants \in upload[p].grants : ToSet(grants) \subseteq {"owner", "email"}
=============================================================================
