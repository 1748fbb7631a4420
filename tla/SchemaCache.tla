---------------------------- MODULE SchemaCache ----------------------------
(***************************************************************************)
(* The cache of custom credential schemas and the loader in front of it,   *)
(* for one schema URL.  An entry is the version that was downloaded and    *)
(* the second in which it expires.                                         *)
(***************************************************************************)
EXTENDS Naturals

CONSTANTS
  Expiration,  \* how long an entry may be used
  NoSchema     \* no entry; nothing loaded

ASSUME CacheAssumption == Expiration \in Nat

(* ExpirableSchemaCache.Put.                                               *)
CachePut(version, now) == [version |-> version, expires |-> now + Expiration]

(* Mutant: the time of expiry is not looked at.                            *)
GetForever(cache, now) == cache

(* ExpirableSchemaCache.Get: what the cache holds afterwards, an entry     *)
(* being deleted once it has expired.                                      *)
CacheGet(cache, now) == IF cache # NoSchema /\ cache.expires < now THEN NoSchema ELSE cache

(* Mutant: a failed download is remembered too.                            *)
GetAndKeepFailures(cache, now, downloaded) ==
  LET got == CacheGet(cache, now) IN
  IF got # NoSchema THEN [schema |-> got.version, cache |-> got]
  ELSE [schema |-> downloaded, cache |-> CachePut(downloaded, now)]

(* getJSONSchema and loadJSONSchema: the schema, and the cache after it;   *)
(* downloaded is NoSchema if the endpoint fails.                           *)
GetJSONSchema(cache, now, downloaded) ==
  LET got == CacheGet(cache, now) IN
  IF got # NoSchema THEN [schema |-> got.version, cache |-> got]
  ELSE IF downloaded = NoSchema THEN [schema |-> NoSchema, cache |-> NoSchema]
  ELSE [schema |-> downloaded, cache |-> CachePut(downloaded, now)]
=============================================================================
