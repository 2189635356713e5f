--------------------------- MODULE ResponseCache ---------------------------
(***************************************************************************)
(* Stored provider responses: append-only rows, one pointer per cache key  *)
(* at the current row, payloads in a content-addressed blob store, and the *)
(* readers of all three: the live client's cache lookup, database replay   *)
(* and exported replay bundles.                                            *)
(*                                                                         *)
(* A request looks its key up, calls the provider, puts the payload in the *)
(* blob store, inserts a row, points the key at it and commits.  Rows and  *)
(* pointers appear to others with the commit; a blob does at once.         *)
(***************************************************************************)
EXTENDS Naturals, Sequences, FiniteSets, FiniteSetsExt

CONSTANTS
    Procs,
    Keys,           \* cache keys: provider, endpoint, request, versions
    Contents,       \* sanitized payloads, one per checksum
    MaxRows,        \* bound: responses ever inserted
    None

ASSUME CacheConstants == MaxRows \in Nat /\ None \notin Procs \cup Keys \cup Contents

Backends == {"filesystem", "s3"}
Damaged == "damaged"    \* what a corrupted object reads as: the payload of no checksum
RowStates == {"pending", "committed", "lost"}

VARIABLES
    backend,        \* settings.blob_store_backend
    rows,           \* raw_api_responses by id
    pointer,        \* raw_response_cache_entries: key -> id of the current row, 0 for none
    locked,         \* key -> the transaction with an uncommitted pointer for it
    blob,           \* what the object named by a checksum reads as, None when there is none
    bundle,         \* the rows of the exported bundle, which lists them by their ids
    at, key, payload, held, seen,  \* of a request: seen is the pointer as it read it
    \* history: what the provider answered, what was returned for a key, keys that
    \* two transactions stored a response for at once, blobs harmed from outside
    answers, served, overlapped, harmed

cacheVars == <<backend, rows, pointer, locked, blob, bundle, at, key, payload, held, seen,
          answers, served, overlapped, harmed>>

Ids == 1 .. Len(rows)
\* Requests that have yet to insert their row.
Unstored == Cardinality({p \in Procs : at[p] \in {"calling", "answered", "stored"}})
Visible(i) == rows[i].state = "committed"
ResponseRows == [key : Keys, checksum : Contents, state : RowStates, expired : BOOLEAN]
RequestLabels == {"idle", "calling", "answered", "stored", "inserted", "pointed"}

\* Ids name rows, and a request that stores a response holds one.
CacheTypeOK ==
    /\ backend \in Backends
    /\ rows \in Seq(ResponseRows)
    /\ pointer \in [Keys -> Nat]
    /\ \A k \in Keys : pointer[k] = 0 \/ (pointer[k] \in Ids /\ Visible(pointer[k]))
    /\ locked \in [Keys -> Procs \cup {None}]
    /\ blob \in [Contents -> Contents \cup {Damaged, None}]
    /\ bundle \subseteq Ids
    /\ at \in [Procs -> RequestLabels]
    /\ key \in [Procs -> Keys \cup {None}] /\ payload \in [Procs -> Contents \cup {None}]
    /\ held \in [Procs -> Nat] /\ seen \in [Procs -> Nat]
    /\ \A p \in Procs :
         /\ at[p] \in {"inserted", "pointed"} <=> held[p] # 0
         /\ held[p] # 0 => held[p] \in Ids /\ rows[held[p]].state = "pending"
    /\ answers \subseteq Keys \X Contents /\ served \subseteq Keys \X Contents
    /\ overlapped \subseteq Keys /\ harmed \subseteq Contents

CacheInit ==
    /\ backend \in Backends
    /\ rows = <<>>
    /\ pointer = [k \in Keys |-> 0]
    /\ locked = [k \in Keys |-> None]
    /\ blob = [c \in Contents |-> None]
    /\ bundle = {}
    /\ at = [p \in Procs |-> "idle"]
    /\ key = [p \in Procs |-> None]
    /\ payload = [p \in Procs |-> None]
    /\ held = [p \in Procs |-> 0]
    /\ seen = [p \in Procs |-> 0]
    /\ answers = {} /\ served = {} /\ overlapped = {} /\ harmed = {}
----------------------------------------------------------------------------
(* What the code looks at and computes.                                    *)

MutReadUnchecked(i) == blob[rows[i].checksum]

\* raw_response_payload: the blob, None when it is unavailable or fails the size,
\* JSON or checksum test.
ReadRow(i) ==
    LET read == blob[rows[i].checksum]
    IN  IF read = rows[i].checksum THEN read ELSE None

\* current_raw_response
Current(k) == IF pointer[k] # 0 /\ rows[pointer[k]].key = k THEN pointer[k] ELSE 0

\* lookup_cached_response: the payload of a current, unexpired, intact row.
Lookup(k) == IF Current(k) # 0 /\ ~rows[Current(k)].expired THEN ReadRow(Current(k)) ELSE None

\* The newest committed row of a key, 0 for none.
Newest(k) == Max({0} \cup {i \in Ids : Visible(i) /\ rows[i].key = k})

\* DatabaseReplayTransport.get_response: the current row, else the newest of the
\* key; expired rows replay too.
ReplayRow(k) == IF Current(k) # 0 THEN Current(k) ELSE Newest(k)

MutBundleFirst(k) ==
    LET listed == {i \in bundle : rows[i].key = k}
    IN  IF listed = {} THEN 0 ELSE Min(listed)

\* BundleReplayTransport: a dictionary by key, in which the last response stays.
BundleRow(k) ==
    LET listed == {i \in bundle : rows[i].key = k}
    IN  IF listed = {} THEN 0 ELSE Max(listed)
----------------------------------------------------------------------------
(* Building blocks of the actions.                                         *)

Goto(p, label) == at' = [at EXCEPT ![p] = label]

RequestEnds(p) ==
    /\ Goto(p, "idle")
    /\ key' = [key EXCEPT ![p] = None]
    /\ payload' = [payload EXCEPT ![p] = None]
    /\ held' = [held EXCEPT ![p] = 0]
    /\ seen' = [seen EXCEPT ![p] = 0]

MutAbortKeepsLock(p) ==
    /\ rows' = IF held[p] = 0 THEN rows ELSE [rows EXCEPT ![held[p]].state = "lost"]
    /\ UNCHANGED locked

\* The transaction is rolled back: the row is gone and the pointer is free.
Abort(p) ==
    /\ rows' = IF held[p] = 0 THEN rows ELSE [rows EXCEPT ![held[p]].state = "lost"]
    /\ locked' = [k \in Keys |-> IF locked[k] = p THEN None ELSE locked[k]]

Serve(k, c) == served' = served \cup {<<k, c>>}
----------------------------------------------------------------------------
(* A request of the live client: _request and RawResponseCache.set.        *)

\* A valid cached response is returned without a call ...
CacheHit(p, k) ==
    /\ at[p] = "idle" /\ Lookup(k) # None
    /\ Serve(k, Lookup(k))
    /\ UNCHANGED <<backend, rows, pointer, locked, blob, bundle, at, key, payload, held, seen,
                   answers, overlapped, harmed>>

\* ... anything else, or force_refresh, goes to the provider.
StartCall(p, k, refresh) ==
    /\ at[p] = "idle" /\ Len(rows) + Unstored < MaxRows
    /\ refresh \/ Lookup(k) = None
    /\ Goto(p, "calling")
    /\ key' = [key EXCEPT ![p] = k]
    /\ UNCHANGED <<backend, rows, pointer, locked, blob, bundle, payload, held, seen,
                   answers, served, overlapped, harmed>>

\* The provider's answer, sanitized; its checksum is what names it from here on.
Answer(p, c) ==
    /\ at[p] = "calling"
    /\ payload' = [payload EXCEPT ![p] = c]
    /\ answers' = answers \cup {<<key[p], c>>}
    /\ Goto(p, "answered")
    /\ UNCHANGED <<backend, rows, pointer, locked, blob, bundle, key, held, seen,
                   served, overlapped, harmed>>

\* The provider fails, or its answer does not parse.
CallFails(p) ==
    /\ at[p] = "calling"
    /\ RequestEnds(p)
    /\ UNCHANGED <<backend, rows, pointer, locked, blob, bundle, answers, served, overlapped, harmed>>

\* ... which the S3 store takes from the object's metadata and the filesystem store
\* from the object.
Conflicts(c) == backend = "filesystem" /\ blob[c] = Damaged

\* BlobStore.put keeps an object of that name, and raises ImmutableBlobError when
\* it has another checksum ...
PutBlob(p) ==
    LET c == payload[p] IN
    /\ at[p] = "answered"
    /\ IF Conflicts(c)
       THEN RequestEnds(p) /\ UNCHANGED blob
       ELSE /\ Goto(p, "stored")
            /\ blob' = IF blob[c] = None THEN [blob EXCEPT ![c] = c] ELSE blob
            /\ UNCHANGED <<key, payload, held, seen>>
    /\ UNCHANGED <<backend, rows, pointer, locked, bundle, answers, served, overlapped, harmed>>

\* The row is flushed, which gives it its id, and the pointer is read.
InsertRow(p) ==
    LET k == key[p] IN
    /\ at[p] = "stored"
    /\ rows' = Append(rows, [key |-> k, checksum |-> payload[p], state |-> "pending", expired |-> FALSE])
    /\ held' = [held EXCEPT ![p] = Len(rows) + 1]
    /\ seen' = [seen EXCEPT ![p] = pointer[k]]
    /\ overlapped' = IF \E i \in Ids : rows[i].key = k /\ rows[i].state = "pending"
                     THEN overlapped \cup {k} ELSE overlapped
    /\ Goto(p, "inserted")
    /\ UNCHANGED <<backend, pointer, locked, blob, bundle, key, payload, answers, served, harmed>>

\* The pointer is flushed once no other transaction holds it: updated when it was
\* there, inserted when it was not; an insert that finds it there by now violates
\* the primary key and the transaction is lost with the response.
PointKey(p) ==
    LET k == key[p] IN
    /\ at[p] = "inserted" /\ locked[k] = None
    /\ IF seen[p] = 0 /\ pointer[k] # 0
       THEN Abort(p) /\ RequestEnds(p)
       ELSE /\ locked' = [locked EXCEPT ![k] = p]
            /\ Goto(p, "pointed")
            /\ UNCHANGED <<rows, key, payload, held, seen>>
    /\ UNCHANGED <<backend, pointer, blob, bundle, answers, served, overlapped, harmed>>

MutCommitOnlyUpdates(p) ==
    LET k == key[p] IN
    /\ at[p] = "pointed"
    /\ rows' = [rows EXCEPT ![held[p]].state = "committed"]
    /\ pointer' = IF seen[p] = 0 THEN pointer ELSE [pointer EXCEPT ![k] = held[p]]
    /\ locked' = [locked EXCEPT ![k] = None]
    /\ Serve(k, payload[p])
    /\ RequestEnds(p)
    /\ UNCHANGED <<backend, blob, bundle, answers, overlapped, harmed>>

\* finish_provider_call commits, and the request returns the payload.
Commit(p) ==
    LET k == key[p] IN
    /\ at[p] = "pointed"
    /\ rows' = [rows EXCEPT ![held[p]].state = "committed"]
    /\ pointer' = [pointer EXCEPT ![k] = held[p]]
    /\ locked' = [locked EXCEPT ![k] = None]
    /\ Serve(k, payload[p])
    /\ RequestEnds(p)
    /\ UNCHANGED <<backend, blob, bundle, answers, overlapped, harmed>>

\* The process dies, or its scan is cancelled, inside the request.
RequestCrash(p) ==
    /\ at[p] # "idle"
    /\ Abort(p)
    /\ RequestEnds(p)
    /\ UNCHANGED <<backend, pointer, blob, bundle, answers, served, overlapped, harmed>>
----------------------------------------------------------------------------
(* Replay.                                                                 *)

\* DatabaseReplayTransport
ReplayFromDatabase(k) ==
    /\ ReplayRow(k) # 0 /\ ReadRow(ReplayRow(k)) # None
    /\ Serve(k, ReadRow(ReplayRow(k)))
    /\ UNCHANGED <<backend, rows, pointer, locked, blob, bundle, at, key, payload, held, seen,
                   answers, overlapped, harmed>>

\* export_responses_for_scan of everything: all rows in the order of their ids,
\* and nothing at all when one of them cannot be read.
Export ==
    /\ \A i \in Ids : Visible(i) => ReadRow(i) # None
    /\ bundle' = {i \in Ids : Visible(i)}
    /\ UNCHANGED <<backend, rows, pointer, locked, blob, at, key, payload, held, seen,
                   answers, served, overlapped, harmed>>

\* BundleReplayTransport: the bundle carries the payloads themselves.
ReplayFromBundle(k) ==
    /\ BundleRow(k) # 0
    /\ Serve(k, rows[BundleRow(k)].checksum)
    /\ UNCHANGED <<backend, rows, pointer, locked, blob, bundle, at, key, payload, held, seen,
                   answers, overlapped, harmed>>
----------------------------------------------------------------------------
(* The environment.                                                        *)

\* ttl_for_endpoint passes.
Expires(i) ==
    /\ Visible(i) /\ ~rows[i].expired
    /\ rows' = [rows EXCEPT ![i].expired = TRUE]
    /\ UNCHANGED <<backend, pointer, locked, blob, bundle, at, key, payload, held, seen,
                   answers, served, overlapped, harmed>>

\* An object is corrupted or removed outside the program.
Harm(c, damage) ==
    /\ blob[c] = c
    /\ blob' = [blob EXCEPT ![c] = damage]
    /\ harmed' = harmed \cup {c}
    /\ UNCHANGED <<backend, rows, pointer, locked, bundle, at, key, payload, held, seen,
                   answers, served, overlapped>>

Storing(p) == PutBlob(p) \/ InsertRow(p) \/ PointKey(p) \/ Commit(p)

CacheNext ==
    \/ \E p \in Procs, k \in Keys : CacheHit(p, k) \/ \E r \in BOOLEAN : StartCall(p, k, r)
    \/ \E p \in Procs : CallFails(p) \/ Storing(p) \/ RequestCrash(p) \/ \E c \in Contents : Answer(p, c)
    \/ \E k \in Keys : ReplayFromDatabase(k) \/ ReplayFromBundle(k)
    \/ Export
    \/ \E i \in Ids : Expires(i)
    \/ \E c \in Contents, damage \in {Damaged, None} : Harm(c, damage)

\* A process that has its answer goes on; the client's timeout ends every call.
Fairness ==
    \A p \in Procs :
        /\ WF_cacheVars(Storing(p))
        /\ WF_cacheVars(CallFails(p) \/ \E c \in Contents : Answer(p, c))

CacheSpec == CacheInit /\ [][CacheNext]_cacheVars /\ Fairness
----------------------------------------------------------------------------
(* Properties.                                                             *)

\* Whatever a lookup, a request, database replay or a bundle returns for a key is
\* something the provider answered to that very request, whichever processes
\* stored, collided or died and whatever became of the objects since.
ServedIsAnswer == served \subseteq answers

\* A committed row's payload is in the blob store: through crashes at every step
\* of set, a row never becomes visible before its object, and only damage from
\* outside can make it unreadable.  And it can be found: its key has a pointer, also
\* when two requests for a new key stored their answers at once.
RowsReadable ==
    /\ CacheTypeOK
    /\ \A i \in Ids : Visible(i) =>
        /\ rows[i].checksum \in harmed \/ ReadRow(i) # None
        /\ Current(rows[i].key) # 0

\* A bundle of everything replays what the database replays, although one goes by
\* the order of ids and the other by the pointer, unless two transactions stored
\* a response for the key at the same time.
BundleAgrees ==
    \A k \in Keys \ overlapped :
        BundleRow(k) # 0 /\ (\A i \in Ids : rows[i].key = k /\ Visible(i) => i \in bundle)
            => BundleRow(k) = ReplayRow(k)

\* No request waits for another one for ever: neither for the pointer of a key
\* whose transaction died nor for one that collided.
RequestsEnd == \A p \in Procs : at[p] # "idle" ~> at[p] = "idle"
=============================================================================
