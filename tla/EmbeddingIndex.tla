---------------------------- MODULE EmbeddingIndex ----------------------------
(***************************************************************************)
(* The persistent embedding index of the wiki retriever:                   *)
(* auto_pattern_gen/llm_wiki/retriever.py.                                 *)
(*                                                                         *)
(* A build reads chunks.jsonl and writes four files one after the other; a *)
(* query reads the chunks, then the four files, and checks that they agree *)
(* with each other and with the chunks.  Builds and queries are processes  *)
(* of their own (two subcommands) and take no lock: several builds may run *)
(* at once.  Any of them may be killed, and a kill tears the file being    *)
(* written.  chunks.jsonl itself is rewritten from outside.                *)
(***************************************************************************)
EXTENDS Sequences

CONSTANTS
  Builders,     \* processes that run build-embeddings into this directory
  Versions,     \* contents of chunks.jsonl, those of half-written files included
  ChunkIds,     \* the chunk ids of a version, in file order
  NONE,
  Torn,         \* content whose loading raises, as after a kill
  Mixed         \* embeddings of two builds that load, row count and all

ASSUME IndexAssumption ==
  /\ NONE \notin Versions /\ Torn \notin Versions /\ Mixed \notin Versions
  /\ NONE # Torn /\ NONE # Mixed /\ Torn # Mixed

Files == {"embeddings", "chunk_ids", "metadata", "manifest"}

VARIABLES
  chunks,       \* the version chunks.jsonl holds
  files,        \* what each file of the index holds: the version the embeddings are
                \* made of, the ids (of metadata.json no more), the manifest's fields
  build,        \* of each builder: its next step, its chunks, their hash
  query,        \* the running query: its next step, its chunks, what it read
  unseen        \* history, see below

vars == <<chunks, files, build, query, unseen>>

(* History.  Three things leave no trace that the checks of a query could  *)
(* find: chunks.jsonl is rewritten while it is being used ("rewritten":    *)
(* within a query, or within a build before its hash is taken); two builds *)
(* are under way at once; chunks.jsonl gets the contents back that the     *)
(* manifest in place was made for.  unseen is true of the last two, until  *)
(* a build that ran alone has replaced all four files; query.unseen is     *)
(* true if it was at any time until the query was ready.                   *)
NoBuild == [next |-> "none", open |-> FALSE, chunks |-> NONE, hash |-> NONE,
            rewritten |-> FALSE, alone |-> FALSE]
NoQuery == [next |-> "none", chunks |-> NONE, manifest |-> NONE, embeddings |-> NONE, ids |-> NONE,
            rewritten |-> FALSE, unseen |-> FALSE]

Running(b) == build[b].next # "none"
Querying == query.next \notin {"none", "ready"}

-----------------------------------------------------------------------------
(* Agents and editors rewrite chunks.jsonl, at any time and with any       *)
(* contents, also earlier ones (a checkout, a repeated ingest).            *)
Ingest(v) ==
  /\ v # chunks
  /\ chunks' = v
  /\ build' = [b \in Builders |->
                 [build[b] EXCEPT !.rewritten = @ \/ (Running(b) /\ build[b].hash = NONE)]]
  /\ unseen' = (unseen \/ (files["manifest"] \notin {NONE, Torn} /\ files["manifest"].hash = v))
  /\ query' = [query EXCEPT !.rewritten = @ \/ Querying]
  /\ UNCHANGED files

-----------------------------------------------------------------------------
(* build_persistent_embedding_index *)

Others(b) == {c \in Builders \ {b} : Running(c)}

StartBuild(b) ==
  /\ ~Running(b)
  /\ build' = [c \in Builders |->
       IF c = b THEN [NoBuild EXCEPT !.next = "embeddings", !.chunks = chunks, !.alone = Others(b) = {}]
       ELSE [build[c] EXCEPT !.alone = FALSE]]
  /\ unseen' = (unseen \/ Others(b) # {})
  /\ query' = [query EXCEPT !.unseen = @ \/ (Querying /\ Others(b) # {})]
  /\ UNCHANGED <<chunks, files>>

After(step) ==
  CASE step = "embeddings" -> "chunk_ids" [] step = "chunk_ids" -> "metadata"
    [] step = "metadata"   -> "hash"

(* A file is truncated when it is opened and complete when it is closed.   *)
OpenFile(b) ==
  /\ build[b].next \in Files /\ ~build[b].open
  /\ files' = [files EXCEPT ![build[b].next] = Torn]
  /\ build' = [build EXCEPT ![b].open = TRUE]
  /\ UNCHANGED <<chunks, query, unseen>>

(* The manifest does not describe the chunks the build loaded only: their  *)
(* count is that of the loaded ones, their hash that of chunks.jsonl as it *)
(* is when the other files are written.                                    *)
HashChunks(b) ==
  /\ build[b].next = "hash"
  /\ build' = [build EXCEPT ![b].next = "manifest", ![b].hash = chunks]
  /\ UNCHANGED <<chunks, files, query, unseen>>

Manifest(b) ==
  [hash |-> build[b].hash, count |-> Len(ChunkIds[build[b].chunks]), rewritten |-> build[b].rewritten]

ContentOf(b) ==
  CASE build[b].next = "embeddings"                -> build[b].chunks
    [] build[b].next \in {"chunk_ids", "metadata"} -> ChunkIds[build[b].chunks]
    [] build[b].next = "manifest"                  -> Manifest(b)

(* Another build has the file open too, or has closed it meanwhile: what   *)
(* the two leave is the content of one of them, or a mixture.              *)
Shared(b) ==
  \/ files[build[b].next] # Torn
  \/ \E c \in Others(b) : build[c].open /\ build[c].next = build[b].next

Mixtures(b) ==
  IF ~(build[b].open /\ Shared(b)) THEN {}
  ELSE {files[build[b].next], Torn} \cup (IF build[b].next = "embeddings" THEN {Mixed} ELSE {})

WriteFile(b) ==
  /\ build[b].open
  /\ \E content \in {ContentOf(b)} \cup Mixtures(b) : files' = [files EXCEPT ![build[b].next] = content]
  /\ build' = [build EXCEPT ![b] =
       IF build[b].next = "manifest" THEN NoBuild
       ELSE [build[b] EXCEPT !.next = After(build[b].next), !.open = FALSE]]
  /\ unseen' = (unseen /\ ~(build[b].next = "manifest" /\ build[b].alone))
  /\ UNCHANGED <<chunks, query>>

(* The process is killed, or raises.                                       *)
KillBuild(b) ==
  /\ Running(b)
  /\ build' = [build EXCEPT ![b] = NoBuild]
  /\ \/ UNCHANGED files
     \/ \E content \in Mixtures(b) : files' = [files EXCEPT ![build[b].next] = content]
  /\ UNCHANGED <<chunks, query, unseen>>

-----------------------------------------------------------------------------
(* from_chunks_file, PersistentEmbeddingIndex.load, LLMWikiRetriever.      *)

(* A step of the query; when its check fails the query raises.             *)
QueryStep(step, holds, record) ==
  /\ query.next = step
  /\ query' = IF holds THEN record ELSE NoQuery
  /\ UNCHANGED <<chunks, files, build, unseen>>

Readable(file) == files[file] \notin {NONE, Torn}

LoadChunks ==
  /\ query.next \in {"none", "ready"}
  /\ query' = [NoQuery EXCEPT !.next = "manifest", !.chunks = chunks, !.unseen = unseen]
  /\ UNCHANGED <<chunks, files, build, unseen>>

ReadManifest ==
  QueryStep("manifest", Readable("manifest"),
            [query EXCEPT !.next = "hash", !.manifest = files["manifest"]])

SameCount   == query.manifest.count = Len(ChunkIds[chunks])
HashMatches == query.manifest.hash = chunks

CheckHash == QueryStep("hash", HashMatches, [query EXCEPT !.next = "embeddings"])

LoadEmbeddings ==
  QueryStep("embeddings", Readable("embeddings"),
            [query EXCEPT !.next = "ids", !.embeddings = files["embeddings"]])

LoadIds ==
  QueryStep("ids", Readable("chunk_ids"),
            [query EXCEPT !.next = "checks", !.ids = files["chunk_ids"]])

(* metadata.json is parsed; the counts of ids, manifest and rows agree; the*)
(* ids are those of the chunks, in their order.                            *)
Consistent ==
  /\ Readable("metadata")
  /\ Len(query.ids) = query.manifest.count
  /\ query.embeddings = Mixed \/ Len(ChunkIds[query.embeddings]) = Len(query.ids)
  /\ query.ids = ChunkIds[query.chunks]

CheckIds == QueryStep("checks", Consistent, [query EXCEPT !.next = "ready"])

-----------------------------------------------------------------------------
Init ==
  /\ chunks \in Versions
  /\ files = [file \in Files |-> NONE]
  /\ build = [b \in Builders |-> NoBuild] /\ query = NoQuery
  /\ unseen = FALSE

BuildNext(b) == StartBuild(b) \/ OpenFile(b) \/ HashChunks(b) \/ WriteFile(b) \/ KillBuild(b)
QueryNext == LoadChunks \/ ReadManifest \/ CheckHash \/ LoadEmbeddings \/ LoadIds \/ CheckIds

Next ==
  \/ \E b \in Builders : BuildNext(b)
  \/ QueryNext
  \/ \E v \in Versions : Ingest(v)

Spec == Init /\ [][Next]_vars

-----------------------------------------------------------------------------
(* Properties *)

(* What the checks of load and of the retriever achieve.  A query that is  *)
(* ready to answer scores its chunks with the embeddings made of them,     *)
(* wherever builds were killed, whatever later builds overwrote under it   *)
(* and however chunks.jsonl changed, except when one of the three things   *)
(* happened that the checks cannot see: chunks.jsonl was rewritten within  *)
(* the query or within the build its manifest is from, two builds were     *)
(* under way at once, or chunks.jsonl went back to what the manifest was   *)
(* made for; the last two until a build has come through alone.            *)
EmbeddingsAreOfTheChunks ==
  query.next = "ready" /\ ~query.rewritten /\ ~query.unseen /\ ~query.manifest.rewritten =>
    query.embeddings = query.chunks

(* What the wiki's documentation promises of the hash in the manifest:     *)
(* while chunks.jsonl stays the same a query only reuses embeddings of it, *)
(* stale ones are refused.  The code does not keep it: see the README.     *)
StaleIsRefused ==
  query.next = "ready" /\ ~query.rewritten => query.embeddings = query.chunks
=============================================================================
