------------------------ MODULE EmbeddingIndexProofs ------------------------
(***************************************************************************)
(* What a query of the wiki retriever that passed its checks answers with, *)
(* for any contents of chunks.jsonl, any number of builders at once, and   *)
(* any number of builds, kills and queries.                                *)
(***************************************************************************)
EXTENDS EmbeddingIndex, TLAPS

-----------------------------------------------------------------------------
(* The inductive invariant. *)

ManifestType ==
  [hash : Versions, count : {Len(ChunkIds[v]) : v \in Versions}, rewritten : BOOLEAN]

Steps == {"none", "embeddings", "chunk_ids", "metadata", "hash", "manifest"}

BuildType ==
  [next : Steps, open : BOOLEAN, chunks : Versions \cup {NONE}, hash : Versions \cup {NONE},
   rewritten : BOOLEAN, alone : BOOLEAN]

QuerySteps == {"none", "manifest", "hash", "embeddings", "ids", "checks", "ready"}

QueryFields == {"next", "chunks", "manifest", "embeddings", "ids", "rewritten", "unseen"}

QueryTypeOK ==
  /\ DOMAIN query = QueryFields
  /\ query = [f \in DOMAIN query |-> query[f]]
  /\ query.next \in QuerySteps /\ query.rewritten \in BOOLEAN /\ query.unseen \in BOOLEAN

TypeOK ==
  /\ chunks \in Versions
  /\ files = [file \in Files |-> files[file]]
  /\ files["embeddings"] \in Versions \cup {NONE, Torn, Mixed}
  /\ files["manifest"] \in ManifestType \cup {NONE, Torn}
  /\ build \in [Builders -> BuildType]
  /\ unseen \in BOOLEAN

(* A running build has the chunks it loaded, and their hash once it has    *)
(* taken it, the same unless they were rewritten.  If it runs alone, the   *)
(* file it has open is its own, and so are the embeddings once written.    *)
BuildInv(b) ==
  /\ build[b].open => build[b].next \in Files
  /\ Running(b) =>
    /\ build[b].chunks \in Versions
    /\ IF build[b].next = "manifest" THEN build[b].hash \in Versions ELSE build[b].hash = NONE
    /\ ~build[b].rewritten =>
         build[b].chunks = (IF build[b].hash = NONE THEN chunks ELSE build[b].hash)
    /\ ~build[b].alone => unseen
    /\ build[b].alone =>
         /\ Others(b) = {}
         /\ build[b].open => files[build[b].next] = Torn
         /\ build[b].next # "embeddings" => files["embeddings"] = build[b].chunks

(* While chunks.jsonl is what the manifest m was made for, the embeddings  *)
(* in place and those about to be written are made of it.                  *)
Vouches(m) ==
  m \notin {NONE, Torn} /\ ~m.rewritten /\ m.hash = chunks =>
    /\ files["embeddings"] \in {NONE, Torn, chunks}
    /\ \A b \in Builders : Running(b) => build[b].chunks = chunks

(* What a query has read and checked, if nothing happened unseen.          *)
QueryInv ==
  /\ query.next \in {"hash", "embeddings", "ids", "checks", "ready"} =>
       query.manifest \in ManifestType \ {NONE, Torn}
  /\ Querying /\ unseen => query.unseen \/ query.rewritten
  /\ Querying /\ ~query.rewritten => query.chunks = chunks
  /\ ~query.rewritten /\ query.next \in {"embeddings", "ids", "checks"} => query.manifest.hash = query.chunks
  /\ ~query.rewritten /\ ~query.unseen =>
       /\ query.next \in {"hash", "embeddings"} => Vouches(query.manifest)
       /\ query.next \in {"ids", "checks", "ready"} /\ ~query.manifest.rewritten =>
            query.embeddings = query.chunks

IInv ==
  /\ TypeOK /\ QueryTypeOK
  /\ \A b \in Builders : BuildInv(b)
  /\ unseen \/ Vouches(files["manifest"])
  /\ QueryInv

USE IndexAssumption

-----------------------------------------------------------------------------
(* Each step of a build keeps it. *)

LEMMA Initially == Init => IInv
<1> SUFFICES ASSUME Init PROVE IInv
  OBVIOUS
<1>1. NoBuild \in BuildType /\ NoBuild.next = "none" /\ ~NoBuild.open /\ NoQuery.next = "none"
      /\ NoQuery.rewritten = FALSE /\ NoQuery.unseen = FALSE
  BY DEF NoBuild, BuildType, Steps, NoQuery
<1>2. TypeOK
  BY <1>1 DEF Init, TypeOK, Files
<1>3. QueryTypeOK /\ QueryInv
  BY <1>1 DEF Init, QueryTypeOK, QueryFields, QuerySteps, QueryInv, Querying, NoQuery
<1>4. files["manifest"] = NONE /\ \A b \in Builders : ~Running(b) /\ ~build[b].open
  BY <1>1 DEF Init, Files, Running
<1> QED BY <1>2, <1>3, <1>4 DEF IInv, BuildInv, Vouches

(* A step of a build changes the query at most by what is recorded of it.  *)
LEMMA BuildFrame ==
  ASSUME IInv, TypeOK', \A b \in Builders : BuildInv(b)', chunks' = chunks,
         query' = query, unseen' => unseen,
         ~unseen => \A m : Vouches(m) => Vouches(m)',
         ~unseen' => Vouches(files["manifest"])'
  PROVE  IInv'
<1>1. QueryTypeOK'
  BY DEF IInv, QueryTypeOK
<1>2. Querying /\ ~query.unseen /\ ~query.rewritten => ~unseen
  BY DEF IInv, QueryInv, TypeOK
<1>3. query.next \in {"hash", "embeddings"} => Querying
  BY DEF Querying
<1>4. QueryInv'
  BY <1>2, <1>3 DEF IInv, QueryInv, Querying
<1>5. (unseen \/ Vouches(files["manifest"]))'
  BY DEF TypeOK
<1> QED BY <1>1, <1>4, <1>5 DEF IInv

LEMMA StartBuildKeeps == ASSUME IInv, NEW b \in Builders, StartBuild(b) PROVE IInv'
<1> DEFINE new == [NoBuild EXCEPT !.next = "embeddings", !.chunks = chunks, !.alone = Others(b) = {}]
<1>1. /\ ~Running(b) /\ chunks' = chunks /\ files' = files /\ chunks \in Versions
      /\ build' = [c \in Builders |-> IF c = b THEN new ELSE [build[c] EXCEPT !.alone = FALSE]]
      /\ unseen' = (unseen \/ Others(b) # {})
      /\ query' = [query EXCEPT !.unseen = @ \/ (Querying /\ Others(b) # {})]
  BY DEF StartBuild, IInv, TypeOK
<1>2. /\ new \in BuildType /\ new.next = "embeddings" /\ new.chunks = chunks /\ new.hash = NONE
      /\ ~new.rewritten /\ ~new.open /\ new.alone = (Others(b) = {})
  BY <1>1 DEF NoBuild, BuildType, Steps
<1> HIDE DEF new
<1>3. ASSUME NEW c \in Builders, c # b
      PROVE  /\ build'[c] \in BuildType /\ build'[c].next = build[c].next /\ build'[c].open = build[c].open
             /\ build'[c].chunks = build[c].chunks /\ build'[c].hash = build[c].hash
             /\ build'[c].rewritten = build[c].rewritten /\ ~build'[c].alone
  BY <1>1, <1>3 DEF IInv, TypeOK, BuildType
<1>4. build'[b] = new
  BY <1>1
<1>5. TypeOK'
  BY <1>1, <1>2, <1>3, <1>4 DEF IInv, TypeOK
<1>6. Others(b)' = Others(b)
  BY <1>3 DEF Others, Running
<1>7. ASSUME NEW c \in Builders PROVE BuildInv(c)'
  <2>1. CASE c = b
    BY <2>1, <1>1, <1>2, <1>4, <1>6 DEF BuildInv, Running
  <2>2. CASE c # b
    <3>1. Running(c)' => Running(c) /\ c \in Others(b)
      BY <2>2, <1>3 DEF Running, Others
    <3>2. Running(c)' => unseen'
      BY <3>1, <1>1
    <3>3. BuildInv(c)
      BY DEF IInv
    <3> QED BY <3>1, <3>2, <3>3, <2>2, <1>1, <1>3 DEF BuildInv
  <2> QED BY <2>1, <2>2
<1>8. ASSUME NEW m, Vouches(m) PROVE Vouches(m)'
  BY <1>1, <1>2, <1>3, <1>4, <1>8 DEF Vouches, Running
<1>9. /\ query'.next = query.next /\ query'.chunks = query.chunks /\ query'.manifest = query.manifest
      /\ query'.embeddings = query.embeddings /\ query'.rewritten = query.rewritten
      /\ query'.unseen = (query.unseen \/ (Querying /\ Others(b) # {})) /\ QueryTypeOK'
  BY <1>1 DEF IInv, QueryTypeOK, QueryFields, Querying
<1>10. QueryInv'
  BY <1>1, <1>8, <1>9 DEF IInv, QueryInv, QueryTypeOK, Querying
<1>11. (unseen \/ Vouches(files["manifest"]))'
  BY <1>1, <1>8 DEF IInv
<1> QED BY <1>5, <1>7, <1>9, <1>10, <1>11 DEF IInv

(* What the other builds see of a step of b.                               *)
LEMMA OthersStay ==
  ASSUME IInv, NEW b \in Builders, NEW c \in Builders, c # b, Running(b), UNCHANGED <<chunks>>,
         build' = [build EXCEPT ![b] = build'[b]], TypeOK', unseen => unseen' \/ build[b].alone
  PROVE  BuildInv(c)'
<1>1. build'[c] = build[c] /\ Running(c)' = Running(c)
  BY DEF IInv, TypeOK, Running
<1>2. Running(c) => b \in Others(c) /\ c \in Others(b) 
  BY DEF Others
<1>3. Running(c) => ~build[c].alone /\ ~build[b].alone /\ unseen
  BY <1>2 DEF IInv, BuildInv
<1> QED BY <1>1, <1>3 DEF IInv, BuildInv

LEMMA OpenFileKeeps == ASSUME IInv, NEW b \in Builders, OpenFile(b) PROVE IInv'
<1>1. /\ build[b].next \in Files /\ ~build[b].open /\ files' = [files EXCEPT ![build[b].next] = Torn]
      /\ build' = [build EXCEPT ![b].open = TRUE] /\ chunks' = chunks /\ query' = query
      /\ unseen' = unseen
  BY DEF OpenFile
<1>2. /\ build'[b] \in BuildType /\ build'[b].next = build[b].next /\ build'[b].open
      /\ build'[b].chunks = build[b].chunks /\ build'[b].hash = build[b].hash
      /\ build'[b].rewritten = build[b].rewritten /\ build'[b].alone = build[b].alone
      /\ build' = [build EXCEPT ![b] = build'[b]] /\ Running(b)
      /\ \A c \in Builders : c # b => build'[c] = build[c]
  BY <1>1 DEF IInv, TypeOK, BuildType, Running, Files
<1>3. /\ files' = [file \in Files |-> files'[file]] /\ files'[build[b].next] = Torn
      /\ \A file \in Files : file # build[b].next => files'[file] = files[file]
  BY <1>1 DEF IInv, TypeOK
<1>4. TypeOK'
  BY <1>1, <1>2, <1>3 DEF IInv, TypeOK, Files
<1>5. BuildInv(b)'
  <2>1. Others(b)' = Others(b)
    BY <1>2 DEF Others, Running
  <2>2. build[b].next # "embeddings" => files'["embeddings"] = files["embeddings"]
    BY <1>3 DEF Files
  <2> QED BY <2>1, <2>2, <1>1, <1>2, <1>3 DEF IInv, BuildInv, Running
<1>6. \A c \in Builders : BuildInv(c)'
  BY <1>1, <1>2, <1>4, <1>5, OthersStay
<1>7. \A m : Vouches(m) => Vouches(m)'
  <2>1. files'["embeddings"] \in {Torn, files["embeddings"]} /\ \A c \in Builders : build'[c].chunks = build[c].chunks /\ build'[c].next = build[c].next
    BY <1>2, <1>3 DEF Files
  <2> QED BY <2>1, <1>1 DEF Vouches, Running
<1>8. files'["manifest"] \in {Torn, files["manifest"]}
  BY <1>3 DEF Files
<1>9. ~unseen' => Vouches(files["manifest"])'
  BY <1>1, <1>7, <1>8 DEF IInv, Vouches
<1> QED BY <1>1, <1>4, <1>6, <1>7, <1>9, BuildFrame

LEMMA HashChunksKeeps == ASSUME IInv, NEW b \in Builders, HashChunks(b) PROVE IInv'
<1>1. /\ build[b].next = "hash" /\ build' = [build EXCEPT ![b].next = "manifest", ![b].hash = chunks]
      /\ chunks' = chunks /\ files' = files /\ query' = query /\ unseen' = unseen /\ chunks \in Versions
  BY DEF HashChunks, IInv, TypeOK
<1>a. build \in [Builders -> BuildType] /\ build[b] \in BuildType
  BY DEF IInv, TypeOK
<1>2. /\ build'[b] \in BuildType /\ build'[b].next = "manifest" /\ build'[b].open = build[b].open
      /\ build'[b].chunks = build[b].chunks /\ build'[b].hash = chunks
      /\ build'[b].rewritten = build[b].rewritten /\ build'[b].alone = build[b].alone
      /\ build' = [build EXCEPT ![b] = build'[b]] /\ Running(b)
      /\ \A c \in Builders : c # b => build'[c] = build[c]
  <2>1. /\ build'[b] = [build[b] EXCEPT !.next = "manifest", !.hash = chunks]
        /\ build' = [build EXCEPT ![b] = build'[b]]
        /\ \A c \in Builders : c # b => build'[c] = build[c]
    BY <1>1, <1>a
  <2> QED BY <2>1, <1>1, <1>a DEF BuildType, Running, Steps
<1>3. TypeOK'
  BY <1>1, <1>2 DEF IInv, TypeOK
<1>4. BuildInv(b)'
  <2>1. Others(b)' = Others(b)
    BY <1>2 DEF Others, Running
  <2>2. ~build[b].open
    BY <1>1, <1>2 DEF IInv, BuildInv, Files, TypeOK, BuildType
  <2>3. build[b].hash = NONE /\ chunks # NONE
    BY <1>1, <1>2 DEF IInv, BuildInv
  <2> QED BY <2>1, <2>2, <2>3, <1>1, <1>2 DEF IInv, BuildInv, Running
<1>5. \A c \in Builders : BuildInv(c)'
  BY <1>1, <1>2, <1>3, <1>4, OthersStay
<1>6. \A m : Vouches(m) => Vouches(m)'
  <2>1. \A c \in Builders : Running(c)' => Running(c) /\ build'[c].chunks = build[c].chunks
    BY <1>2 DEF Running
  <2> QED BY <2>1, <1>1 DEF Vouches
<1>7. ~unseen' => Vouches(files["manifest"])'
  BY <1>1, <1>6 DEF IInv
<1> QED BY <1>1, <1>3, <1>5, <1>6, <1>7, BuildFrame

(* A build that runs alone shares no file.                                 *)
LEMMA AloneOwns ==
  ASSUME IInv, NEW b \in Builders, Running(b), ~unseen \/ build[b].alone
  PROVE  build[b].alone /\ Mixtures(b) = {}
<1>1. build[b].alone /\ Others(b) = {} /\ (build[b].open => files[build[b].next] = Torn)
  BY DEF IInv, BuildInv
<1> QED BY <1>1 DEF Mixtures, Shared

LEMMA MixtureTypes ==
  ASSUME IInv, NEW b \in Builders, NEW content \in Mixtures(b)
  PROVE  /\ build[b].next = "embeddings" => content \in Versions \cup {NONE, Torn, Mixed}
         /\ build[b].next = "manifest" => content \in ManifestType \cup {NONE, Torn}
BY DEF Mixtures, IInv, TypeOK

LEMMA WriteFileKeeps == ASSUME IInv, NEW b \in Builders, WriteFile(b) PROVE IInv'
<1>1. PICK content \in {ContentOf(b)} \cup Mixtures(b) : files' = [files EXCEPT ![build[b].next] = content]
  BY DEF WriteFile
<1>2. /\ build[b].open /\ chunks' = chunks /\ query' = query
      /\ unseen' = (unseen /\ ~(build[b].next = "manifest" /\ build[b].alone))
      /\ build' = [build EXCEPT ![b] =
                     IF build[b].next = "manifest" THEN NoBuild
                     ELSE [build[b] EXCEPT !.next = After(build[b].next), !.open = FALSE]]
  BY DEF WriteFile
<1>3. /\ Running(b) /\ build[b].next \in Files /\ build[b].chunks \in Versions
      /\ build[b] \in BuildType /\ build[b].rewritten \in BOOLEAN
  BY <1>2 DEF IInv, TypeOK, BuildType, BuildInv, Running, Files
<1>4. ContentOf(b) = (IF build[b].next = "embeddings" THEN build[b].chunks
                      ELSE IF build[b].next = "manifest" THEN Manifest(b) ELSE ChunkIds[build[b].chunks])
  <2>1. \/ build[b].next = "embeddings" \/ build[b].next = "chunk_ids" \/ build[b].next = "metadata"
        \/ build[b].next = "manifest"
    BY <1>3 DEF Files
  <2>2. CASE build[b].next = "embeddings"
    BY <2>2 DEF ContentOf
  <2>3. CASE build[b].next \in {"chunk_ids", "metadata"}
    BY <2>3 DEF ContentOf
  <2>4. CASE build[b].next = "manifest"
    BY <2>4 DEF ContentOf
  <2> QED BY <2>1, <2>2, <2>3, <2>4
<1>5. build[b].next = "manifest" => Manifest(b) \in ManifestType
  BY <1>3 DEF IInv, BuildInv, Manifest, ManifestType
<1>6. /\ files' = [file \in Files |-> files'[file]] /\ files'[build[b].next] = content
      /\ \A file \in Files : file # build[b].next => files'[file] = files[file]
  BY <1>1, <1>3 DEF IInv, TypeOK
<1>7. /\ build[b].next = "embeddings" => content \in Versions \cup {NONE, Torn, Mixed}
      /\ build[b].next = "manifest" => content \in ManifestType \cup {NONE, Torn}
  BY <1>3, <1>4, <1>5, MixtureTypes
<1>8. /\ build'[b] \in BuildType /\ ~build'[b].open
      /\ build' = [build EXCEPT ![b] = build'[b]]
      /\ \A c \in Builders : c # b => build'[c] = build[c]
      /\ build[b].next = "manifest" => build'[b].next = "none"
      /\ build[b].next # "manifest" =>
           /\ build'[b].next \in Steps \ {"none", "embeddings", "manifest"}
           /\ build'[b].chunks = build[b].chunks /\ build'[b].hash = build[b].hash
           /\ build'[b].rewritten = build[b].rewritten /\ build'[b].alone = build[b].alone
  <2>1. /\ build'[b] = (IF build[b].next = "manifest" THEN NoBuild
                        ELSE [build[b] EXCEPT !.next = After(build[b].next), !.open = FALSE])
        /\ build' = [build EXCEPT ![b] = build'[b]] /\ \A c \in Builders : c # b => build'[c] = build[c]
    <3> DEFINE new == IF build[b].next = "manifest" THEN NoBuild
                      ELSE [build[b] EXCEPT !.next = After(build[b].next), !.open = FALSE]
    <3>1. build' = [build EXCEPT ![b] = new]
      BY <1>2
    <3>2. build \in [Builders -> BuildType]
      BY DEF IInv, TypeOK
    <3>3. build'[b] = new
      <4> HIDE DEF new
      <4> QED BY <3>1, <3>2
    <3>4. build' = [build EXCEPT ![b] = build'[b]] /\ \A c \in Builders : c # b => build'[c] = build[c]
      <4> HIDE DEF new
      <4> QED BY <3>1, <3>2
    <3> QED BY <3>3, <3>4
  <2>2. CASE build[b].next = "manifest"
    BY <2>1, <2>2 DEF NoBuild, BuildType, Steps
  <2>3. CASE build[b].next # "manifest"
    <3>1. After(build[b].next) \in Steps \ {"none", "embeddings", "manifest"}
      <4>1. \/ build[b].next = "embeddings" \/ build[b].next = "chunk_ids" \/ build[b].next = "metadata"
        BY <1>3, <2>3 DEF Files
      <4> QED BY <4>1 DEF After, Steps
    <3>2. build'[b] = [build[b] EXCEPT !.next = After(build[b].next), !.open = FALSE]
      BY <2>1, <2>3
    <3>3. /\ build'[b] \in BuildType /\ ~build'[b].open /\ build'[b].next = After(build[b].next)
          /\ build'[b].chunks = build[b].chunks /\ build'[b].hash = build[b].hash
          /\ build'[b].rewritten = build[b].rewritten /\ build'[b].alone = build[b].alone
      BY <3>1, <3>2, <1>3 DEF BuildType
    <3> QED BY <3>1, <3>3, <2>1, <2>3
  <2> QED BY <2>2, <2>3, <2>1
<1>9. TypeOK'
  <2>1. /\ files'["embeddings"] \in Versions \cup {NONE, Torn, Mixed}
        /\ files'["manifest"] \in ManifestType \cup {NONE, Torn}
    <3>1. /\ files["embeddings"] \in Versions \cup {NONE, Torn, Mixed}
          /\ files["manifest"] \in ManifestType \cup {NONE, Torn}
      BY DEF IInv, TypeOK
    <3>2. "embeddings" \in Files /\ "manifest" \in Files
      BY DEF Files
    <3> QED BY <3>1, <3>2, <1>6, <1>7
  <2>2. build' \in [Builders -> BuildType]
    BY <1>8 DEF IInv, TypeOK
  <2>3. chunks' \in Versions /\ unseen' \in BOOLEAN
    BY <1>2 DEF IInv, TypeOK
  <2> QED BY <2>1, <2>2, <2>3, <1>6 DEF TypeOK
<1>10. ~unseen \/ build[b].alone => content = ContentOf(b)
  BY <1>3, AloneOwns
<1>11. ~unseen \/ build[b].alone => files'["embeddings"] = build[b].chunks
  <2>1. CASE build[b].next = "embeddings"
    BY <2>1, <1>4, <1>6, <1>10
  <2>2. CASE build[b].next # "embeddings"
    <3>1. files'["embeddings"] = files["embeddings"]
      BY <2>2, <1>6 DEF Files
    <3> QED BY <2>2, <3>1, <1>3, AloneOwns DEF IInv, BuildInv
  <2> QED BY <2>1, <2>2
<1>12. BuildInv(b)'
  <2>1. CASE build[b].next = "manifest"
    BY <2>1, <1>8 DEF BuildInv, Running
  <2>2. CASE build[b].next # "manifest"
    <3>1. Others(b)' = Others(b)
      BY <1>8 DEF Others, Running
    <3> QED BY <2>2, <3>1, <1>2, <1>3, <1>8, <1>11 DEF IInv, BuildInv, Running
  <2> QED BY <2>1, <2>2
<1>13. \A c \in Builders : BuildInv(c)'
  <2>1. unseen => unseen' \/ build[b].alone
    BY <1>2
  <2> QED BY <2>1, <1>2, <1>3, <1>8, <1>9, <1>12, OthersStay
<1>14. ~unseen => \A m : Vouches(m) => Vouches(m)'
  <2> SUFFICES ASSUME ~unseen, NEW m, Vouches(m) PROVE Vouches(m)'
    OBVIOUS
  <2>1. files'["embeddings"] = build[b].chunks
    BY <1>11
  <2>2. ASSUME NEW c \in Builders, Running(c)' PROVE Running(c) /\ build'[c].chunks = build[c].chunks
    BY <2>2, <1>3, <1>8 DEF Running
  <2> QED BY <2>1, <2>2, <1>2, <1>3 DEF Vouches
<1>15. ~unseen' => Vouches(files["manifest"])'
  <2> SUFFICES ASSUME ~unseen' PROVE Vouches(files["manifest"])'
    OBVIOUS
  <2>1. CASE build[b].next = "manifest"
    <3>1. build[b].alone
      BY <2>1, <1>2, <1>3, AloneOwns
    <3>2. files'["manifest"] = Manifest(b) /\ files'["embeddings"] = build[b].chunks
      BY <2>1, <3>1, <1>4, <1>6, <1>10, <1>11
    <3>3. \A c \in Builders : ~Running(c)'
      <4>1. Others(b) = {}
        BY <3>1, <1>3 DEF IInv, BuildInv
      <4> QED BY <4>1, <2>1, <1>8 DEF Others, Running
    <3>4. ~build[b].rewritten => build[b].hash = build[b].chunks
      BY <2>1, <1>3 DEF IInv, BuildInv
    <3> QED BY <3>2, <3>3, <3>4, <1>2 DEF Vouches, Manifest
  <2>2. CASE build[b].next # "manifest"
    <3>1. files'["manifest"] = files["manifest"]
      BY <2>2, <1>6 DEF Files
    <3>2. ~unseen
      BY <2>2, <1>2
    <3> QED BY <3>1, <3>2, <1>14 DEF IInv
  <2> QED BY <2>1, <2>2
<1>16. unseen' => unseen
  BY <1>2
<1> QED BY <1>2, <1>9, <1>13, <1>14, <1>15, <1>16, BuildFrame

LEMMA KillBuildKeeps == ASSUME IInv, NEW b \in Builders, KillBuild(b) PROVE IInv'
<1>1. /\ Running(b) /\ build' = [build EXCEPT ![b] = NoBuild] /\ chunks' = chunks /\ query' = query
      /\ unseen' = unseen
      /\ \/ files' = files
         \/ \E content \in Mixtures(b) : files' = [files EXCEPT ![build[b].next] = content]
  BY DEF KillBuild
<1>2. /\ build'[b] \in BuildType /\ build'[b].next = "none" /\ ~build'[b].open
      /\ build' = [build EXCEPT ![b] = build'[b]]
      /\ \A c \in Builders : c # b => build'[c] = build[c]
  BY <1>1 DEF IInv, TypeOK, NoBuild, BuildType, Steps
<1>3. /\ files' = [file \in Files |-> files'[file]]
      /\ files'["embeddings"] \in Versions \cup {NONE, Torn, Mixed}
      /\ files'["manifest"] \in ManifestType \cup {NONE, Torn}
  <2>1. CASE files' = files
    BY <2>1 DEF IInv, TypeOK
  <2>2. CASE files' # files
    <3>1. PICK content \in Mixtures(b) : files' = [files EXCEPT ![build[b].next] = content]
      BY <1>1, <2>2
    <3> QED BY <3>1, MixtureTypes DEF IInv, TypeOK, Files
  <2> QED BY <2>1, <2>2
<1>4. TypeOK'
  BY <1>1, <1>2, <1>3 DEF IInv, TypeOK
<1>5. \A c \in Builders : BuildInv(c)'
  <2>1. BuildInv(b)'
    BY <1>2 DEF BuildInv, Running
  <2> QED BY <2>1, <1>1, <1>2, <1>4, OthersStay
<1>6. ~unseen => files' = files
  BY <1>1, AloneOwns
<1>7. ~unseen => \A m : Vouches(m) => Vouches(m)'
  BY <1>1, <1>2, <1>6 DEF Vouches, Running
<1>8. ~unseen' => Vouches(files["manifest"])'
  BY <1>1, <1>6, <1>7 DEF IInv
<1> QED BY <1>1, <1>4, <1>5, <1>7, <1>8, BuildFrame

-----------------------------------------------------------------------------
(* So does a rewrite of chunks.jsonl. *)

LEMMA IngestKeeps == ASSUME IInv, NEW v \in Versions, Ingest(v) PROVE IInv'
<1>1. /\ chunks' = v /\ v # chunks /\ files' = files
      /\ build' = [b \in Builders |->
                     [build[b] EXCEPT !.rewritten = @ \/ (Running(b) /\ build[b].hash = NONE)]]
      /\ unseen' = (unseen \/ (files["manifest"] \notin {NONE, Torn} /\ files["manifest"].hash = v))
      /\ query' = [query EXCEPT !.rewritten = @ \/ Querying]
  BY DEF Ingest
<1>2. ASSUME NEW b \in Builders
      PROVE  /\ build'[b] \in BuildType /\ build'[b].next = build[b].next /\ build'[b].open = build[b].open
             /\ build'[b].chunks = build[b].chunks /\ build'[b].hash = build[b].hash
             /\ build'[b].alone = build[b].alone
             /\ build'[b].rewritten = (build[b].rewritten \/ (Running(b) /\ build[b].hash = NONE))
  <2>1. /\ build[b] \in BuildType
        /\ build'[b] = [build[b] EXCEPT !.rewritten = @ \/ (Running(b) /\ build[b].hash = NONE)]
    BY <1>1 DEF IInv, TypeOK
  <2> DEFINE now == build[b].rewritten \/ (Running(b) /\ build[b].hash = NONE)
  <2>2. now \in BOOLEAN /\ build'[b] = [build[b] EXCEPT !.rewritten = now]
    BY <2>1 DEF BuildType
  <2> HIDE DEF now
  <2>3. /\ build'[b] \in BuildType /\ build'[b].next = build[b].next /\ build'[b].open = build[b].open
        /\ build'[b].chunks = build[b].chunks /\ build'[b].hash = build[b].hash
        /\ build'[b].alone = build[b].alone /\ build'[b].rewritten = now
    BY <2>1, <2>2 DEF BuildType
  <2> QED BY <2>3 DEF now
<1>3. /\ query'.next = query.next /\ query'.chunks = query.chunks /\ query'.manifest = query.manifest
      /\ query'.embeddings = query.embeddings /\ query'.unseen = query.unseen
      /\ query'.rewritten = (query.rewritten \/ Querying) /\ QueryTypeOK'
  BY <1>1 DEF IInv, QueryTypeOK, QueryFields, Querying
<1>4. TypeOK'
  BY <1>1, <1>2 DEF IInv, TypeOK
<1>5. ASSUME NEW b \in Builders PROVE BuildInv(b)'
  <2>0. \A c \in Builders : Running(c)' = Running(c)
    BY <1>2 DEF Running
  <2>1. Others(b)' = Others(b) /\ Running(b)' = Running(b)
    BY <2>0 DEF Others
  <2>2. BuildInv(b) /\ (unseen => unseen')
    BY <1>1 DEF IInv
  <2>3. /\ build'[b].open => build'[b].next \in Files
        /\ Running(b)' => build'[b].chunks \in Versions /\ (~build'[b].alone => unseen')
        /\ Running(b)' => IF build'[b].next = "manifest" THEN build'[b].hash \in Versions ELSE build'[b].hash = NONE
    BY <2>1, <2>2, <1>2 DEF BuildInv
  <2>4. Running(b)' /\ ~build'[b].rewritten =>
          build'[b].chunks = (IF build'[b].hash = NONE THEN chunks' ELSE build'[b].hash)
    BY <2>1, <2>2, <1>2 DEF BuildInv
  <2>5. Running(b)' /\ build'[b].alone =>
          /\ Others(b)' = {}
          /\ build'[b].open => files'[build'[b].next] = Torn
          /\ build'[b].next # "embeddings" => files'["embeddings"] = build'[b].chunks
    BY <2>1, <2>2, <1>1, <1>2 DEF BuildInv
  <2> QED BY <2>3, <2>4, <2>5 DEF BuildInv
<1>6. (unseen \/ Vouches(files["manifest"]))'
  BY <1>1 DEF Vouches
<1>7. QueryInv'
  <2>1. Querying /\ ~query.rewritten /\ ~query'.rewritten => FALSE
    BY <1>3
  <2>2. query.next \in {"manifest", "hash", "embeddings", "ids", "checks"} => Querying
    BY DEF Querying
  <2>3. query'.rewritten \in BOOLEAN /\ query.rewritten \in BOOLEAN
    BY <1>3 DEF IInv, QueryTypeOK
  <2>4. Querying => query'.rewritten
    BY <1>3
  <2> QED BY <2>1, <2>2, <2>3, <2>4, <1>3 DEF IInv, QueryInv, Querying
<1> QED BY <1>3, <1>4, <1>5, <1>6, <1>7 DEF IInv

-----------------------------------------------------------------------------
(* A query gives up, loads its chunks, or takes its next step. *)

LEMMA QueryFrame ==
  ASSUME IInv, UNCHANGED <<chunks, files, build, unseen>>, QueryTypeOK', QueryInv'
  PROVE  IInv'
<1>1. TypeOK' /\ (unseen \/ Vouches(files["manifest"]))' /\ \A b \in Builders : BuildInv(b)'
  BY DEF IInv, TypeOK, BuildInv, Vouches, Running, Others
<1> QED BY <1>1 DEF IInv

LEMMA GivesUp ==
  ASSUME IInv, UNCHANGED <<chunks, files, build, unseen>>, query' = NoQuery
  PROVE  IInv'
<1>1. QueryTypeOK' /\ QueryInv'
  BY DEF QueryTypeOK, QueryFields, QueryInv, Querying, NoQuery, QuerySteps
<1> QED BY <1>1, QueryFrame

LEMMA LoadChunksKeeps == ASSUME IInv, LoadChunks PROVE IInv'
<1>1. query' = [NoQuery EXCEPT !.next = "manifest", !.chunks = chunks, !.unseen = unseen]
      /\ UNCHANGED <<chunks, files, build, unseen>> /\ unseen \in BOOLEAN
  BY DEF LoadChunks, IInv, TypeOK
<1>2. query'.next = "manifest" /\ query'.chunks = chunks /\ query'.unseen = unseen /\ QueryTypeOK'
  BY <1>1 DEF QueryTypeOK, QueryFields, NoQuery, QuerySteps
<1>3. QueryInv'
  BY <1>1, <1>2 DEF QueryInv
<1> QED BY <1>1, <1>2, <1>3, QueryFrame

LEMMA ReadManifestKeeps == ASSUME IInv, ReadManifest PROVE IInv'
<1>1. CASE Readable("manifest")
  <2>1. /\ query.next = "manifest" /\ query' = [query EXCEPT !.next = "hash", !.manifest = files["manifest"]]
        /\ UNCHANGED <<chunks, files, build, unseen>>
    BY <1>1 DEF ReadManifest, QueryStep
  <2>2. /\ query'.next = "hash" /\ query'.manifest = files["manifest"] /\ query'.chunks = query.chunks
        /\ query'.rewritten = query.rewritten /\ query'.unseen = query.unseen /\ QueryTypeOK'
    BY <2>1 DEF IInv, QueryTypeOK, QueryFields, QuerySteps
  <2>3. files["manifest"] \in ManifestType \ {NONE, Torn}
    BY <1>1 DEF Readable, IInv, TypeOK
  <2>4. ~query.unseen /\ ~query.rewritten => Vouches(files["manifest"])'
    BY <2>1 DEF IInv, QueryInv, Querying, Vouches, Running
  <2>5. QueryInv'
    BY <2>1, <2>2, <2>3, <2>4 DEF IInv, QueryInv, Querying
  <2> QED BY <2>1, <2>2, <2>5, QueryFrame
<1> QED BY <1>1, GivesUp DEF ReadManifest, QueryStep

LEMMA CheckHashKeeps == ASSUME IInv, CheckHash PROVE IInv'
<1>1. CASE HashMatches
  <2>1. /\ query.next = "hash" /\ query' = [query EXCEPT !.next = "embeddings"]
        /\ UNCHANGED <<chunks, files, build, unseen>> /\ query.manifest.hash = chunks
    BY <1>1 DEF CheckHash, QueryStep, HashMatches
  <2>2. /\ query'.next = "embeddings" /\ query'.manifest = query.manifest /\ query'.chunks = query.chunks
        /\ query'.rewritten = query.rewritten /\ query'.unseen = query.unseen /\ QueryTypeOK'
    BY <2>1 DEF IInv, QueryTypeOK, QueryFields, QuerySteps
  <2>3. \A m : Vouches(m) => Vouches(m)'
    BY <2>1 DEF Vouches, Running
  <2>4. QueryInv'
    BY <2>1, <2>2, <2>3 DEF IInv, QueryInv, Querying
  <2> QED BY <2>1, <2>2, <2>4, QueryFrame
<1> QED BY <1>1, GivesUp DEF CheckHash, QueryStep

LEMMA LoadEmbeddingsKeeps == ASSUME IInv, LoadEmbeddings PROVE IInv'
<1>1. CASE Readable("embeddings")
  <2>1. /\ query.next = "embeddings" /\ query' = [query EXCEPT !.next = "ids", !.embeddings = files["embeddings"]]
        /\ UNCHANGED <<chunks, files, build, unseen>>
    BY <1>1 DEF LoadEmbeddings, QueryStep
  <2>2. /\ query'.next = "ids" /\ query'.manifest = query.manifest /\ query'.chunks = query.chunks
        /\ query'.rewritten = query.rewritten /\ query'.unseen = query.unseen /\ QueryTypeOK'
        /\ query'.embeddings = files["embeddings"]
    BY <2>1 DEF IInv, QueryTypeOK, QueryFields, QuerySteps
  <2>3. ~query.rewritten /\ ~query.unseen /\ ~query.manifest.rewritten => files["embeddings"] = query.chunks
    BY <2>1, <1>1 DEF IInv, QueryInv, Querying, Vouches, Readable
  <2>4. QueryInv'
    BY <2>1, <2>2, <2>3 DEF IInv, QueryInv, Querying
  <2> QED BY <2>1, <2>2, <2>4, QueryFrame
<1> QED BY <1>1, GivesUp DEF LoadEmbeddings, QueryStep

LEMMA LoadIdsKeeps == ASSUME IInv, LoadIds PROVE IInv'
<1>1. CASE Readable("chunk_ids")
  <2>1. /\ query.next = "ids" /\ query' = [query EXCEPT !.next = "checks", !.ids = files["chunk_ids"]]
        /\ UNCHANGED <<chunks, files, build, unseen>>
    BY <1>1 DEF LoadIds, QueryStep
  <2>2. /\ query'.next = "checks" /\ query'.manifest = query.manifest /\ query'.chunks = query.chunks
        /\ query'.rewritten = query.rewritten /\ query'.unseen = query.unseen /\ QueryTypeOK'
        /\ query'.embeddings = query.embeddings
    BY <2>1 DEF IInv, QueryTypeOK, QueryFields, QuerySteps
  <2>3. QueryInv'
    BY <2>1, <2>2 DEF IInv, QueryInv, Querying
  <2> QED BY <2>1, <2>2, <2>3, QueryFrame
<1> QED BY <1>1, GivesUp DEF LoadIds, QueryStep

LEMMA CheckIdsKeeps == ASSUME IInv, CheckIds PROVE IInv'
<1>1. CASE Consistent
  <2>1. /\ query.next = "checks" /\ query' = [query EXCEPT !.next = "ready"]
        /\ UNCHANGED <<chunks, files, build, unseen>>
    BY <1>1 DEF CheckIds, QueryStep
  <2>2. /\ query'.next = "ready" /\ query'.manifest = query.manifest /\ query'.chunks = query.chunks
        /\ query'.rewritten = query.rewritten /\ query'.unseen = query.unseen /\ QueryTypeOK'
        /\ query'.embeddings = query.embeddings
    BY <2>1 DEF IInv, QueryTypeOK, QueryFields, QuerySteps
  <2>3. QueryInv'
    BY <2>1, <2>2 DEF IInv, QueryInv, Querying
  <2> QED BY <2>1, <2>2, <2>3, QueryFrame
<1> QED BY <1>1, GivesUp DEF CheckIds, QueryStep

LEMMA Inductive == IInv /\ [Next]_vars => IInv'
<1> SUFFICES ASSUME IInv, [Next]_vars PROVE IInv'
  OBVIOUS
<1>1. CASE \E b \in Builders : BuildNext(b)
  BY <1>1, StartBuildKeeps, OpenFileKeeps, HashChunksKeeps, WriteFileKeeps, KillBuildKeeps DEF BuildNext
<1>2. CASE QueryNext
  BY <1>2, LoadChunksKeeps, ReadManifestKeeps, CheckHashKeeps, LoadEmbeddingsKeeps, LoadIdsKeeps, CheckIdsKeeps
     DEF QueryNext
<1>3. CASE \E v \in Versions : Ingest(v)
  BY <1>3, IngestKeeps
<1>4. CASE UNCHANGED vars
  <2>1. UNCHANGED <<chunks, files, build, unseen, query>>
    BY <1>4 DEF vars
  <2>2. QueryTypeOK' /\ QueryInv'
    BY <2>1 DEF IInv, QueryTypeOK, QueryInv, Querying, Vouches, Running
  <2> QED BY <2>1, <2>2, QueryFrame
<1> QED BY <1>1, <1>2, <1>3, <1>4 DEF Next

-----------------------------------------------------------------------------
(* Theorem. *)

(* However many builds ran into one another or were killed, and whatever   *)
(* chunks.jsonl was changed to and back, a query of retriever.py that is   *)
(* ready and met none of the three things its checks cannot see holds the  *)
(* embeddings of its chunks.                                               *)
THEOREM QueriesScoreTheirChunks == Spec => []EmbeddingsAreOfTheChunks
<1>1. IInv => EmbeddingsAreOfTheChunks
  BY DEF IInv, QueryInv, EmbeddingsAreOfTheChunks
<1>2. IInv /\ [Next]_vars => IInv'
  BY Inductive
<1> QED BY Initially, <1>1, <1>2, PTL DEF Spec
=============================================================================
