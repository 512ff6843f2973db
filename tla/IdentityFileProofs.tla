------------------------- MODULE IdentityFileProofs -------------------------
(***************************************************************************)
(* Proofs, for any calls, nodes, pids and number of restarts, that         *)
(* load_or_create owns its temporary files, leaves no key behind, and      *)
(* implements IdentityPromise.                                             *)
(***************************************************************************)
EXTENDS IdentityFile, TLAPS

\* The next-state relation, one disjunct per action.
LEMMA NextCases ==
  ASSUME [Next]_vars
  PROVE  \/ \E c \in Calls, n \in Nodes : LoadOrCreate(c, n)
         \/ \E c \in Calls :
              \/ Metadata(c) \/ Read(c) \/ CreateDir(c) \/ TempPath(c)
              \/ CreateTemp(c) \/ WriteKey(c) \/ Publish(c) \/ RemoveTemp(c)
         \/ \E n \in Nodes : Restart(n)
         \/ UNCHANGED vars
BY DEF Next

\* The empty tuple is neither an era nor a name.
LEMMA EmptyTuple == <<>> \notin Eras /\ <<>> \notin Names
BY DEF Eras, Names

LEMMA InitFile == Init => FileInv
<1> SUFFICES ASSUME Init PROVE FileInv
  OBVIOUS
<1>1. TypeOK
  <2>1. data \in [Keys -> Keys \cup {"partial", "corrupt"}]
    BY DEF Init, Keys
  <2>2. 0 \in 0..MaxRestarts
    BY PathAssumption
  <2>3. /\ pid \in [Nodes -> Pids] /\ counter \in [Nodes -> Nat]
        /\ era \in [Nodes -> 0..MaxRestarts]
        /\ pc \in [Calls -> InProgress \cup {"idle", "refused", "done", "crashed"}]
    BY <2>2 DEF Init
  <2>4. /\ node \in [Calls -> Eras \cup {<<>>}]
        /\ name \in [Calls -> Names \cup {<<>>}]
        /\ fd \in [Calls -> Calls \cup {NoFile}]
        /\ linked \in [Calls -> {"none", "ok", "exists", "failed"}]
    BY DEF Init
  <2>5. /\ file \in Keys \cup {NoFile} /\ temps \subseteq Names \X Calls
        /\ stuck \subseteq Names
        /\ answer \in [Calls -> Keys \cup {"none", "error"}]
    BY DEF Init, Keys
  <2> QED BY <2>1, <2>3, <2>4, <2>5 DEF TypeOK
<1>2. OwnsTemp /\ NamesInv
  BY DEF Init, OwnsTemp, NamesInv, InProgress
<1>3. PublishedInv
  BY PathAssumption DEF Init, PublishedInv
<1> QED BY <1>1, <1>2, <1>3 DEF FileInv

LEMMA NextType == FileInv /\ [Next]_vars => TypeOK'
<1> SUFFICES ASSUME TypeOK, OwnsTemp, NamesInv, [Next]_vars PROVE TypeOK'
  BY DEF FileInv
<1> USE DEF TypeOK, Goes, Returns, nodeVars, callVars, diskVars
<1>1. ASSUME NEW c \in Calls, NEW n \in Nodes, LoadOrCreate(c, n) PROVE TypeOK'
  <2>1. <<n, era[n]>> \in Eras
    BY DEF Eras
  <2> QED BY <1>1, <2>1 DEF LoadOrCreate, InProgress
<1>2. ASSUME NEW c \in Calls, Metadata(c) PROVE TypeOK'
  BY <1>2 DEF Metadata, InProgress
<1>3. ASSUME NEW c \in Calls, Read(c) PROVE TypeOK'
  BY <1>3 DEF Read, KeySized
<1>4. ASSUME NEW c \in Calls, CreateDir(c) PROVE TypeOK'
  BY <1>4 DEF CreateDir, InProgress
<1>5. ASSUME NEW c \in Calls, TempPath(c) PROVE TypeOK'
  <2>1. node[c] \in Eras
    BY <1>5 DEF TempPath, NamesInv
  <2>2. node[c][1] \in Nodes
    BY <2>1 DEF Eras
  <2>3. <<pid[node[c][1]], counter[node[c][1]]>> \in Names
    BY <2>2 DEF Names
  <2> QED BY <1>5, <2>2, <2>3 DEF TempPath, InProgress
<1>6. ASSUME NEW c \in Calls, CreateTemp(c) PROVE TypeOK'
  <2>1. <<name[c], c>> \in Names \X Calls
    BY <1>6 DEF CreateTemp, NamesInv
  <2>2. c \in Keys
    BY DEF Keys
  <2>3. CASE ~Taken(c) /\ Opens(c, c)
    BY <1>6, <2>1, <2>2, <2>3 DEF CreateTemp, Opens, InProgress
  <2>4. CASE ~(~Taken(c) /\ Opens(c, c))
    BY <1>6, <2>4 DEF CreateTemp
  <2> QED BY <2>3, <2>4
<1>7. ASSUME NEW c \in Calls, WriteKey(c) PROVE TypeOK'
  <2>1. fd[c] \in Keys /\ c \in Keys
    BY <1>7 DEF WriteKey, OwnsTemp, Keys
  <2> QED BY <1>7, <2>1 DEF WriteKey, InProgress
<1>8. ASSUME NEW c \in Calls, Publish(c) PROVE TypeOK'
  <2>1. fd[c] \in Keys
    BY <1>8 DEF Publish, OwnsTemp, Keys
  <2> QED BY <1>8, <2>1 DEF Publish, InProgress
<1>9. ASSUME NEW c \in Calls, RemoveTemp(c) PROVE TypeOK'
  <2>1. name[c] \in Names /\ c \in Keys
    BY <1>9 DEF RemoveTemp, NamesInv, Keys
  <2>2. pc' \in [Calls -> InProgress \cup {"idle", "refused", "done", "crashed"}]
        /\ answer' \in [Calls -> Keys \cup {"none", "error"}]
    BY <1>9, <2>1 DEF RemoveTemp, AfterRemove, InProgress
  <2> QED BY <1>9, <2>1, <2>2 DEF RemoveTemp
<1>10. ASSUME NEW n \in Nodes, Restart(n) PROVE TypeOK'
  <2>1. era[n] + 1 \in 0..MaxRestarts
    BY <1>10, PathAssumption DEF Restart
  <2> QED BY <1>10, <2>1 DEF Restart
<1>11. CASE UNCHANGED vars
  BY <1>11 DEF vars
<1> QED
  BY NextCases, <1>1, <1>2, <1>3, <1>4, <1>5, <1>6, <1>7, <1>8, <1>9, <1>10,
     <1>11

\* Every call that has created its temporary file goes on owning it: create_new
\* refuses a name that is taken, and a call removes only its own name.
LEMMA NextOwns == FileInv /\ [Next]_vars => OwnsTemp'
<1> SUFFICES ASSUME TypeOK, OwnsTemp, NamesInv, [Next]_vars PROVE OwnsTemp'
  BY DEF FileInv
<1> USE DEF TypeOK, OwnsTemp, Goes, Returns, nodeVars, callVars, diskVars
<1>1. ASSUME NEW c \in Calls, NEW n \in Nodes, LoadOrCreate(c, n) PROVE OwnsTemp'
  BY <1>1 DEF LoadOrCreate
<1>2. ASSUME NEW c \in Calls, Metadata(c) \/ Read(c) \/ CreateDir(c)
      PROVE  OwnsTemp'
  BY <1>2 DEF Metadata, Read, CreateDir
<1>3. ASSUME NEW c \in Calls, TempPath(c) PROVE OwnsTemp'
  BY <1>3 DEF TempPath
<1>4. ASSUME NEW c \in Calls, CreateTemp(c) PROVE OwnsTemp'
  <2>1. CASE ~Taken(c) /\ Opens(c, c)
    <3>1. /\ temps' = temps \cup {<<name[c], c>>} /\ fd' = [fd EXCEPT ![c] = c]
          /\ data' = [data EXCEPT ![c] = "partial"]
          /\ pc' = [pc EXCEPT ![c] = "write"] /\ name' = name
      BY <1>4, <2>1 DEF CreateTemp, Opens
    <3>2. \A t \in temps : t[1] # name[c]
      BY <2>1 DEF Taken
    <3>3. \A d \in Calls \ {c} : pc[d] \in {"write", "link", "remove"} =>
                                    name[d] # name[c]
      BY <3>2
    <3> QED BY <3>1, <3>2, <3>3
  <2>2. CASE ~(~Taken(c) /\ Opens(c, c))
    BY <1>4, <2>2 DEF CreateTemp
  <2> QED BY <2>1, <2>2
<1>5. ASSUME NEW c \in Calls, WriteKey(c) PROVE OwnsTemp'
  <2>1. fd[c] = c /\ c \in Keys
    BY <1>5 DEF WriteKey, Keys
  <2>2. /\ UNCHANGED <<name, fd, temps>> /\ pc[c] = "write"
        /\ \A d \in Calls \ {c} : pc'[d] = pc[d] /\ data'[d] = data[d]
        /\ \/ pc'[c] = "link" /\ data'[c] = c
           \/ pc'[c] = "remove"
    BY <1>5, <2>1 DEF WriteKey, Keys
  <2> QED BY <2>2
<1>6. ASSUME NEW c \in Calls, Publish(c) PROVE OwnsTemp'
  BY <1>6 DEF Publish
<1>7. ASSUME NEW c \in Calls, RemoveTemp(c) PROVE OwnsTemp'
  <2>1. /\ pc[c] = "remove" /\ \A d \in Calls \ {c} : pc'[d] = pc[d]
        /\ pc'[c] \in {"done", "metadata"}
        /\ UNCHANGED <<name, fd, data>>
        /\ temps' \subseteq temps
        /\ \A t \in temps : t[1] # name[c] => t \in temps'
    BY <1>7 DEF RemoveTemp, AfterRemove
  <2> QED BY <2>1
<1>8. ASSUME NEW n \in Nodes, Restart(n) PROVE OwnsTemp'
  BY <1>8 DEF Restart
<1>9. CASE UNCHANGED vars
  BY <1>9 DEF vars
<1> QED BY NextCases, <1>1, <1>2, <1>3, <1>4, <1>5, <1>6, <1>7, <1>8, <1>9

\* The published inode is never written again.
LEMMA NextPublished == FileInv /\ [Next]_vars => PublishedInv'
<1> SUFFICES ASSUME TypeOK, OwnsTemp, PublishedInv, [Next]_vars
             PROVE  PublishedInv'
  BY DEF FileInv
<1> USE DEF TypeOK, PublishedInv, Goes, Returns, nodeVars, callVars, diskVars,
            InProgress
<1>1. ASSUME NEW c \in Calls, NEW n \in Nodes, LoadOrCreate(c, n)
      PROVE  PublishedInv'
  BY <1>1 DEF LoadOrCreate
<1>2. ASSUME NEW c \in Calls, Metadata(c) \/ Read(c) \/ CreateDir(c)
      PROVE  PublishedInv'
  <2>1. /\ UNCHANGED <<file, data, linked>>
        /\ pc[c] \in {"metadata", "read", "mkdir"}
        /\ \A d \in Calls \ {c} : pc'[d] = pc[d] /\ answer'[d] = answer[d]
        /\ \/ pc'[c] = "done"
           \/ pc'[c] = "read" /\ answer' = answer
           \/ pc'[c] = "name" /\ pc[c] = "mkdir" /\ answer' = answer
    <3>1. CASE Metadata(c)
      BY <3>1 DEF Metadata
    <3>2. CASE Read(c)
      BY <3>2 DEF Read
    <3>3. CASE CreateDir(c)
      BY <3>3 DEF CreateDir
    <3> QED BY <1>2, <3>1, <3>2, <3>3
  <2> QED BY <2>1
<1>3. ASSUME NEW c \in Calls, TempPath(c) PROVE PublishedInv'
  BY <1>3 DEF TempPath
<1>4. ASSUME NEW c \in Calls, CreateTemp(c) PROVE PublishedInv'
  <2>1. file # c /\ c \in Keys
    BY <1>4 DEF CreateTemp, Keys
  <2>2. CASE ~Taken(c) /\ Opens(c, c)
    BY <1>4, <2>1, <2>2 DEF CreateTemp, Opens
  <2>3. CASE ~(~Taken(c) /\ Opens(c, c))
    <3>1. /\ UNCHANGED <<file, data, linked>> /\ pc'[c] \in {"refused", "done"}
          /\ \A d \in Calls \ {c} : pc'[d] = pc[d] /\ answer'[d] = answer[d]
      BY <1>4, <2>3 DEF CreateTemp
    <3> QED BY <2>1, <3>1
  <2> QED BY <2>2, <2>3
<1>5. ASSUME NEW c \in Calls, WriteKey(c) PROVE PublishedInv'
  <2>1. file # c /\ fd[c] = c /\ c \in Keys
    BY <1>5 DEF WriteKey, Keys, OwnsTemp
  <2>2. /\ UNCHANGED <<file, answer>> /\ pc[c] = "write"
        /\ \A d \in Calls \ {c} : /\ pc'[d] = pc[d] /\ data'[d] = data[d]
                                   /\ linked'[d] = linked[d]
        /\ pc'[c] = "link" \/ (pc'[c] = "remove" /\ linked'[c] = "failed")
    <3>1. CASE data' = data
      BY <1>5, <3>1 DEF WriteKey
    <3>2. CASE data' # data
      BY <1>5, <2>1, <3>2 DEF WriteKey, Keys
    <3> QED BY <3>1, <3>2
  <2> QED BY <2>1, <2>2
<1>6. ASSUME NEW c \in Calls, Publish(c) PROVE PublishedInv'
  <2>1. /\ fd[c] = c /\ data[c] = c /\ file # c /\ NoFile \notin Calls
        /\ pc[c] = "link" /\ pc' = [pc EXCEPT ![c] = "remove"]
        /\ UNCHANGED <<data, answer>>
        /\ \A d \in Calls \ {c} : linked'[d] = linked[d]
    <3>1. pc[c] = "link" /\ fd[c] = c /\ data[c] = c /\ file # c
      BY <1>6 DEF Publish, OwnsTemp
    <3>2. /\ pc' = [pc EXCEPT ![c] = "remove"] /\ UNCHANGED <<data, answer>>
          /\ \A d \in Calls \ {c} : linked'[d] = linked[d]
      BY <1>6 DEF Publish
    <3> QED BY <3>1, <3>2, PathAssumption
  <2>2. CASE file' = c /\ file = NoFile
    BY <2>1, <2>2
  <2>3. CASE file' = file /\ linked'[c] # "ok"
    BY <2>1, <2>3
  <2> QED BY <1>6, <2>1, <2>2, <2>3 DEF Publish
<1>7. ASSUME NEW c \in Calls, RemoveTemp(c) PROVE PublishedInv'
  <2>1. /\ pc[c] = "remove" /\ \A d \in Calls \ {c} : pc'[d] = pc[d]
                                                  /\ answer'[d] = answer[d]
        /\ pc'[c] = "done" \/ (pc'[c] = "metadata" /\ answer'[c] = answer[c])
        /\ UNCHANGED <<file, data, linked>>
    BY <1>7 DEF RemoveTemp, AfterRemove
  <2> QED BY <2>1
<1>8. ASSUME NEW n \in Nodes, Restart(n) PROVE PublishedInv'
  BY <1>8 DEF Restart
<1>9. CASE UNCHANGED vars
  BY <1>9 DEF vars
<1> QED BY NextCases, <1>1, <1>2, <1>3, <1>4, <1>5, <1>6, <1>7, <1>8, <1>9

\* A node's incarnation never gives one sequence number to two calls: fetch_add
\* passes every number it has given, and a restart begins another incarnation.
LEMMA NextNames == FileInv /\ [Next]_vars => NamesInv'
<1> SUFFICES ASSUME TypeOK, NamesInv, [Next]_vars PROVE NamesInv'
  BY DEF FileInv
<1> USE EmptyTuple DEF NamesInv, InProgress
<1>0. /\ pc \in [Calls -> InProgress \cup {"idle", "refused", "done", "crashed"}]
      /\ era \in [Nodes -> Nat] /\ counter \in [Nodes -> Nat]
      /\ name \in [Calls -> Names \cup {<<>>}]
      /\ node \in [Calls -> Eras \cup {<<>>}]
      /\ \A c \in Calls : pc[c] # "idle" => /\ node[c] \in Eras
                                            /\ node[c][1] \in Nodes
                                            /\ node[c][2] \in Nat
  <2>1. 0..MaxRestarts \subseteq Nat
    BY PathAssumption
  <2>2. era \in [Nodes -> Nat]
    BY <2>1 DEF TypeOK
  <2>3. \A e \in Eras : e[1] \in Nodes /\ e[2] \in Nat
    BY <2>1 DEF Eras
  <2> QED BY <2>2, <2>3 DEF TypeOK
<1>1. ASSUME NEW c \in Calls, NEW n \in Nodes, LoadOrCreate(c, n)
      PROVE  NamesInv'
  <2>1. <<n, era[n]>> \in Eras
    BY DEF Eras, TypeOK
  <2>2. /\ UNCHANGED <<name, era, counter>> /\ pc[c] = "idle"
        /\ node' = [node EXCEPT ![c] = <<n, era[n]>>]
        /\ pc'[c] \in {"metadata", "mkdir"}
        /\ \A d \in Calls \ {c} : pc'[d] = pc[d]
    BY <1>0, <1>1 DEF LoadOrCreate, Goes, nodeVars
  <2>3. node'[c] = <<n, era[n]>> /\ node'[c] # <<>> /\ name'[c] = <<>>
        /\ \A d \in Calls \ {c} : node'[d] = node[d]
    BY <1>0, <2>1, <2>2
  <2> QED BY <1>0, <2>2, <2>3
<1>2. ASSUME NEW c \in Calls,
             \/ Metadata(c) \/ Read(c) \/ CreateDir(c)
             \/ CreateTemp(c) \/ WriteKey(c) \/ Publish(c) \/ RemoveTemp(c)
      PROVE  NamesInv'
  <2>1. /\ UNCHANGED <<name, node, era, counter>>
        /\ pc[c] \in InProgress
        /\ \A d \in Calls \ {c} : pc'[d] = pc[d]
        /\ \/ pc'[c] \in {"read", "done", "metadata"}
           \/ pc'[c] = "name" /\ pc[c] = "mkdir"
           \/ /\ pc'[c] \in {"refused", "write", "link", "remove"}
              /\ pc[c] \in {"create", "write", "link"}
    <3> USE <1>0 DEF Goes, Returns, nodeVars, callVars
    <3>1. CASE Metadata(c)
      BY <3>1 DEF Metadata
    <3>2. CASE Read(c)
      BY <3>2 DEF Read
    <3>3. CASE CreateDir(c)
      BY <3>3 DEF CreateDir
    <3>4. CASE CreateTemp(c)
      BY <3>4 DEF CreateTemp, Opens
    <3>5. CASE WriteKey(c)
      BY <3>5 DEF WriteKey
    <3>6. CASE Publish(c)
      BY <3>6 DEF Publish
    <3>7. CASE RemoveTemp(c)
      BY <3>7 DEF RemoveTemp, AfterRemove
    <3> QED BY <1>2, <3>1, <3>2, <3>3, <3>4, <3>5, <3>6, <3>7
  <2> QED BY <1>0, <2>1
<1>3. ASSUME NEW c \in Calls, TempPath(c) PROVE NamesInv'
  <2> DEFINE n == node[c][1]
  <2>1. /\ pc[c] = "name" /\ n \in Nodes /\ node[c][2] = era[n]
        /\ counter[n] \in Nat /\ name[c] = <<>>
    BY <1>0, <1>3 DEF TempPath
  <2>2. <<pid[n], counter[n]>> \in Names
    BY <2>1 DEF Names, TypeOK
  <2>3. /\ UNCHANGED <<node, era>>
        /\ pc'[c] = "create" /\ \A d \in Calls \ {c} : pc'[d] = pc[d]
        /\ name'[c] = <<pid[n], counter[n]>>
        /\ \A d \in Calls \ {c} : name'[d] = name[d]
        /\ counter'[n] = counter[n] + 1
        /\ \A m \in Nodes \ {n} : counter'[m] = counter[m]
    BY <1>0, <1>3, <2>1 DEF TempPath, Goes
  <2>4. name'[c][2] = counter[n] /\ name'[c] \in Names
    BY <2>2, <2>3
  <2>5. \A d \in Calls \ {c} : name[d] # <<>> =>
          /\ pc[d] # "idle" /\ node[d][1] \in Nodes /\ name[d][2] \in Nat
    BY <1>0 DEF Names
  <2>6. \A d \in Calls \ {c} : name[d] # <<>> /\ node[d] = node[c] =>
          name[d][2] < counter[n]
    BY <2>1, <2>5
  <2>7. \A d \in Calls \ {c} :
          name'[d] # <<>> /\ node'[d][2] = era'[node'[d][1]] =>
            name'[d][2] < counter'[node'[d][1]]
    BY <1>0, <2>1, <2>3, <2>5
  <2>8. \A d \in Calls :
          name'[d] # <<>> /\ node'[d][2] = era'[node'[d][1]] =>
            name'[d][2] < counter'[node'[d][1]]
    BY <2>1, <2>3, <2>4, <2>7
  <2>9. \A d \in Calls :
          /\ pc'[d] = "idle" <=> node'[d] = <<>>
          /\ pc'[d] \in {"idle", "mkdir", "name"} => name'[d] = <<>>
          /\ pc'[d] \in {"create", "refused", "write", "link", "remove"} =>
               name'[d] \in Names
          /\ pc'[d] # "idle" => node'[d][2] <= era'[node'[d][1]]
          /\ pc'[d] \in InProgress => node'[d][2] = era'[node'[d][1]]
    BY <2>1, <2>3, <2>4
  <2>10. \A d, e \in Calls :
           d # e /\ name'[d] # <<>> /\ name'[e] # <<>> /\ node'[d] = node'[e] =>
             name'[d][2] # name'[e][2]
    <3> SUFFICES ASSUME NEW d \in Calls, NEW e \in Calls, d # e,
                        name'[d] # <<>>, name'[e] # <<>>, node[d] = node[e]
                 PROVE  name'[d][2] # name'[e][2]
      BY <2>3
    <3>1. CASE d = c
      BY <2>1, <2>3, <2>4, <2>5, <2>6, <3>1
    <3>2. CASE e = c
      BY <2>1, <2>3, <2>4, <2>5, <2>6, <3>2
    <3>3. CASE d # c /\ e # c
      BY <2>3, <3>3
    <3> QED BY <3>1, <3>2, <3>3
  <2> QED BY <2>8, <2>9, <2>10
<1>4. ASSUME NEW n \in Nodes, Restart(n) PROVE NamesInv'
  <2>1. /\ UNCHANGED <<node, name>>
        /\ era'[n] = era[n] + 1 /\ \A m \in Nodes \ {n} : era'[m] = era[m]
        /\ \A m \in Nodes \ {n} : counter'[m] = counter[m]
        /\ \A c \in Calls : pc'[c] = IF pc[c] \in InProgress /\ node[c][1] = n
                                     THEN "crashed" ELSE pc[c]
    BY <1>0, <1>4 DEF Restart, callVars
  <2>2. \A c \in Calls : node[c] # <<>> /\ node[c][1] = n => node[c][2] < era'[n]
    BY <1>0, <2>1
  <2>3. \A c \in Calls : pc'[c] # "idle" => node'[c][2] <= era'[node'[c][1]]
    BY <1>0, <2>1, <2>2
  <2>4. \A c \in Calls : name[c] # <<>> => pc[c] # "idle"
    OBVIOUS
  <2>5. \A c \in Calls : name[c] # <<>> /\ node'[c][2] = era'[node'[c][1]] =>
          name'[c][2] < counter'[node'[c][1]]
    BY <1>0, <2>1, <2>2, <2>4
  <2> QED BY <1>0, <2>1, <2>3, <2>5
<1>5. CASE UNCHANGED vars
  BY <1>5 DEF vars, nodeVars, callVars
<1> QED BY NextCases, <1>1, <1>2, <1>3, <1>4, <1>5

\* FileInv is an inductive invariant of load_or_create: whatever the
\* interleaving and the crashes, a call between create_new and remove_file owns
\* its temporary file, and the published inode is complete and no longer written.
THEOREM FileInvariant == Spec => []FileInv
<1>1. FileInv /\ [Next]_vars => FileInv'
  BY NextType, NextOwns, NextPublished, NextNames DEF FileInv
<1> QED BY InitFile, <1>1, PTL DEF Spec

\* A leftover temporary file refuses at most one call of each incarnation of a
\* node: the sequence numbers of temp_path are never given twice.
THEOREM LeftoverNeverLocks == Spec => []LeftoverRefusesOnce
<1>1. FileInv => LeftoverRefusesOnce
  BY EmptyTuple DEF FileInv, NamesInv, LeftoverRefusesOnce
<1> QED BY FileInvariant, <1>1, PTL

\* Wherever a call returns, with its own key, the winner's or an error, it has
\* removed its temporary file or remove_file has failed on it.
THEOREM NoKeyIsLeft == Spec => []NoKeyLeftBehind
<1>1. Init => NoKeyLeftBehind
  BY DEF Init, NoKeyLeftBehind
<1>2. FileInv /\ NoKeyLeftBehind /\ [Next]_vars => NoKeyLeftBehind'
  <2> SUFFICES ASSUME TypeOK, NamesInv, NoKeyLeftBehind, [Next]_vars
               PROVE  NoKeyLeftBehind'
    BY DEF FileInv
  <2> USE DEF TypeOK, NoKeyLeftBehind, Goes, Returns, nodeVars, callVars, diskVars
  <2>1. ASSUME NEW c \in Calls, NEW n \in Nodes, LoadOrCreate(c, n)
        PROVE  NoKeyLeftBehind'
    BY <2>1 DEF LoadOrCreate
  <2>2. ASSUME NEW c \in Calls, Metadata(c) \/ Read(c) \/ CreateDir(c)
        PROVE  NoKeyLeftBehind'
    BY <2>2 DEF Metadata, Read, CreateDir
  <2>3. ASSUME NEW c \in Calls, TempPath(c) PROVE NoKeyLeftBehind'
    BY <2>3 DEF TempPath
  <2>4. ASSUME NEW c \in Calls, CreateTemp(c) PROVE NoKeyLeftBehind'
    <3>1. CASE ~Taken(c) /\ Opens(c, c)
      <4>1. /\ temps' = temps \cup {<<name[c], c>>} /\ UNCHANGED <<stuck, name>>
            /\ pc'[c] = "write" /\ \A d \in Calls \ {c} : pc'[d] = pc[d]
        BY <2>4, <3>1 DEF CreateTemp, Opens
      <4>2. pc[c] = "create"
        BY <2>4 DEF CreateTemp
      <4>3. \A t \in temps' : t \in temps \/ t[1] = name[c]
        BY <4>1
      <4>4. ASSUME NEW t \in temps', t[1] = name[c] \/ t \in temps
            PROVE  \/ t[1] \in stuck'
                   \/ \E d \in Calls : /\ name'[d] = t[1]
                                       /\ pc'[d] \in {"write", "link", "remove",
                                                       "crashed"}
        <5>1. CASE t[1] = name[c]
          BY <4>1, <5>1
        <5>2. CASE t \in temps
          BY <4>1, <4>2, <5>2
        <5> QED BY <4>4, <5>1, <5>2
      <4> QED BY <4>3, <4>4
    <3>2. CASE ~(~Taken(c) /\ Opens(c, c))
      BY <2>4, <3>2 DEF CreateTemp
    <3> QED BY <3>1, <3>2
  <2>5. ASSUME NEW c \in Calls, WriteKey(c) \/ Publish(c)
        PROVE  NoKeyLeftBehind'
    <3>1. /\ UNCHANGED <<temps, stuck, name>> /\ pc'[c] \in {"link", "remove"}
          /\ \A d \in Calls \ {c} : pc'[d] = pc[d]
      BY <2>5 DEF WriteKey, Publish
    <3> QED BY <3>1
  <2>6. ASSUME NEW c \in Calls, RemoveTemp(c) PROVE NoKeyLeftBehind'
    <3>1. /\ UNCHANGED name /\ \A d \in Calls \ {c} : pc'[d] = pc[d]
          /\ temps' \subseteq temps /\ stuck \subseteq stuck'
          /\ \A t \in temps' : t[1] = name[c] => t[1] \in stuck'
      BY <2>6 DEF RemoveTemp, AfterRemove
    <3> QED BY <3>1
  <2>7. ASSUME NEW n \in Nodes, Restart(n) PROVE NoKeyLeftBehind'
    <3>1. /\ UNCHANGED <<temps, stuck, name>>
          /\ \A c \in Calls : pc'[c] = pc[c] \/ pc'[c] = "crashed"
      BY <2>7 DEF Restart
    <3> QED BY <3>1
  <2>8. CASE UNCHANGED vars
    BY <2>8 DEF vars
  <2> QED BY NextCases, <2>1, <2>2, <2>3, <2>4, <2>5, <2>6, <2>7, <2>8
<1> QED BY FileInvariant, <1>1, <1>2, PTL DEF Spec

\* load_or_create implements IdentityPromise, step by step: hard_link publishes
\* one complete key on an absent path, a return answers with the key in the file
\* or with an error, and every other system call leaves the promise unchanged.
THEOREM LoadOrCreateKeepsPromise == Spec => ImplementsPromise
<1>1. Init => Promise!Init
  <2> SUFFICES ASSUME Init PROVE Promise!Init
    OBVIOUS
  <2>1. identity \in {"absent", "corrupt", Prior}
    BY PathAssumption DEF Init, identity, Keys
  <2> QED BY <2>1 DEF Init, Promise!Init
<1>2. FileInv /\ FileInv' /\ [Next]_vars => [Promise!Next]_<<identity, answer>>
  <2> SUFFICES ASSUME TypeOK, OwnsTemp, PublishedInv, TypeOK', [Next]_vars
               PROVE  Promise!Next \/ UNCHANGED <<identity, answer>>
    BY DEF FileInv
  <2> USE DEF Goes, Returns, nodeVars, callVars, diskVars
  <2>0. NoFile \notin Keys
    BY PathAssumption DEF Keys
  <2>1. ASSUME NEW c \in Calls, answer[c] = "none", UNCHANGED <<file, data>>,
               NEW a \in {"error"} \cup (IF KeySized THEN {data[file]} ELSE {}),
               answer' = [answer EXCEPT ![c] = a]
        PROVE  Promise!Next
    <3>1. identity' = identity
      BY <2>1 DEF identity
    <3>2. a \in {identity, "error"} \ {"absent", "corrupt"}
      BY PathAssumption DEF identity, KeySized, Keys
    <3> QED BY <2>1, <3>1, <3>2 DEF Promise!Next, Promise!Answer
  <2>2. ASSUME NEW c \in Calls, NEW n \in Nodes, LoadOrCreate(c, n)
        PROVE  UNCHANGED <<identity, answer>>
    BY <2>2 DEF LoadOrCreate, identity
  <2>3. ASSUME NEW c \in Calls, Metadata(c) \/ Read(c) \/ CreateDir(c)
        PROVE  Promise!Next \/ UNCHANGED <<identity, answer>>
    <3>1. /\ UNCHANGED <<file, data>> /\ answer[c] = "none"
          /\ \/ UNCHANGED answer
             \/ \E a \in {"error"} \cup (IF KeySized THEN {data[file]} ELSE {}) :
                  answer' = [answer EXCEPT ![c] = a]
      <4>1. answer[c] = "none"
        BY <2>3 DEF Metadata, Read, CreateDir, PublishedInv, InProgress
      <4>2. CASE Metadata(c) \/ CreateDir(c)
        BY <4>1, <4>2 DEF Metadata, CreateDir
      <4>3. CASE Read(c)
        BY <4>1, <4>3 DEF Read
      <4> QED BY <2>3, <4>2, <4>3
    <3> QED BY <2>1, <3>1 DEF identity
  <2>4. ASSUME NEW c \in Calls, TempPath(c) PROVE UNCHANGED <<identity, answer>>
    BY <2>4 DEF TempPath, identity
  <2>5. ASSUME NEW c \in Calls, CreateTemp(c)
        PROVE  Promise!Next \/ UNCHANGED <<identity, answer>>
    <3>1. answer[c] = "none" /\ file # c
      BY <2>5 DEF CreateTemp, PublishedInv, InProgress
    <3>2. CASE ~Taken(c) /\ Opens(c, c)
      <4>1. file' = file /\ answer' = answer /\ data' = [data EXCEPT ![c] = "partial"]
        BY <3>2 DEF Opens
      <4> QED BY <3>1, <4>1 DEF identity, TypeOK
    <3>3. CASE ~(~Taken(c) /\ Opens(c, c))
      <4>1. UNCHANGED <<file, data>> /\ answer' = [answer EXCEPT ![c] = "error"]
        BY <2>5, <3>3 DEF CreateTemp
      <4> QED BY <2>1, <3>1, <4>1
    <3> QED BY <3>2, <3>3
  <2>6. ASSUME NEW c \in Calls, WriteKey(c) PROVE UNCHANGED <<identity, answer>>
    <3>1. file # c /\ fd[c] = c
      BY <2>6 DEF WriteKey, PublishedInv, OwnsTemp
    <3>2. /\ file' = file /\ answer' = answer
          /\ data' = data \/ data' = [data EXCEPT ![c] = c]
      BY <2>6, <3>1 DEF WriteKey
    <3> QED BY <3>1, <3>2 DEF identity, TypeOK
  <2>7. ASSUME NEW c \in Calls, Publish(c)
        PROVE  Promise!Next \/ UNCHANGED <<identity, answer>>
    <3>1. fd[c] = c /\ data[c] = c /\ answer[c] = "none"
      BY <2>7 DEF Publish, OwnsTemp, PublishedInv, InProgress
    <3>2. UNCHANGED <<data, answer>>
      BY <2>7 DEF Publish
    <3>3. CASE file = NoFile /\ file' = c
      <4>1. identity = "absent" /\ identity' = c
        BY <2>0, <3>1, <3>2, <3>3 DEF identity, Keys
      <4> QED BY <3>1, <3>2, <4>1 DEF Promise!Next, Promise!Publish
    <3>4. CASE file' = file
      BY <3>2, <3>4 DEF identity
    <3> QED BY <2>7, <3>1, <3>3, <3>4 DEF Publish
  <2>8. ASSUME NEW c \in Calls, RemoveTemp(c)
        PROVE  Promise!Next \/ UNCHANGED <<identity, answer>>
    <3>1. /\ UNCHANGED <<file, data>> /\ answer[c] = "none"
          /\ linked[c] = "ok" => file = c
      BY <2>8 DEF RemoveTemp, PublishedInv, InProgress
    <3>2. linked[c] = "ok" => KeySized /\ data[file] = c
      BY <2>0, <3>1 DEF KeySized, PublishedInv, Keys
    <3>3. \/ UNCHANGED answer
          \/ \E a \in {"error"} \cup (IF KeySized THEN {data[file]} ELSE {}) :
               answer' = [answer EXCEPT ![c] = a]
      BY <2>8, <3>2 DEF RemoveTemp, AfterRemove
    <3> QED BY <2>1, <3>1, <3>3 DEF identity
  <2>9. ASSUME NEW n \in Nodes, Restart(n) PROVE UNCHANGED <<identity, answer>>
    BY <2>9 DEF Restart, identity
  <2>10. CASE UNCHANGED vars
    BY <2>10 DEF vars, identity
  <2> QED
    BY NextCases, <2>2, <2>3, <2>4, <2>5, <2>6, <2>7, <2>8, <2>9, <2>10
<1> QED
  BY FileInvariant, <1>1, <1>2, PTL DEF Spec, ImplementsPromise, Promise!Spec
==============================================================================
