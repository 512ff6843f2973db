---------------------------- MODULE IdentityFile ----------------------------
(***************************************************************************)
(* identity_load_or_create on one path, from several BEAM nodes that share *)
(* the directory: the existence check, read_key, and create_identity with  *)
(* its temporary file and hard_link publication, one step per system call. *)
(*                                                                         *)
(* Files are inodes: hard_link gives the path a second name of the         *)
(* temporary file's inode, so that a leftover temporary file may be the    *)
(* published identity itself.  A node may crash between any two system     *)
(* calls and come back with the same or another OS pid; nodes in different *)
(* containers may have the same pid at once.  The key that call c          *)
(* generates, and the inode it creates, are named c.                       *)
(***************************************************************************)
EXTENDS Naturals

CONSTANTS
  Calls,       \* calls of load_or_create (each runs once)
  Nodes,       \* BEAM nodes
  Pids,        \* OS process ids
  MaxRestarts, \* bound on the restarts of a node
  Prior,       \* a key published before, by somebody else
  NoFile

ASSUME PathAssumption ==
  /\ MaxRestarts \in Nat
  /\ {Prior, NoFile} \cap Calls = {} /\ Prior # NoFile
  /\ \A c \in Calls \cup {Prior, NoFile} :
       c \notin {"none", "error", "absent", "corrupt", "partial"}

VARIABLES
  pid,      \* std::process::id() of each node
  counter,  \* TEMP_COUNTER of each node
  era,      \* how often a node has restarted
  pc,       \* where each call is
  node,     \* the node, and the era of it, a call runs in
  name,     \* the temporary name a call chose, <<pid, sequence>>
  fd,       \* the inode a call has open
  linked,   \* what hard_link said
  file,     \* the inode at the path
  temps,    \* the temporary names in the directory, each with its inode
  data,     \* the content of every inode
  stuck,    \* names that remove_file failed to remove
  answer    \* what each call has returned

nodeVars == <<pid, counter, era>>
callVars == <<node, name, fd, linked>>
diskVars == <<file, temps, data, stuck>>
vars == <<nodeVars, pc, callVars, diskVars, answer>>

Keys == Calls \cup {Prior}
Eras == Nodes \X (0..MaxRestarts)
Names == Pids \X Nat
InProgress ==
  {"metadata", "read", "mkdir", "name", "create", "write", "link", "remove"}

\* Every variable has its type.
TypeOK ==
  /\ pid \in [Nodes -> Pids] /\ counter \in [Nodes -> Nat]
  /\ era \in [Nodes -> 0..MaxRestarts]
  /\ pc \in [Calls -> InProgress \cup {"idle", "refused", "done", "crashed"}]
  /\ node \in [Calls -> Eras \cup {<<>>}]
  /\ name \in [Calls -> Names \cup {<<>>}]
  /\ fd \in [Calls -> Calls \cup {NoFile}]
  /\ linked \in [Calls -> {"none", "ok", "exists", "failed"}]
  /\ file \in Keys \cup {NoFile}
  /\ temps \subseteq Names \X Calls
  /\ data \in [Keys -> Keys \cup {"partial", "corrupt"}]
  /\ stuck \subseteq Names
  /\ answer \in [Calls -> Keys \cup {"none", "error"}]

\* The path holds nothing, a valid key, or something that is no key.
Init ==
  /\ pid \in [Nodes -> Pids]
  /\ counter = [n \in Nodes |-> 0] /\ era = [n \in Nodes |-> 0]
  /\ pc = [c \in Calls |-> "idle"]
  /\ node = [c \in Calls |-> <<>>] /\ name = [c \in Calls |-> <<>>]
  /\ fd = [c \in Calls |-> NoFile] /\ linked = [c \in Calls |-> "none"]
  /\ file \in {NoFile, Prior}
  /\ temps = {} /\ stuck = {}
  /\ \E d \in {Prior, "corrupt"} :
       data = [k \in Keys |-> IF k = Prior THEN d ELSE "partial"]
  /\ answer = [c \in Calls |-> "none"]
------------------------------------------------------------------------------
Goes(c, to) == pc' = [pc EXCEPT ![c] = to]

Returns(c, a) == Goes(c, "done") /\ answer' = [answer EXCEPT ![c] = a]

\* path.exists() decides between read_key and create_identity.
LoadOrCreate(c, n) ==
  /\ pc[c] = "idle"
  /\ node' = [node EXCEPT ![c] = <<n, era[n]>>]
  /\ Goes(c, IF file # NoFile THEN "metadata" ELSE "mkdir")
  /\ UNCHANGED <<nodeVars, name, fd, linked, diskVars, answer>>

\* The file can be read and holds KEY_SIZE bytes, which always are a key.
KeySized == file # NoFile /\ data[file] \in Keys

\* read_key: the length is checked on the metadata ...
Metadata(c) ==
  /\ pc[c] = "metadata"
  /\ \/ KeySized /\ Goes(c, "read") /\ UNCHANGED answer
     \/ Returns(c, "error")
  /\ UNCHANGED <<nodeVars, callVars, diskVars>>

\* ... and again on the bytes.
Read(c) ==
  /\ pc[c] = "read"
  /\ \/ KeySized /\ Returns(c, data[file])
     \/ Returns(c, "error")
  /\ UNCHANGED <<nodeVars, callVars, diskVars>>

CreateDir(c) ==
  /\ pc[c] = "mkdir"
  /\ \/ Goes(c, "name") /\ UNCHANGED answer
     \/ Returns(c, "error")
  /\ UNCHANGED <<nodeVars, callVars, diskVars>>

\* Mutant: the name is the node's pid only.
TempPathPidOnly(c) ==
  LET n == node[c][1] IN
  /\ pc[c] = "name"
  /\ name' = [name EXCEPT ![c] = <<pid[n], 0>>]
  /\ Goes(c, "create")
  /\ UNCHANGED <<nodeVars, node, fd, linked, diskVars, answer>>

\* SecretKey::generate and temp_path, whose fetch_add takes the sequence number.
TempPath(c) ==
  LET n == node[c][1] IN
  /\ pc[c] = "name"
  /\ name' = [name EXCEPT ![c] = <<pid[n], counter[n]>>]
  /\ counter' = [counter EXCEPT ![n] = @ + 1]
  /\ Goes(c, "create")
  /\ UNCHANGED <<pid, era, node, fd, linked, diskVars, answer>>

Taken(c) == \E t \in temps : t[1] = name[c]

\* The name now stands for inode i, empty until it is written.
Opens(c, i) ==
  /\ temps' = temps \cup {<<name[c], i>>}
  /\ fd' = [fd EXCEPT ![c] = i]
  /\ data' = [data EXCEPT ![i] = "partial"]
  /\ Goes(c, "write")
  /\ UNCHANGED <<file, stuck, answer>>

\* Mutant: create(true).truncate(true) instead of create_new(true).
CreateTempTruncates(c) ==
  /\ pc[c] = "create"
  /\ \/ \E t \in temps : t[1] = name[c] /\ Opens(c, t[2])
     \/ ~Taken(c) /\ Opens(c, c)
  /\ UNCHANGED <<nodeVars, node, name, linked>>

\* create_temp: create_new refuses a name that is taken; any other failure has
\* the same answer.
CreateTemp(c) ==
  /\ pc[c] = "create"
  /\ \/ ~Taken(c) /\ Opens(c, c)
     \/ /\ Taken(c)
        /\ Goes(c, "refused") /\ answer' = [answer EXCEPT ![c] = "error"]
        /\ UNCHANGED <<fd, diskVars>>
     \/ Returns(c, "error") /\ UNCHANGED <<fd, diskVars>>
  /\ UNCHANGED <<nodeVars, node, name, linked>>

\* write_all and sync_all; a failure leaves the content partial.
WriteKey(c) ==
  /\ pc[c] = "write"
  /\ \/ /\ data' = [data EXCEPT ![fd[c]] = c]
        /\ Goes(c, "link") /\ UNCHANGED linked
     \/ /\ linked' = [linked EXCEPT ![c] = "failed"]
        /\ Goes(c, "remove") /\ UNCHANGED data
  /\ UNCHANGED <<nodeVars, node, name, fd, file, temps, stuck, answer>>

\* Mutant: rename instead of hard_link.
PublishByRename(c) ==
  /\ pc[c] = "link"
  /\ file' = fd[c]
  /\ linked' = [linked EXCEPT ![c] = "ok"]
  /\ Goes(c, "remove")
  /\ UNCHANGED <<nodeVars, node, name, fd, temps, data, stuck, answer>>

\* fs::hard_link publishes, unless the path exists.
Publish(c) ==
  /\ pc[c] = "link"
  /\ \/ file = NoFile /\ file' = fd[c] /\ linked' = [linked EXCEPT ![c] = "ok"]
     \/ /\ file # NoFile /\ linked' = [linked EXCEPT ![c] = "exists"]
        /\ UNCHANGED file
     \/ linked' = [linked EXCEPT ![c] = "failed"] /\ UNCHANGED file
  /\ Goes(c, "remove")
  /\ UNCHANGED <<nodeVars, node, name, fd, temps, data, stuck, answer>>

\* What create_identity does after the temporary file has been removed.
AfterRemove(c) ==
  \/ linked[c] = "ok" /\ Returns(c, c)
  \/ linked[c] = "exists" /\ Goes(c, "metadata") /\ UNCHANGED answer
  \/ linked[c] = "failed" /\ Returns(c, "error")

\* Mutant: the loser of the publication returns before the removal.
RemoveTempUnlessExists(c) ==
  /\ pc[c] = "remove"
  /\ AfterRemove(c)
  /\ temps' = IF linked[c] = "exists" THEN temps
              ELSE {t \in temps : t[1] # name[c]}
  /\ UNCHANGED <<nodeVars, callVars, file, data, stuck>>

\* remove_file, whose failure is ignored, on every path that created the file.
RemoveTemp(c) ==
  /\ pc[c] = "remove"
  /\ AfterRemove(c)
  /\ \/ temps' = {t \in temps : t[1] # name[c]} /\ UNCHANGED stuck
     \/ stuck' = stuck \cup {name[c]} /\ UNCHANGED temps
  /\ UNCHANGED <<nodeVars, callVars, file, data>>

\* The node and its calls die; it starts again with a fresh counter.
Restart(n) ==
  /\ era[n] < MaxRestarts
  /\ era' = [era EXCEPT ![n] = @ + 1]
  /\ counter' = [counter EXCEPT ![n] = 0]
  /\ \E p \in Pids : pid' = [pid EXCEPT ![n] = p]
  /\ pc' = [c \in Calls |->
              IF pc[c] \in InProgress /\ node[c][1] = n THEN "crashed" ELSE pc[c]]
  /\ UNCHANGED <<callVars, diskVars, answer>>

Next ==
  \/ \E c \in Calls :
       \/ \E n \in Nodes : LoadOrCreate(c, n)
       \/ Metadata(c) \/ Read(c) \/ CreateDir(c) \/ TempPath(c) \/ CreateTemp(c)
       \/ WriteKey(c) \/ Publish(c) \/ RemoveTemp(c)
  \/ \E n \in Nodes : Restart(n)

Spec == Init /\ [][Next]_vars
------------------------------------------------------------------------------
(* Properties *)

identity == IF file = NoFile THEN "absent" ELSE data[file]

\* load_or_create implements its promise: whatever the interleaving of the
\* creators and wherever a node crashes, the path goes from absent to one
\* complete key at most once, no later call truncates or replaces it through a
\* leftover name of its inode, and every key returned is the key in the file.
Promise == INSTANCE IdentityPromise
             WITH identity <- identity, answer <- answer
ImplementsPromise == Promise!Spec

\* A call that has created its temporary file owns it: it alone writes,
\* publishes and removes the file of that name, although nodes with equal pids
\* choose equal names.
OwnsTemp ==
  \A c \in Calls : pc[c] \in {"write", "link", "remove"} =>
    /\ fd[c] = c /\ <<name[c], c>> \in temps
    /\ \A t \in temps : t[1] = name[c] => t = <<name[c], c>>
    /\ pc[c] = "link" => data[c] = c
    /\ \A d \in Calls \ {c} :
         pc[d] \in {"write", "link", "remove"} => name[d] # name[c]

\* The published inode is complete and its call past the last write to it; a
\* call that is told "ok" by hard_link is the one that published; only a call
\* that has ended has an answer.
PublishedInv ==
  /\ file \in Calls =>
       /\ data[file] = file
       /\ pc[file] \in {"remove", "metadata", "read", "done", "crashed"}
  /\ \A c \in Calls : pc[c] = "remove" /\ linked[c] = "ok" => file = c
  /\ \A c \in Calls : pc[c] \in InProgress \cup {"idle"} => answer[c] = "none"

\* An incarnation of a node gives each of its calls another sequence number, and
\* a call in progress runs in the node's current incarnation.
NamesInv ==
  /\ \A c \in Calls :
       /\ pc[c] = "idle" <=> node[c] = <<>>
       /\ pc[c] \in {"idle", "mkdir", "name"} => name[c] = <<>>
       /\ pc[c] \in {"create", "refused", "write", "link", "remove"} =>
            name[c] \in Names
       /\ pc[c] # "idle" => node[c][2] <= era[node[c][1]]
       /\ pc[c] \in InProgress => node[c][2] = era[node[c][1]]
       /\ name[c] # <<>> /\ node[c][2] = era[node[c][1]] =>
            name[c][2] < counter[node[c][1]]
  /\ \A c, d \in Calls :
       c # d /\ name[c] # <<>> /\ name[d] # <<>> /\ node[c] = node[d] =>
         name[c][2] # name[d][2]

\* The inductive invariant of create_identity's files: complete keys are
\* published, by the one call that owns the temporary file.
FileInv == TypeOK /\ OwnsTemp /\ PublishedInv /\ NamesInv

\* No call that returned, whether with its own key, with the key of the winner
\* or with an error, leaves a copy of a private key behind: a temporary file is
\* in use, or was left by a crash or by a removal that failed.
NoKeyLeftBehind ==
  \A t \in temps :
    \/ t[1] \in stuck
    \/ \E c \in Calls : name[c] = t[1] /\ pc[c] \in {"write", "link", "remove",
                                                     "crashed"}

\* A leftover temporary file does not lock the path: it refuses at most one
\* call of each incarnation of a node, since the next one has another name.
LeftoverRefusesOnce ==
  \A c, d \in Calls :
    pc[c] = "refused" /\ pc[d] = "refused" /\ node[c] = node[d]
    /\ name[c] = name[d] => c = d
==============================================================================
