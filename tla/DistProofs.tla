------------------------------ MODULE DistProofs ------------------------------
(***************************************************************************)
(* Proofs of the safety properties of distribution: of starting and        *)
(* stopping it, for any number of processes that do so, and of the         *)
(* sessions with a peer, for any finite number of them.                    *)
(***************************************************************************)
EXTENDS DistStart, DistSession, SequenceTheorems, FiniteSetTheorems, TLAPS
------------------------------------------------------------------------------
(* Starting and stopping distribution *)

\* The next-state relation, one disjunct per action.
LEMMA StartNextCases ==
  ASSUME [StartNext]_startVars
  PROVE  \/ /\ raced' = (raced \/ Races')
            /\ \E p \in Procs :
                 \/ Start(p) \/ InstallGet(p) \/ InstallPut(p)
                 \/ NetKernelStart(p) \/ NetKernelFails(p) \/ Status(p)
                 \/ RollbackStop(p) \/ Uninstall(p) \/ Stop(p) \/ StopKernel(p)
                 \/ Dies(p)
         \/ UNCHANGED startVars
BY DEF StartNext

\* A node that runs is a record with both fields set.
LEMMA NodeShape ==
  ASSUME StartTypeOK, node # NoNode
  PROVE  /\ node.name \in Procs \cup {Early}
         /\ node.config \in Procs \cup {Early}
         /\ node = [name |-> node.name, config |-> node.config]
BY DEF StartTypeOK

\* A process's own node is a node.
LEMMA OwnNode ==
  ASSUME NEW p \in Procs \cup {Early}, NEW q \in Procs \cup {Early}
  PROVE  /\ [name |-> p, config |-> q] # NoNode
         /\ [name |-> p, config |-> q].name = p
         /\ [name |-> p, config |-> q].config = q
BY ProcsAssumption DEF NoNode

LEMMA InitStart == StartInit => StartInv
<1> SUFFICES ASSUME StartInit PROVE StartInv
  OBVIOUS
<1>1. StartTypeOK
  <2>1. pc \in [Procs -> Pcs] /\ term \in Procs \cup {Early, None}
    BY DEF StartInit, Pcs
  <2>2. node \in {NoNode} \cup [name : Procs \cup {Early},
                                config : Procs \cup {Early}]
    BY DEF StartInit
  <2>3. env \in BOOLEAN /\ raced \in BOOLEAN
    BY DEF StartInit
  <2> QED BY <2>1, <2>2, <2>3 DEF StartTypeOK
<1>3. LeftoverInv
  BY OwnNode DEF StartInit, LeftoverInv
<1>4. InstallInv
  BY OwnNode DEF StartInit, InstallInv
<1> QED BY <1>1, <1>3, <1>4 DEF StartInv

LEMMA NextType == StartTypeOK /\ [StartNext]_startVars => StartTypeOK'
<1> SUFFICES ASSUME StartTypeOK, [StartNext]_startVars PROVE StartTypeOK'
  OBVIOUS
<1> DEFINE Nodes == [name : Procs \cup {Early}, config : Procs \cup {Early}]
<1>1. ASSUME NEW p \in Procs,
             \/ Start(p) \/ InstallGet(p) \/ Status(p) \/ Stop(p) \/ Dies(p)
      PROVE  pc' \in [Procs -> Pcs] /\ UNCHANGED <<term, node, env>>
  BY <1>1 DEF StartTypeOK, Pcs, StartGoes, Start, InstallGet, Status, Stop, Dies
<1>2. ASSUME NEW p \in Procs, InstallPut(p) \/ Uninstall(p)
      PROVE  /\ pc' \in [Procs -> Pcs] /\ UNCHANGED <<node, env>>
             /\ term' \in Procs \cup {None}
  BY <1>2 DEF StartTypeOK, Pcs, StartGoes, InstallPut, Uninstall
<1>3. Load \in Procs \cup {Early, None}
  BY DEF StartTypeOK, Load
<1>4. ASSUME NEW p \in Procs, NetKernelStart(p)
      PROVE  /\ pc' \in [Procs -> Pcs] /\ UNCHANGED env
             /\ term' \in Procs \cup {Early, None} /\ node' \in Nodes
  BY <1>3, <1>4 DEF StartTypeOK, Pcs, StartGoes, NetKernelStart, CanLoad
<1>5. ASSUME NEW p \in Procs, NetKernelFails(p)
      PROVE  /\ pc' \in [Procs -> Pcs] /\ UNCHANGED <<node, env>>
             /\ term' \in Procs \cup {Early, None}
  BY <1>3, <1>5 DEF StartTypeOK, Pcs, StartGoes, NetKernelFails, Failed
<1>6. ASSUME NEW p \in Procs, RollbackStop(p) \/ StopKernel(p)
      PROVE  /\ pc' \in [Procs -> Pcs] /\ UNCHANGED <<term, env>>
             /\ node' \in {node, NoNode}
  BY <1>6 DEF StartTypeOK, Pcs, StartGoes, RollbackStop, StopKernel, Stopped
<1>7. raced' \in BOOLEAN
  <2>1. CASE raced' = (raced \/ Races')
    BY <2>1
  <2>2. CASE UNCHANGED startVars
    BY <2>2 DEF startVars, StartTypeOK
  <2> QED BY <2>1, <2>2, StartNextCases
<1>8. CASE UNCHANGED startVars
  BY <1>8 DEF startVars, StartTypeOK
<1> QED
  BY StartNextCases, <1>1, <1>2, <1>4, <1>5, <1>6, <1>7, <1>8 DEF StartTypeOK

LEMMA NextLeftover == StartInv /\ [StartNext]_startVars => LeftoverInv'
<1> SUFFICES ASSUME StartTypeOK, LeftoverInv, [StartNext]_startVars
             PROVE  LeftoverInv'
  BY DEF StartInv
<1> USE DEF LeftoverInv, StartTypeOK, StartGoes
<1>1. ASSUME NEW p \in Procs,
             \/ Start(p) \/ InstallGet(p) \/ Status(p) \/ Stop(p) \/ Dies(p)
      PROVE  LeftoverInv'
  BY <1>1 DEF Start, InstallGet, Status, Stop, Dies
<1>2. ASSUME NEW p \in Procs, InstallPut(p) \/ Uninstall(p) PROVE LeftoverInv'
  BY <1>2 DEF InstallPut, Uninstall
<1>3. ASSUME NEW p \in Procs, NetKernelStart(p) PROVE LeftoverInv'
  BY <1>3 DEF NetKernelStart
<1>4. ASSUME NEW p \in Procs, NetKernelFails(p) PROVE LeftoverInv'
  BY <1>4 DEF NetKernelFails, Failed
<1>5. ASSUME NEW p \in Procs, RollbackStop(p) PROVE LeftoverInv'
  BY <1>5 DEF RollbackStop
<1>6. ASSUME NEW p \in Procs, StopKernel(p) PROVE LeftoverInv'
  <2>1. CASE node = NoNode \/ node.name = Early
    <3>1. node' = node
      BY <1>6, <2>1 DEF StopKernel, Stopped
    <3> QED BY <1>6, <2>1, <3>1 DEF StopKernel
  <2>2. CASE ~(node = NoNode \/ node.name = Early)
    BY <1>6, <2>2 DEF StopKernel
  <2> QED BY <2>1, <2>2
<1>7. CASE UNCHANGED startVars
  BY <1>7 DEF startVars
<1> QED BY StartNextCases, <1>1, <1>2, <1>3, <1>4, <1>5, <1>6, <1>7

\* A step that does not race leaves the exclusion of starts and stops intact.
LEMMA NextInstall == StartInv /\ [StartNext]_startVars => InstallInv'
<1> SUFFICES ASSUME StartTypeOK, InstallInv, [StartNext]_startVars, ~raced'
             PROVE  InstallInv'
  BY DEF StartInv, InstallInv
<1>0. CASE UNCHANGED startVars
  BY <1>0 DEF startVars, InstallInv
<1> SUFFICES ASSUME NEW p \in Procs, raced' = (raced \/ Races'),
                    \/ Start(p) \/ InstallGet(p) \/ InstallPut(p)
                    \/ NetKernelStart(p) \/ NetKernelFails(p) \/ Status(p)
                    \/ RollbackStop(p) \/ Uninstall(p) \/ Stop(p)
                    \/ StopKernel(p) \/ Dies(p)
             PROVE  InstallInv'
  BY <1>0, StartNextCases
<1>a. ~raced /\ ~Races'
  OBVIOUS
<1>b. /\ \A q, r \in Procs : ~(q # r /\ pc'[q] = "put" /\ pc'[r] = "put")
      /\ \A q \in Procs : ~(pc'[q] = "status" /\ node' = NoNode)
  BY <1>a DEF Races
<1> USE <1>a DEF InstallInv, StartTypeOK, StartGoes
<1>1. CASE Start(p) \/ Stop(p) \/ Dies(p)
  BY <1>1 DEF Start, Stop, Dies
<1>2. CASE InstallGet(p)
  <2>1. CASE term = None
    <3>1. node = NoNode
      BY <2>1, NodeShape, ProcsAssumption
    <3>2. \A q \in Procs : pc[q] \notin {"kernel", "status", "uninstall"}
      BY <2>1, <3>1, OwnNode, ProcsAssumption
    <3> QED BY <1>2, <1>b, <2>1, <3>1, <3>2 DEF InstallGet
  <2>2. CASE term # None
    BY <1>2, <2>2 DEF InstallGet
  <2> QED BY <2>1, <2>2
<1>3. CASE InstallPut(p)
  BY <1>3 DEF InstallPut
<1>4. CASE NetKernelStart(p)
  <2>1. term = p /\ p # None
    BY <1>4, ProcsAssumption DEF NetKernelStart
  <2>2. Load = p
    BY <2>1 DEF Load
  <2>3. /\ node' = [name |-> p, config |-> p] /\ term' = p
        /\ pc[p] = "kernel" /\ pc' = [pc EXCEPT ![p] = "status"]
    BY <1>4, <2>2 DEF NetKernelStart
  <2>4. node'.name = p /\ node'.config = p
    BY <2>3
  <2> QED BY <2>3, <2>4
<1>5. CASE NetKernelFails(p)
  <2>1. term = p /\ p # None
    BY <1>5, ProcsAssumption DEF NetKernelFails
  <2>2. Load = p
    BY <2>1 DEF Load
  <2> QED BY <1>5, <2>1, <2>2 DEF NetKernelFails, Failed
<1>6. CASE Status(p)
  <2>1. node # NoNode
    BY <1>6, OwnNode DEF Status
  <2> QED BY <1>6, <2>1 DEF Status
<1>7. CASE RollbackStop(p)
  BY <1>7 DEF RollbackStop
<1>8. CASE Uninstall(p)
  BY <1>8 DEF Uninstall
<1>9. CASE StopKernel(p)
  <2>1. CASE node = NoNode \/ node.name = Early
    <3>1. node' = node
      BY <1>9, <2>1 DEF StopKernel, Stopped
    <3> QED BY <1>9, <2>1, <3>1 DEF StopKernel
  <2>2. CASE ~(node = NoNode \/ node.name = Early)
    <3>1. /\ node' = NoNode /\ term' = term
          /\ pc' = [pc EXCEPT ![p] = "uninstall"] /\ pc[p] = "stop"
      BY <1>9, <2>2 DEF StopKernel, Stopped
    <3>2. term # None
      BY <2>2, NodeShape, ProcsAssumption
    <3>3. \A q \in Procs : pc[q] \notin {"put", "kernel", "status", "uninstall"}
      BY <2>2, <3>1, <1>b
    <3> QED BY <3>1, <3>2, <3>3
  <2> QED BY <2>1, <2>2
<1> QED BY <1>1, <1>2, <1>3, <1>4, <1>5, <1>6, <1>7, <1>8, <1>9

\* The inductive invariant of start and stop holds in every behaviour: starts and
\* stops exclude each other unless one of the two races happened, and no
\* configuration is left to nobody.
THEOREM StartInvariant == StartSpec => []StartInv
<1>1. StartInv /\ [StartNext]_startVars => StartInv'
  <2> SUFFICES ASSUME StartInv, [StartNext]_startVars PROVE StartInv'
    OBVIOUS
  <2>1. StartTypeOK' /\ LeftoverInv' /\ InstallInv'
    BY NextType, NextLeftover, NextInstall DEF StartInv
  <2> QED BY <2>1 DEF StartInv
<1> QED BY InitStart, <1>1, PTL DEF StartSpec

\* A failed, rolled back or stopped start leaves no configuration behind, for any
\* number of concurrent starts and stops, unless a process died on the way.
THEOREM NoConfigurationLeft == StartSpec => []NothingLeftBehind
<1>1. StartInv => NothingLeftBehind
  BY DEF StartInv, LeftoverInv, NothingLeftBehind, Quiet
<1> QED BY <1>1, StartInvariant, PTL

\* A dynamic node can be stopped and runs with the configuration it was started
\* with, unless one of the two races of install and stop happened.
THEOREM NodeStoppable == StartSpec => []RunningIsStoppable
<1>1. StartInv => RunningIsStoppable
  <2> SUFFICES ASSUME StartInv, ~raced, node.name \in Procs
               PROVE  term = node.name /\ node.config = node.name
    BY DEF RunningIsStoppable
  <2>1. node # NoNode
    BY ProcsAssumption DEF NoNode
  <2> QED BY <2>1 DEF StartInv, InstallInv
<1> QED BY <1>1, StartInvariant, PTL

\* No late uninstall and no late put changes the configuration of a node that
\* runs, unless one of the two races of install and stop happened.
THEOREM ConfigurationFixed == StartSpec => ConfigurationImmutable
<1>1. StartInv /\ [StartNext]_startVars
        => [node # NoNode /\ node' = node /\ ~raced => term' = term]_startVars
  <2> SUFFICES ASSUME StartTypeOK, InstallInv, [StartNext]_startVars,
                      node # NoNode, node' = node, ~raced
               PROVE  term' = term
    BY DEF StartInv
  <2>1. \A p \in Procs : ~InstallPut(p) /\ ~Uninstall(p) /\ ~NetKernelStart(p)
    BY DEF InstallInv, InstallPut, Uninstall, NetKernelStart
  <2>2. \A p \in Procs : NetKernelFails(p) => term' = term
    BY DEF NetKernelFails
  <2>3. ASSUME NEW p \in Procs,
               \/ Start(p) \/ InstallGet(p) \/ Status(p) \/ RollbackStop(p)
               \/ Stop(p) \/ StopKernel(p) \/ Dies(p)
        PROVE  term' = term
    BY <2>3 DEF Start, InstallGet, Status, RollbackStop, Stop, StopKernel, Dies
  <2>4. CASE UNCHANGED startVars
    BY <2>4 DEF startVars
  <2> QED BY StartNextCases, <2>1, <2>2, <2>3, <2>4
<1> QED BY <1>1, StartInvariant, PTL DEF StartSpec, ConfigurationImmutable
------------------------------------------------------------------------------
(* The sessions with a peer *)

\* The states of a controller that ERTS has taken for the node.
Calls == {"registering", "running", "unregistering"}
Message == [what : Requests, from : Sessions \cup Loops]

\* A message is its kind and its sender.
LEMMA MsgShape ==
  ASSUME NEW m \in Message, NEW w, NEW s
  PROVE  m = Msg(w, s) <=> m.what = w /\ m.from = s
BY DEF Message, Msg

LEMMA BoxElement ==
  ASSUME TypeOK, NEW i \in 1..Len(box)
  PROVE  /\ box[i] \in Message
         /\ box[i].what \in Requests
         /\ box[i].from \in Sessions \cup Loops
<1>1. box \in Seq(Message)
  BY DEF TypeOK, Message
<1>2. box[i] \in Message
  BY <1>1
<1> QED BY <1>2 DEF Message

\* The mailbox after one more message ...
LEMMA BoxAppend ==
  ASSUME TypeOK, NEW m \in Message, box' = Append(box, m)
  PROVE  /\ Len(box) \in Nat /\ Len(box') = Len(box) + 1
         /\ \A i \in 1..Len(box) : box'[i] = box[i]
         /\ box'[Len(box) + 1] = m
         /\ box' \in Seq(Message)
BY DEF TypeOK, Message

\* ... and after the first one is handled.
LEMMA BoxTail ==
  ASSUME TypeOK, box # <<>>, box' = Tail(box)
  PROVE  /\ Len(box) \in Nat \ {0} /\ Len(box') = Len(box) - 1
         /\ \A i \in 1..Len(box') : i + 1 \in 1..Len(box) /\ box'[i] = box[i + 1]
         /\ Head(box) = box[1] /\ Head(box) \in Message
         /\ box' \in Seq(Message)
<1>1. box \in Seq(Message)
  BY DEF TypeOK, Message
<1> QED BY <1>1

\* What an append adds to the places of a message.
LEMMA PlacesAppend ==
  ASSUME TypeOK, NEW m \in Message, box' = Append(box, m), NEW w, NEW s
  PROVE  /\ m # Msg(w, s) => Places(w, s)' = Places(w, s)
         /\ m = Msg(w, s) => Places(w, s)' = Places(w, s) \cup {Len(box) + 1}
         /\ Len(box) + 1 \notin Places(w, s)
<1>1. /\ Len(box) \in Nat /\ Len(box') = Len(box) + 1
      /\ \A i \in 1..Len(box) : box'[i] = box[i]
      /\ box'[Len(box) + 1] = m
  BY BoxAppend
<1>2. 1..Len(box') = 1..Len(box) \cup {Len(box) + 1}
  BY <1>1
<1>3. Places(w, s)' = {i \in 1..Len(box) \cup {Len(box) + 1} : box'[i] = Msg(w, s)}
  BY <1>2 DEF Places, Msg
<1>4. Len(box) + 1 \notin 1..Len(box)
  BY <1>1
<1> QED BY <1>1, <1>3, <1>4 DEF Places

LEMMA WaitsAppend ==
  ASSUME TypeOK, NEW m \in Message, box' = Append(box, m), NEW w, NEW s
  PROVE  Waits(w, s)' <=> Waits(w, s) \/ m = Msg(w, s)
BY PlacesAppend DEF Waits

\* What is left of the places once the first message is handled.
LEMMA WaitsTail ==
  ASSUME TypeOK, box # <<>>, box' = Tail(box), NEW w, NEW s
  PROVE  /\ Waits(w, s)' => Waits(w, s)
         /\ Waits(w, s) /\ Head(box) # Msg(w, s) => Waits(w, s)'
         /\ Head(box) = Msg(w, s) => Waits(w, s)
<1>1. /\ Len(box) \in Nat \ {0} /\ Len(box') = Len(box) - 1
      /\ \A i \in 1..Len(box') : i + 1 \in 1..Len(box) /\ box'[i] = box[i + 1]
      /\ Head(box) = box[1]
  BY BoxTail
<1>2. ASSUME Waits(w, s)' PROVE Waits(w, s)
  <2>1. PICK i \in 1..Len(box') : box'[i] = Msg(w, s)
    BY <1>2 DEF Waits, Places, Msg
  <2> QED BY <2>1, <1>1 DEF Waits, Places
<1>3. ASSUME Waits(w, s), Head(box) # Msg(w, s) PROVE Waits(w, s)'
  <2>1. PICK i \in 1..Len(box) : box[i] = Msg(w, s)
    BY <1>3 DEF Waits, Places
  <2>2. i - 1 \in 1..Len(box') /\ box'[i - 1] = Msg(w, s)
    BY <2>1, <1>1, <1>3
  <2> QED BY <2>2 DEF Waits, Places, Msg
<1>4. Head(box) = Msg(w, s) => Waits(w, s)
  BY <1>1 DEF Waits, Places
<1> QED BY <1>2, <1>3, <1>4

LEMMA WaitsSame ==
  ASSUME box' = box, NEW w, NEW s
  PROVE  /\ Waits(w, s)' <=> Waits(w, s)
         /\ Places(w, s)' = Places(w, s)
BY DEF Waits, Places, Msg

\* Handling the first message takes one place, or none, away.
LEMMA PlacesTail ==
  ASSUME TypeOK, box # <<>>, box' = Tail(box), NEW w, NEW s
  PROVE  /\ Cardinality(Places(w, s)') \in Nat /\ Cardinality(Places(w, s)) \in Nat
         /\ Head(box) # Msg(w, s) =>
              Cardinality(Places(w, s)') = Cardinality(Places(w, s))
         /\ Head(box) = Msg(w, s) =>
              Cardinality(Places(w, s)') = Cardinality(Places(w, s)) - 1
<1> DEFINE P == Places(w, s)
           Q == {i \in 1..Len(box') : box'[i] = Msg(w, s)}
           f == [i \in Q |-> i + 1]
<1>1. /\ Len(box) \in Nat \ {0} /\ Len(box') = Len(box) - 1
      /\ \A i \in 1..Len(box') : i + 1 \in 1..Len(box) /\ box'[i] = box[i + 1]
      /\ Head(box) = box[1]
  BY BoxTail
<1>2. P = {i \in 1..Len(box) : box[i] = Msg(w, s)} /\ Q = Places(w, s)'
  BY DEF Places, Msg
<1>3. f \in Bijection(Q, P \ {1})
  <2>1. \A i \in Q : i \in Int /\ i + 1 \in P \ {1}
    BY <1>1, <1>2
  <2>2. \A j \in P \ {1} : j - 1 \in Q /\ (j - 1) + 1 = j
    BY <1>1, <1>2
  <2>3. \A j \in P \ {1} : f[j - 1] = j
    BY <2>2
  <2> QED BY <2>1, <2>2, <2>3 DEF Bijection, Injection, Surjection, IsInjective
<1>4. IsFiniteSet(P) /\ IsFiniteSet(Q)
  <2>1. IsFiniteSet(1..Len(box)) /\ IsFiniteSet(1..Len(box'))
    BY <1>1, FS_Interval
  <2>2. P \subseteq 1..Len(box) /\ Q \subseteq 1..Len(box')
    BY <1>2
  <2> QED BY <2>1, <2>2, FS_Subset
<1>5. IsFiniteSet(P \ {1}) /\ Cardinality(P) \in Nat /\ Cardinality(Q) \in Nat
  BY <1>4, FS_Subset, FS_CardinalityType, FS_RemoveElement
<1>6. Cardinality(Q) = Cardinality(P \ {1})
  <2>1. ExistsBijection(Q, P \ {1})
    BY <1>3 DEF ExistsBijection
  <2> HIDE DEF P, Q
  <2> QED BY <1>4, <1>5, <2>1, FS_Bijection
<1>7. CASE Head(box) # Msg(w, s)
  <2>1. P \ {1} = P
    BY <1>1, <1>2, <1>7
  <2> QED BY <2>1, <1>2, <1>5, <1>6, <1>7
<1>8. CASE Head(box) = Msg(w, s)
  <2>1. 1 \in P
    BY <1>1, <1>2, <1>8
  <2>2. Cardinality(P \ {1}) = Cardinality(P) - 1
    BY <2>1, <1>4, FS_RemoveElement
  <2> QED BY <2>2, <1>2, <1>5, <1>6, <1>8
<1> QED BY <1>7, <1>8
------------------------------------------------------------------------------
Mails == {"complete", "close", "parent", "input"}

\* Connected, of a session's record.
Conn(t) == \/ t.parent \in {"completing", "up"}
           \/ InMail(t, "complete") \/ t.ctrl \in Calls

\* What a step makes of a session's record.
Good(t, u) == u \in Session /\ ProcessInv(u) /\ (Conn(u) => Conn(t))

LEMMA ConnectedIs ==
  ASSUME NEW s \in Sessions
  PROVE  /\ Connected(s) <=> Conn(ses[s])
         /\ Connected(s)' <=> Conn(ses'[s])
BY DEF Connected, Conn, Has, InMail, Calls

LEMMA SessionShape ==
  ASSUME NEW t \in Session
  PROVE  /\ t.side \in {"in", "out"} /\ t.native \in {"none", "open", "closed"}
         /\ t.at \in {"none", "preface", "posted", "queued", "loop", "kernel",
                     "process", "lost"}
         /\ t.parent \in {"none", "accepting", "handshake", "completing", "up",
                         "dead"}
         /\ t.ctrl \in {"none", "spawned", "trapping", "waiting", "registering",
                        "running", "unregistering", "dead"}
         /\ t.mail \in Seq(Mails) /\ t.input \in {"none", "loop", "dead"}
         /\ t.frames \in 0..MaxFrames
BY DEF Session, Mails

LEMMA MailAppend ==
  ASSUME NEW t, NEW u, t.mail \in Seq(Mails), NEW m \in Mails,
         u.mail = Append(t.mail, m)
  PROVE  /\ u.mail \in Seq(Mails)
         /\ Len(t.mail) \in Nat /\ Len(u.mail) = Len(t.mail) + 1
         /\ \A i \in 1..Len(t.mail) : u.mail[i] = t.mail[i]
         /\ u.mail[Len(t.mail) + 1] = m
         /\ \A x : InMail(u, x) <=> InMail(t, x) \/ x = m
<1> DEFINE q == t.mail
<1>1. /\ u.mail \in Seq(Mails)
      /\ Len(q) \in Nat /\ Len(u.mail) = Len(q) + 1
      /\ \A i \in 1..Len(q) : u.mail[i] = q[i]
      /\ u.mail[Len(q) + 1] = m
  <2>1. q \in Seq(Mails)
    OBVIOUS
  <2> QED BY <2>1, AppendProperties
<1>2. ASSUME NEW x PROVE InMail(u, x) <=> InMail(t, x) \/ x = m
  <2>1. ASSUME InMail(u, x), x # m PROVE InMail(t, x)
    BY <1>1, <2>1 DEF InMail
  <2>2. ASSUME InMail(t, x) PROVE InMail(u, x)
    BY <1>1, <2>2 DEF InMail
  <2>3. InMail(u, m)
    BY <1>1 DEF InMail
  <2> QED BY <2>1, <2>2, <2>3
<1> QED BY <1>1, <1>2

LEMMA MailTail ==
  ASSUME NEW t, NEW u, t.mail \in Seq(Mails), t.mail # <<>>,
         u.mail = Tail(t.mail)
  PROVE  /\ u.mail \in Seq(Mails)
         /\ Len(t.mail) \in Nat \ {0} /\ Len(u.mail) = Len(t.mail) - 1
         /\ \A i \in 1..Len(u.mail) : i + 1 \in 1..Len(t.mail)
                                     /\ u.mail[i] = t.mail[i + 1]
         /\ Head(t.mail) = t.mail[1]
         /\ \A x : InMail(u, x) => InMail(t, x)
         /\ \A x : InMail(t, x) /\ x # Head(t.mail) => InMail(u, x)
<1> DEFINE q == t.mail
<1>1. /\ u.mail \in Seq(Mails)
      /\ Len(q) \in Nat \ {0} /\ Len(u.mail) = Len(q) - 1
      /\ \A i \in 1..Len(u.mail) : i + 1 \in 1..Len(q) /\ u.mail[i] = q[i + 1]
      /\ Head(q) = q[1]
  <2>1. q \in Seq(Mails) /\ q # <<>> /\ u.mail = Tail(q)
    OBVIOUS
  <2> HIDE DEF q
  <2>2. \A r \in Seq(Mails) : r # <<>> =>
           /\ Tail(r) \in Seq(Mails)
           /\ Len(r) \in Nat \ {0} /\ Len(Tail(r)) = Len(r) - 1
           /\ \A i \in 1..Len(Tail(r)) : i + 1 \in 1..Len(r) /\ Tail(r)[i] = r[i + 1]
           /\ Head(r) = r[1]
    OBVIOUS
  <2> QED BY <2>1, <2>2
<1>2. ASSUME NEW x, InMail(u, x) PROVE InMail(t, x)
  BY <1>1, <1>2 DEF InMail
<1>3. ASSUME NEW x, InMail(t, x), x # Head(q) PROVE InMail(u, x)
  <2>1. PICK i \in 1..Len(q) : q[i] = x
    BY <1>3 DEF InMail
  <2>2. i - 1 \in 1..Len(u.mail) /\ u.mail[i - 1] = x
    BY <2>1, <1>1, <1>3
  <2> QED BY <2>2 DEF InMail
<1> QED BY <1>1, <1>2, <1>3

\* An empty mailbox.
LEMMA MailEmpty ==
  ASSUME NEW t, t.mail = <<>>
  PROVE  Len(t.mail) = 0 /\ \A x : ~InMail(t, x)
BY DEF InMail

\* A step that leaves the processes alone.
LEMMA GoodSame ==
  ASSUME NEW t, NEW u \in Session, ProcessInv(t),
         u.parent = t.parent, u.ctrl = t.ctrl, u.mail = t.mail, u.input = t.input
  PROVE  Good(t, u)
BY DEF Good, ProcessInv, Conn, InMail, Up

\* The controller dies.
LEMMA GoodDead ==
  ASSUME NEW t \in Session, ProcessInv(t), t.ctrl # "none",
         NEW u \in Session, u.parent \in {t.parent, "dead"}, u.ctrl = "dead",
         u.mail = <<>>
  PROVE  Good(t, u)
<1>1. Len(u.mail) = 0 /\ \A x : ~InMail(u, x)
  BY MailEmpty
<1>2. u.parent \in {"none", "accepting"} => FALSE
  BY DEF ProcessInv
<1>3. \A i, j \in 1..Len(u.mail) : i = j
  BY <1>1
<1> QED BY <1>1, <1>2, <1>3, SessionShape DEF Good, ProcessInv, Conn, Calls, Up

\* A message that is not the completion, to a controller that lives.
LEMMA GoodMail ==
  ASSUME NEW t \in Session, ProcessInv(t), t.ctrl \notin {"none"},
         NEW m \in {"close", "parent", "input"},
         NEW u \in Session, u.mail = Append(t.mail, m),
         \/ u.ctrl = t.ctrl
         \/ t.ctrl = "trapping" /\ u.ctrl = "waiting" /\ m = "parent",
         \/ u.parent = t.parent
         \/ u.parent = "dead" /\ m = "parent",
         IF m = "input" THEN t.input = "loop" /\ u.input = "dead" ELSE u.input = t.input
  PROVE  Good(t, u)
<1>1. /\ Len(t.mail) \in Nat /\ Len(u.mail) = Len(t.mail) + 1
      /\ \A i \in 1..Len(t.mail) : u.mail[i] = t.mail[i]
      /\ u.mail[Len(t.mail) + 1] = m
      /\ \A x : InMail(u, x) <=> InMail(t, x) \/ x = m
  <2>1. t.mail \in Seq(Mails)
    BY SessionShape
  <2>2. m \in Mails
    BY DEF Mails
  <2> QED BY <2>1, <2>2, MailAppend
<1>2. \A i, j \in 1..Len(u.mail) :
        u.mail[i] = "complete" /\ u.mail[j] = "complete" => i = j
  <2>1. \A i \in 1..Len(u.mail) : u.mail[i] = "complete" =>
          i \in 1..Len(t.mail) /\ t.mail[i] = "complete"
    BY <1>1
  <2>2. \A i, j \in 1..Len(t.mail) :
          t.mail[i] = "complete" /\ t.mail[j] = "complete" => i = j
    BY DEF ProcessInv
  <2> QED BY <2>1, <2>2
<1>3. Conn(u) => Conn(t)
  BY <1>1 DEF Conn, Calls
<1>4. /\ u.parent \in {"none", "accepting"} => u.ctrl = "none"
      /\ u.ctrl = "none" => u.mail = <<>> /\ u.parent \notin {"completing", "up"}
      /\ u.parent = "handshake" =>
           ~InMail(u, "complete") /\ ~Up(u) /\ u.ctrl # "registering"
  BY <1>1 DEF ProcessInv, Up
<1>5. u.ctrl \in {"none", "spawned", "trapping", "waiting"} =>
        u.input = "none" /\ ~InMail(u, "input")
  BY <1>1 DEF ProcessInv
<1>6. u.ctrl \in {"registering", "running", "unregistering"} =>
       /\ ~InMail(u, "complete")
       /\ u.input = "loop" \/ (u.input = "dead" /\ InMail(u, "input"))
  BY <1>1 DEF ProcessInv
<1>7. u.ctrl \in {"waiting", "registering", "running", "unregistering"}
      /\ u.parent = "dead" => InMail(u, "parent")
  BY <1>1 DEF ProcessInv
<1> QED BY <1>2, <1>3, <1>4, <1>5, <1>6, <1>7 DEF Good, ProcessInv

\* A step of the parent or of the controller that leaves the mailbox alone.
LEMMA GoodMoves ==
  ASSUME NEW t \in Session, ProcessInv(t), NEW u \in Session,
         u.mail = t.mail, u.input = t.input,
         \/ u.parent = t.parent /\ t.parent = "handshake"
            /\ t.ctrl = "none" /\ u.ctrl = "spawned"
         \/ u.parent = t.parent /\ t.ctrl = "spawned" /\ u.ctrl = "trapping"
         \/ u.parent = t.parent /\ t.ctrl = "trapping" /\ u.ctrl = "waiting"
            /\ (t.parent = "dead" => InMail(t, "parent"))
         \/ u.parent = t.parent /\ t.ctrl = "running" /\ u.ctrl = "unregistering"
         \/ t.ctrl = "registering" /\ u.ctrl = "running"
            /\ u.parent = IF t.parent = "completing" THEN "up" ELSE t.parent
         \/ u.ctrl = t.ctrl /\ u.ctrl \in {"none", "spawned"} /\ u.parent = "dead"
         \/ u.ctrl = t.ctrl /\ u.ctrl = "none"
            /\ u.parent \in {"accepting", "handshake"}
  PROVE  Good(t, u)
<1>1. \A x : InMail(u, x) <=> InMail(t, x)
  BY DEF InMail
<1>2. \A i, j \in 1..Len(u.mail) :
        u.mail[i] = "complete" /\ u.mail[j] = "complete" => i = j
  BY DEF ProcessInv
<1>3. t.mail = <<>> => ~InMail(t, "complete")
  BY MailEmpty
<1>4. Conn(u) => Conn(t)
  BY <1>1 DEF Conn, Calls
<1>5. /\ u.parent \in {"none", "accepting"} => u.ctrl = "none"
      /\ u.ctrl = "none" => u.mail = <<>> /\ u.parent \notin {"completing", "up"}
      /\ u.parent = "handshake" =>
           ~InMail(u, "complete") /\ ~Up(u) /\ u.ctrl # "registering"
  BY <1>1, <1>3 DEF ProcessInv, Up
<1>6. u.ctrl \in {"none", "spawned", "trapping", "waiting"} =>
        u.input = "none" /\ ~InMail(u, "input")
  BY <1>1 DEF ProcessInv
<1>7. u.ctrl \in {"registering", "running", "unregistering"} =>
       /\ ~InMail(u, "complete")
       /\ u.input = "loop" \/ (u.input = "dead" /\ InMail(u, "input"))
  BY <1>1 DEF ProcessInv
<1>8. u.ctrl \in {"waiting", "registering", "running", "unregistering"}
      /\ u.parent = "dead" => InMail(u, "parent")
  BY <1>1 DEF ProcessInv
<1> QED BY <1>2, <1>4, <1>5, <1>6, <1>7, <1>8 DEF Good, ProcessInv

\* The handshake is complete: the one message of that kind is sent.
LEMMA GoodComplete ==
  ASSUME NEW t \in Session, ProcessInv(t), t.parent = "handshake",
         t.ctrl \notin {"none", "dead"},
         NEW u \in Session, u.mail = Append(t.mail, "complete"),
         u.parent = "completing", u.ctrl = t.ctrl, u.input = t.input
  PROVE  ProcessInv(u)
<1>1. /\ Len(t.mail) \in Nat /\ Len(u.mail) = Len(t.mail) + 1
      /\ \A i \in 1..Len(t.mail) : u.mail[i] = t.mail[i]
      /\ u.mail[Len(t.mail) + 1] = "complete"
      /\ \A x : InMail(u, x) <=> InMail(t, x) \/ x = "complete"
  <2>1. t.mail \in Seq(Mails)
    BY SessionShape
  <2>2. "complete" \in Mails
    BY DEF Mails
  <2> QED BY <2>1, <2>2, MailAppend
<1>2. \A i, j \in 1..Len(u.mail) :
        u.mail[i] = "complete" /\ u.mail[j] = "complete" => i = j
  <2>1. \A i \in 1..Len(t.mail) : t.mail[i] # "complete"
    BY DEF ProcessInv, InMail
  <2> QED BY <1>1, <2>1
<1>3. u.ctrl \in {"spawned", "trapping", "waiting"}
  BY SessionShape DEF ProcessInv, Up
<1>4. u.input = "none" /\ ~InMail(u, "input")
  BY <1>1, <1>3 DEF ProcessInv
<1> QED BY <1>2, <1>3, <1>4 DEF ProcessInv, Up

\* The holder becomes the controller.
LEMMA GoodStart ==
  ASSUME NEW t \in Session, ProcessInv(t), t.ctrl = "waiting",
         t.mail # <<>>, Head(t.mail) = "complete",
         NEW u \in Session, u.mail = Tail(t.mail),
         u.parent = t.parent, u.ctrl = "registering", u.input = "loop"
  PROVE  Good(t, u)
<1>1. /\ Len(t.mail) \in Nat \ {0} /\ Len(u.mail) = Len(t.mail) - 1
      /\ \A i \in 1..Len(u.mail) : i + 1 \in 1..Len(t.mail)
                                  /\ u.mail[i] = t.mail[i + 1]
      /\ Head(t.mail) = t.mail[1]
      /\ \A x : InMail(t, x) /\ x # Head(t.mail) => InMail(u, x)
  BY MailTail, SessionShape
<1>2. InMail(t, "complete")
  BY <1>1 DEF InMail
<1>3. \A i \in 1..Len(u.mail) : u.mail[i] # "complete"
  <2>1. \A i \in 1..Len(t.mail) : t.mail[i] = "complete" => i = 1
    BY <1>1 DEF ProcessInv
  <2> QED BY <1>1, <2>1
<1>4. t.parent \notin {"none", "accepting", "handshake"}
  BY <1>2 DEF ProcessInv
<1>5. u.parent = "dead" => InMail(u, "parent")
  BY <1>1 DEF ProcessInv
<1>6. Conn(t)
  BY <1>2 DEF Conn
<1>7. ~InMail(u, "complete")
  BY <1>3 DEF InMail
<1> QED BY <1>3, <1>4, <1>5, <1>6, <1>7 DEF Good, ProcessInv, Up

\* A step of a process whose controller is dead.
LEMMA GoodAfterDeath ==
  ASSUME NEW t \in Session, ProcessInv(t), t.ctrl = "dead",
         NEW u \in Session, u.parent \in {t.parent, "dead"}, u.ctrl = "dead",
         u.mail = t.mail
  PROVE  Good(t, u)
<1>1. \A x : InMail(u, x) <=> InMail(t, x)
  BY DEF InMail
<1> QED BY <1>1 DEF Good, ProcessInv, Conn, Calls, Up

\* What a message, or death, does to a session's record.
LEMMA MailedShape ==
  ASSUME NEW t \in Session, NEW m \in Mails
  PROVE  /\ t.ctrl = "dead" => Mailed(t, m) = t
         /\ t.ctrl # "dead" =>
              /\ Mailed(t, m) \in Session
              /\ Mailed(t, m) = [t EXCEPT !.mail = Append(t.mail, m)]
              /\ Append(t.mail, m) \in Seq(Mails)
         /\ Mailed(t, m) \in Session /\ Mailed(t, m).ctrl = t.ctrl
         /\ Mailed(t, m).parent = t.parent /\ Mailed(t, m).at = t.at
         /\ Mailed(t, m).native = t.native /\ Mailed(t, m).side = t.side
         /\ Mailed(t, m).input = t.input /\ Mailed(t, m).frames = t.frames
<1>1. Append(t.mail, m) \in Seq(Mails)
  BY SessionShape, AppendProperties
<1> QED BY <1>1 DEF Mailed, Session, Mails

LEMMA DeadShape ==
  ASSUME NEW t \in Session
  PROVE  /\ Dead(t) \in Session /\ Dead(t).ctrl = "dead" /\ Dead(t).mail = <<>>
         /\ Dead(t).parent = t.parent /\ Dead(t).native = t.native
         /\ Dead(t).at = t.at /\ Dead(t).input = t.input
         /\ Dead(t).frames = t.frames /\ Dead(t).side = t.side
<1>1. <<>> \in Seq(Mails)
  OBVIOUS
<1> QED BY <1>1 DEF Dead, Session, Mails

LEMMA ClosedShape ==
  ASSUME NEW t \in Session
  PROVE  /\ Closed(t) \in Session /\ Closed(t).native = "closed"
         /\ Closed(t).parent = t.parent /\ Closed(t).ctrl = t.ctrl
         /\ Closed(t).mail = t.mail /\ Closed(t).input = t.input
         /\ Closed(t).at = t.at /\ Closed(t).side = t.side
         /\ Closed(t).frames = t.frames
BY DEF Closed, Session

\* A step of one session.
LEMMA OneSession ==
  ASSUME TypeOK, NEW s \in Sessions, NEW u, Update(s, u)
  PROVE  /\ ses[s] \in Session
         /\ ses'[s] = u
         /\ \A r \in Sessions : r # s => ses'[r] = ses[r]
BY DEF TypeOK, Update

LEMMA GoodOthers ==
  ASSUME TypeOK, \A r \in Sessions : ProcessInv(ses[r]),
         NEW s \in Sessions, NEW u, Update(s, u), Good(ses[s], u)
  PROVE  \A r \in Sessions : Good(ses[r], ses'[r])
<1> SUFFICES ASSUME NEW r \in Sessions PROVE Good(ses[r], ses'[r])
  OBVIOUS
<1>1. ses[r] \in Session /\ ProcessInv(ses[r])
  BY DEF TypeOK
<1>2. CASE r = s
  BY <1>2, OneSession
<1>3. CASE r # s
  BY <1>1, <1>3, OneSession, GoodSame
<1> QED BY <1>2, <1>3

\* The steps of sessions before there is a controller.
LEMMA GoodEarly ==
  ASSUME LinkInv, NEW s \in Sessions,
         \/ Accept(s) \/ IncomingPreface(s) \/ Connect(s) \/ OutgoingPrefaceFails(s)
         \/ StartLink(s) \/ TrapExit(s) \/ LinkParent(s) \/ PeerCloses(s)
         \/ FreeSession(s) \/ AcceptConnection(s)
  PROVE  \A r \in Sessions : Good(ses[r], ses'[r])
<1> DEFINE t == ses[s]
<1>0. TypeOK /\ (\A r \in Sessions : ProcessInv(ses[r])) /\ t \in Session
  BY DEF LinkInv, TypeOK
<1>1. CASE Accept(s) \/ IncomingPreface(s) \/ PeerCloses(s) \/ FreeSession(s)
  <2>1. PICK u \in {[t EXCEPT !.native = "open", !.at = "preface"],
                     [t EXCEPT !.at = "posted"],
                     [Closed(t) EXCEPT !.at = "lost"], Closed(t)} : Update(s, u)
    BY <1>1 DEF Accept, IncomingPreface, PeerCloses, FreeSession
  <2>2. /\ u \in Session
        /\ u.parent = t.parent /\ u.ctrl = t.ctrl /\ u.mail = t.mail
        /\ u.input = t.input
    BY <1>0 DEF Session, Closed
  <2> QED BY <1>0, <2>1, <2>2, GoodSame, GoodOthers
<1>6. CASE AcceptConnection(s)
  <2> DEFINE u == [t EXCEPT !.at = "process", !.parent = "accepting"]
  <2>1. Update(s, u) /\ t.at = "kernel"
    BY <1>6 DEF AcceptConnection
  <2>2. t.ctrl = "none"
    BY <2>1, <1>0 DEF LinkInv, PlaceInv, ProcessInv
  <2>3. /\ u \in Session /\ u.parent = "accepting" /\ u.ctrl = "none"
        /\ u.mail = t.mail /\ u.input = t.input
    BY <1>0, <2>2 DEF Session
  <2> HIDE DEF u
  <2>4. Good(t, u)
    BY <1>0, <2>2, <2>3, GoodMoves
  <2> QED BY <1>0, <2>1, <2>4, GoodOthers
<1>2. CASE Connect(s)
  <2> DEFINE u == [t EXCEPT !.native = "open", !.at = "process", !.parent = "handshake"]
  <2>1. Update(s, u) /\ t.at = "none"
    BY <1>2 DEF Connect
  <2>2. t.ctrl = "none"
    BY <2>1, <1>0 DEF LinkInv, PlaceInv, ProcessInv
  <2>3. /\ u \in Session /\ u.parent = "handshake" /\ u.ctrl = "none"
        /\ u.mail = t.mail /\ u.input = t.input
    BY <1>0, <2>2 DEF Session
  <2> HIDE DEF u
  <2>4. Good(t, u)
    BY <1>0, <2>2, <2>3, GoodMoves
  <2> QED BY <1>0, <2>1, <2>4, GoodOthers
<1>3. CASE OutgoingPrefaceFails(s)
  <2> DEFINE u == [Closed(t) EXCEPT !.parent = "dead"]
  <2>1. Update(s, u) /\ t.ctrl = "none"
    BY <1>3 DEF OutgoingPrefaceFails
  <2>3. /\ u \in Session /\ u.parent = "dead" /\ u.ctrl = "none"
        /\ u.mail = t.mail /\ u.input = t.input
    BY <1>0, <2>1 DEF Session, Closed
  <2> HIDE DEF u
  <2>4. Good(t, u)
    BY <1>0, <2>1, <2>3, GoodMoves
  <2> QED BY <1>0, <2>1, <2>4, GoodOthers
<1>4. CASE StartLink(s) \/ TrapExit(s)
  <2>1. PICK c \in {"spawned", "trapping"} :
          /\ Update(s, [t EXCEPT !.ctrl = c])
          /\ \/ t.parent = "handshake" /\ t.ctrl = "none" /\ c = "spawned"
             \/ t.ctrl = "spawned" /\ c = "trapping"
    BY <1>4 DEF StartLink, TrapExit, At, Goes
  <2> DEFINE u == [t EXCEPT !.ctrl = c]
  <2>3. /\ u \in Session /\ u.parent = t.parent /\ u.ctrl = c
        /\ u.mail = t.mail /\ u.input = t.input
    BY <1>0, <2>1 DEF Session
  <2>5. Update(s, u)
    BY <2>1
  <2> HIDE DEF u
  <2>4. Good(t, u)
    BY <1>0, <2>1, <2>3, GoodMoves
  <2> QED BY <1>0, <2>5, <2>4, GoodOthers
<1>5. CASE LinkParent(s)
  <2>0. t.ctrl = "trapping"
    BY <1>5 DEF LinkParent, At
  <2>1. CASE t.parent = "dead" /\ ~Has(s, "parent")
    <3> DEFINE u == [Mailed(t, "parent") EXCEPT !.ctrl = "waiting"]
    <3>1. Update(s, u)
      BY <1>5, <2>1 DEF LinkParent
    <3>2. /\ u \in Session /\ u.parent = t.parent /\ u.ctrl = "waiting"
          /\ u.mail = Append(t.mail, "parent") /\ u.input = t.input
      <4>1. Append(t.mail, "parent") \in Seq(Mails)
        BY <1>0, <2>0, MailedShape DEF Mails
      <4>2. u = [t EXCEPT !.mail = Append(t.mail, "parent"), !.ctrl = "waiting"]
        BY <1>0, <2>0, MailedShape DEF Mails, Session
      <4> HIDE DEF u
      <4> QED BY <1>0, <4>1, <4>2 DEF Session, Mails
    <3> HIDE DEF u
    <3>3. Good(t, u)
      BY <1>0, <2>0, <2>1, <3>2, GoodMail
    <3> QED BY <1>0, <3>1, <3>3, GoodOthers
  <2>2. CASE ~(t.parent = "dead" /\ ~Has(s, "parent"))
    <3> DEFINE u == [t EXCEPT !.ctrl = "waiting"]
    <3>1. Update(s, u)
      BY <1>5, <2>2 DEF LinkParent
    <3>2. /\ u \in Session /\ u.parent = t.parent /\ u.ctrl = "waiting"
          /\ u.mail = t.mail /\ u.input = t.input
      BY <1>0, <2>0 DEF Session
    <3>4. t.parent = "dead" => InMail(t, "parent")
      BY <2>2 DEF Has
    <3> HIDE DEF u
    <3>3. Good(t, u)
      BY <1>0, <2>0, <3>2, <3>4, GoodMoves
    <3> QED BY <1>0, <3>1, <3>3, GoodOthers
  <2> QED BY <2>1, <2>2
<1> QED BY <1>1, <1>2, <1>3, <1>4, <1>5, <1>6

\* The exits of parents, and messages to the controller.
LEMMA GoodExits ==
  ASSUME LinkInv, NEW s \in Sessions,
         \/ \E reason \in {"normal", "abnormal"} : ParentExits(s, reason)
         \/ InputEnds(s) \/ (CloseLink /\ s = link.owner)
  PROVE  \A r \in Sessions : Good(ses[r], ses'[r])
<1> DEFINE t == ses[s]
<1>0. TypeOK /\ (\A r \in Sessions : ProcessInv(ses[r])) /\ t \in Session
  BY DEF LinkInv, TypeOK
<1>1. CASE InputEnds(s)
  <2> DEFINE u == [Mailed(t, "input") EXCEPT !.input = "dead"]
  <2>1. Update(s, u) /\ t.input = "loop"
    BY <1>1 DEF InputEnds
  <2>2. t.ctrl # "none"
    BY <1>0, <2>1 DEF ProcessInv
  <2>3. CASE t.ctrl = "dead"
    <3>1. u = [t EXCEPT !.input = "dead"]
      BY <1>0, <2>3, MailedShape DEF Mails
    <3> HIDE DEF u
    <3>2. /\ u \in Session /\ u.parent = t.parent /\ u.ctrl = "dead"
          /\ u.mail = t.mail
      BY <1>0, <2>3, <3>1 DEF Session
    <3>3. Good(t, u)
      BY <1>0, <2>3, <3>2, GoodAfterDeath
    <3> QED BY <1>0, <2>1, <3>3, GoodOthers
  <2>4. CASE t.ctrl # "dead"
    <3>1. /\ u = [t EXCEPT !.mail = Append(t.mail, "input"), !.input = "dead"]
          /\ Append(t.mail, "input") \in Seq(Mails)
      BY <1>0, <2>4, MailedShape DEF Mails, Session
    <3> HIDE DEF u
    <3>2. /\ u \in Session /\ u.parent = t.parent /\ u.ctrl = t.ctrl
          /\ u.input = "dead" /\ u.mail = Append(t.mail, "input")
      BY <1>0, <3>1 DEF Session, Mails
    <3>3. Good(t, u)
      BY <1>0, <2>1, <2>2, <3>2, GoodMail
    <3> QED BY <1>0, <2>1, <3>3, GoodOthers
  <2> QED BY <2>3, <2>4
<1>2. CASE CloseLink /\ s = link.owner
  <2> DEFINE u == Mailed(t, "close")
  <2>1. Update(s, u)
    BY <1>2 DEF CloseLink
  <2>2. t.ctrl # "none"
    BY <1>0, <1>2 DEF LinkInv, BalanceInv, Up, CallsInv, At, CloseLink
  <2>3. CASE t.ctrl = "dead"
    <3>1. u = t
      BY <1>0, <2>3, MailedShape DEF Mails
    <3>3. Good(t, u)
      BY <1>0, <3>1, GoodSame
    <3> HIDE DEF u
    <3> QED BY <1>0, <2>1, <3>3, GoodOthers
  <2>4. CASE t.ctrl # "dead"
    <3>1. /\ u = [t EXCEPT !.mail = Append(t.mail, "close")]
          /\ Append(t.mail, "close") \in Seq(Mails)
      BY <1>0, <2>4, MailedShape DEF Mails
    <3> HIDE DEF u
    <3>2. /\ u \in Session /\ u.parent = t.parent /\ u.ctrl = t.ctrl
          /\ u.input = t.input /\ u.mail = Append(t.mail, "close")
      BY <1>0, <3>1 DEF Session, Mails
    <3>3. Good(t, u)
      BY <1>0, <2>2, <3>2, GoodMail
    <3> QED BY <1>0, <2>1, <3>3, GoodOthers
  <2> QED BY <2>3, <2>4
<1>3. ASSUME NEW reason \in {"normal", "abnormal"}, ParentExits(s, reason)
      PROVE  \A r \in Sessions : Good(ses[r], ses'[r])
  <2> DEFINE u == ParentGone(t, reason)
             v == [t EXCEPT !.parent = "dead"]
  <2>1. Update(s, u)
    BY <1>3 DEF ParentExits
  <2>5. v \in Session /\ v.ctrl = t.ctrl /\ v.mail = t.mail /\ v.input = t.input
        /\ v.parent = "dead"
    BY <1>0 DEF Session
  <2>2. CASE t.ctrl \notin {"none", "spawned", "dead"}
    <3>0. u = Mailed(v, "parent")
      BY <2>2 DEF ParentGone
    <3> HIDE DEF u, v
    <3>1. /\ u = [v EXCEPT !.mail = Append(v.mail, "parent")]
          /\ Append(v.mail, "parent") \in Seq(Mails)
      BY <2>2, <2>5, <3>0, MailedShape DEF Mails
    <3>2. /\ u \in Session /\ u.parent = "dead" /\ u.ctrl = t.ctrl
          /\ u.input = t.input /\ u.mail = Append(t.mail, "parent")
      BY <2>5, <3>1 DEF Session, Mails
    <3>3. Good(t, u)
      BY <1>0, <2>2, <3>2, GoodMail
    <3> QED BY <1>0, <2>1, <3>3, GoodOthers
  <2>6. CASE t.ctrl = "dead"
    <3>0. u = v
      BY <2>5, <2>6, MailedShape DEF ParentGone, Mails
    <3> HIDE DEF u, v
    <3>1. Good(t, u)
      BY <1>0, <2>5, <2>6, <3>0, GoodAfterDeath
    <3> QED BY <1>0, <2>1, <3>1, GoodOthers
  <2>3. CASE t.ctrl = "none" \/ (t.ctrl = "spawned" /\ reason = "normal")
    <3>1. /\ u \in Session /\ u.parent = "dead" /\ u.ctrl = t.ctrl
          /\ u.input = t.input /\ u.mail = t.mail
      BY <1>0, <2>3 DEF Session, ParentGone
    <3> HIDE DEF u
    <3>2. Good(t, u)
      BY <1>0, <2>3, <3>1, GoodMoves
    <3> QED BY <1>0, <2>1, <3>2, GoodOthers
  <2>4. CASE t.ctrl = "spawned" /\ reason # "normal"
    <3>1. u \in Session /\ u.parent = "dead" /\ u.ctrl = "dead" /\ u.mail = <<>>
      <4>1. u = Dead(v)
        BY <2>4 DEF ParentGone
      <4> QED BY <2>5, <4>1, DeadShape
    <3> HIDE DEF u
    <3>2. Good(t, u)
      BY <1>0, <2>4, <3>1, GoodDead
    <3> QED BY <1>0, <2>1, <3>2, GoodOthers
  <2> QED BY <2>2, <2>3, <2>4, <2>6
<1> QED BY <1>1, <1>2, <1>3

\* The steps of the controller.
LEMMA GoodController ==
  ASSUME LinkInv, NEW s \in Sessions,
         \/ HolderReceives(s) \/ OutputWait(s) \/ SendFails(s) \/ CallExits(s)
         \/ Killed(s) \/ InputReceives(s)
  PROVE  \A r \in Sessions : Good(ses[r], ses'[r])
<1> DEFINE t == ses[s]
<1>0. TypeOK /\ (\A r \in Sessions : ProcessInv(ses[r])) /\ t \in Session
  BY DEF LinkInv, TypeOK
<1>1. CASE InputReceives(s)
  <2> DEFINE u == [t EXCEPT !.frames = t.frames + 1]
  <2>1. Update(s, u) /\ t.frames < MaxFrames
    BY <1>1 DEF InputReceives
  <2>2. t.frames + 1 \in 0..MaxFrames
    BY <1>0, <2>1, SessionsAssumption, SessionShape
  <2>3. /\ u \in Session /\ u.parent = t.parent /\ u.ctrl = t.ctrl
        /\ u.mail = t.mail /\ u.input = t.input
    BY <1>0, <2>2 DEF Session
  <2> HIDE DEF u
  <2> QED BY <1>0, <2>1, <2>3, GoodSame, GoodOthers
<1>2. CASE t.ctrl \notin {"none"} /\ (Update(s, Dead(t)) \/ Update(s, Dead(Closed(t))))
  <2>1. PICK u \in {Dead(t), Dead(Closed(t))} : Update(s, u)
    BY <1>2
  <2>2. u \in Session /\ u.parent = t.parent /\ u.ctrl = "dead" /\ u.mail = <<>>
    BY <1>0, <2>1, DeadShape, ClosedShape
  <2> QED BY <1>0, <1>2, <2>1, <2>2, GoodDead, GoodOthers
<1>3. CASE t.ctrl = "running" /\ Goes(s, "unregistering")
  <2> DEFINE u == [t EXCEPT !.ctrl = "unregistering"]
  <2>1. Update(s, u)
    BY <1>3 DEF Goes
  <2>2. /\ u \in Session /\ u.parent = t.parent /\ u.ctrl = "unregistering"
        /\ u.mail = t.mail /\ u.input = t.input
    BY <1>0 DEF Session
  <2> HIDE DEF u
  <2>3. Good(t, u)
    BY <1>0, <1>3, <2>2, GoodMoves
  <2> QED BY <1>0, <2>1, <2>3, GoodOthers
<1>4. CASE /\ t.ctrl = "waiting" /\ Gets(s, "complete")
           /\ Update(s, [t EXCEPT !.ctrl = "registering", !.input = "loop",
                                  !.mail = Tail(@)])
  <2> DEFINE u == [t EXCEPT !.ctrl = "registering", !.input = "loop", !.mail = Tail(@)]
  <2>1. Update(s, u) /\ t.mail # <<>> /\ Head(t.mail) = "complete"
    BY <1>4 DEF Gets
  <2>2. Tail(t.mail) \in Seq(Mails)
    BY <1>0, <2>1, SessionShape
  <2>3. /\ u \in Session /\ u.parent = t.parent /\ u.ctrl = "registering"
        /\ u.mail = Tail(t.mail) /\ u.input = "loop"
    BY <1>0, <2>2 DEF Session, Mails
  <2> HIDE DEF u
  <2>4. Good(t, u)
    BY <1>0, <1>4, <2>1, <2>3, GoodStart
  <2> QED BY <1>0, <2>1, <2>4, GoodOthers
<1>5. CASE HolderReceives(s)
  BY <1>2, <1>4, <1>5 DEF HolderReceives, StartController, At
<1>6. CASE OutputWait(s) \/ SendFails(s)
  BY <1>2, <1>3, <1>6 DEF OutputWait, SendFails, After, At
<1>7. CASE CallExits(s) \/ Killed(s)
  BY <1>2, <1>7 DEF CallExits, Killed
<1> QED BY <1>1, <1>5, <1>6, <1>7

\* The steps of the accept loops and of the server that only move sessions.
Moving ==
  \/ HandleIncoming \/ HandleTake \/ HandleUpdate \/ ServerStops
  \/ \E l \in Loops : StartLoop(l) \/ TakeIncoming(l) \/ OfferSession(l) \/ LoopDies(l)
  \/ \E s \in Sessions : UnsupportedProtocol(s)

SameProcesses(t, u) ==
  /\ u.parent = t.parent /\ u.ctrl = t.ctrl /\ u.mail = t.mail /\ u.input = t.input
  /\ u.frames = t.frames /\ u.side = t.side

\* They leave the processes of every session alone.
LEMMA MovingKeeps ==
  ASSUME TypeOK, Moving, NEW r \in Sessions
  PROVE  ses'[r] \in Session /\ SameProcesses(ses[r], ses'[r])
<1> DEFINE t == ses[r]
           u == ses'[r]
           Ats == {"lost", "loop", "queued", "kernel"}
<1>1. t \in Session /\ ses \in [Sessions -> Session]
  BY DEF TypeOK
<1>2. \/ u = t \/ u = Closed(t)
      \/ \E a \in Ats : u = [t EXCEPT !.at = a] \/ u = [Closed(t) EXCEPT !.at = a]
  <2>1. CASE HandleIncoming
    <3> DEFINE s == Head(box).from
    <3>1. PICK a \in {"lost", "loop", "queued"} :
            \/ ses' = [ses EXCEPT ![s].at = a]
            \/ ses' = [ses EXCEPT ![s] = [Closed(@) EXCEPT !.at = a]]
      BY <2>1 DEF HandleIncoming, Replies
    <3> HIDE DEF s
    <3> QED BY <3>1, <1>1
  <2>2. CASE HandleTake
    <3>1. CASE ses' = ses
      BY <3>1
    <3>2. CASE ses' # ses
      <4> DEFINE s == Head(queue)
      <4>1. PICK a \in {"lost", "loop"} : ses' = [ses EXCEPT ![s].at = a]
        BY <2>2, <3>2 DEF HandleTake, Replies
      <4> HIDE DEF s
      <4> QED BY <4>1, <1>1
    <3> QED BY <3>1, <3>2
  <2>3. CASE HandleUpdate
    BY <2>3 DEF HandleUpdate
  <2>4. ASSUME NEW l \in Loops,
               StartLoop(l) \/ TakeIncoming(l) \/ OfferSession(l) \/ LoopDies(l)
        PROVE  <1>2
    <3>1. CASE StartLoop(l) \/ TakeIncoming(l)
      BY <3>1 DEF StartLoop, TakeIncoming, Asks
    <3>2. CASE OfferSession(l)
      BY <1>1, <3>2 DEF OfferSession, Update
    <3>3. CASE LoopDies(l)
      BY <1>1, <3>3 DEF LoopDies, Update
    <3> QED BY <2>4, <3>1, <3>2, <3>3
  <2>6. ASSUME NEW s \in Sessions, UnsupportedProtocol(s) PROVE <1>2
    <3>1. \/ Update(s, [ses[s] EXCEPT !.at = "lost"])
          \/ Update(s, [Closed(ses[s]) EXCEPT !.at = "lost"])
      BY <2>6 DEF UnsupportedProtocol
    <3> QED BY <1>1, <3>1 DEF Update
  <2>5. CASE ServerStops
    <3>1. u = LET v == IF t.native = "open" THEN Closed(t) ELSE t
              IN IF v.at \in {"preface", "posted", "queued"} /\ v.parent = "none"
                 THEN [v EXCEPT !.at = "lost"] ELSE v
      BY <2>5 DEF ServerStops
    <3> QED BY <3>1
  <2> QED BY <2>1, <2>2, <2>3, <2>4, <2>5, <2>6 DEF Moving
<1> HIDE DEF t, u
<1>3. CASE u = t \/ u = Closed(t)
  BY <1>1, <1>3, ClosedShape DEF SameProcesses, t, u
<1>4. ASSUME NEW a \in Ats, NEW v \in {t, Closed(t)}, u = [v EXCEPT !.at = a]
      PROVE  u \in Session /\ SameProcesses(t, u)
  <2>1. v \in Session /\ SameProcesses(t, v)
    BY <1>1, ClosedShape DEF SameProcesses
  <2> QED BY <1>4, <2>1 DEF Session, SameProcesses
<1> QED BY <1>2, <1>3, <1>4 DEF t, u

LEMMA GoodServer ==
  ASSUME LinkInv, Moving
  PROVE  \A r \in Sessions : Good(ses[r], ses'[r])
<1>0. TypeOK /\ (\A r \in Sessions : ProcessInv(ses[r]))
  BY DEF LinkInv
<1> SUFFICES ASSUME NEW r \in Sessions PROVE Good(ses[r], ses'[r])
  OBVIOUS
<1> QED BY <1>0, MovingKeeps, GoodSame DEF SameProcesses

LEMMA GoodHandled ==
  ASSUME LinkInv,
         \/ HandleRegister \/ HandleUnregister
         \/ \E l \in Loops : ForwardController(l)
  PROVE  \A r \in Sessions : Good(ses[r], ses'[r])
<1>0. TypeOK /\ (\A r \in Sessions : ProcessInv(ses[r])) /\ PlaceInv
  BY DEF LinkInv
<1> DEFINE s == Head(box).from
<1>3. ASSUME NEW l \in Loops, ForwardController(l)
      PROVE  \A r \in Sessions : Good(ses[r], ses'[r])
  <2> DEFINE x == loop[l]
             t == ses[x]
             u == [t EXCEPT !.parent = "handshake"]
  <2>1. x \in Sessions /\ Update(x, u) /\ t \in Session /\ t.parent = "accepting"
    BY <1>0, <1>3 DEF ForwardController, TypeOK
  <2> HIDE DEF x
  <2>2. t.ctrl = "none"
    BY <1>0, <2>1 DEF ProcessInv
  <2>3. /\ u \in Session /\ u.parent = "handshake" /\ u.ctrl = "none"
        /\ u.mail = t.mail /\ u.input = t.input
    BY <2>1, <2>2 DEF Session
  <2> HIDE DEF u
  <2>4. Good(t, u)
    BY <1>0, <2>1, <2>2, <2>3, GoodMoves
  <2> QED BY <1>0, <2>1, <2>4, GoodOthers
<1>4. CASE ses' = ses
  <2> SUFFICES ASSUME NEW r \in Sessions PROVE Good(ses[r], ses'[r])
    OBVIOUS
  <2>1. ses[r] \in Session
    BY <1>0 DEF TypeOK
  <2> QED BY <1>0, <1>4, <2>1, GoodSame
<1>5. CASE (HandleRegister \/ HandleUnregister) /\ ses' # ses
  <2>0. s \in Sessions
    <3>1. box # <<>> /\ Head(box).what # "take"
      BY <1>5 DEF HandleRegister, HandleUnregister, Handles
    <3>2. Len(box) \in Nat \ {0} /\ Head(box) = box[1]
      BY <1>0, <3>1 DEF TypeOK
    <3> QED BY <3>1, <3>2 DEF LinkInv, CallsInv
  <2> DEFINE t == ses[s]
  <2>1. t \in Session
    BY <1>0, <2>0 DEF TypeOK
  <2>2. CASE HandleRegister
    <3> DEFINE u == [t EXCEPT !.ctrl = "running",
                              !.parent = IF @ = "completing" THEN "up" ELSE @]
    <3>1. t.ctrl = "registering" /\ Update(s, u)
      BY <1>5, <2>2, <2>0, <1>0 DEF HandleRegister, Update, TypeOK
    <3>2. /\ u \in Session /\ u.ctrl = "running" /\ u.mail = t.mail
          /\ u.parent = (IF t.parent = "completing" THEN "up" ELSE t.parent)
          /\ u.input = t.input
      BY <2>1 DEF Session
    <3> HIDE DEF u
    <3>3. Good(t, u)
      BY <1>0, <2>0, <2>1, <3>1, <3>2, GoodMoves
    <3> HIDE DEF s
    <3> QED BY <1>0, <2>0, <3>1, <3>3, GoodOthers
  <2>3. CASE HandleUnregister
    <3> DEFINE u == Dead(Closed(t))
    <3>1. t.ctrl = "unregistering" /\ Update(s, u)
      BY <1>5, <2>3 DEF HandleUnregister, Update
    <3>2. u \in Session /\ u.parent = t.parent /\ u.ctrl = "dead" /\ u.mail = <<>>
      BY <2>1, DeadShape, ClosedShape
    <3> HIDE DEF u
    <3>3. Good(t, u)
      BY <1>0, <2>0, <2>1, <3>1, <3>2, GoodDead
    <3> HIDE DEF s
    <3> QED BY <1>0, <2>0, <3>1, <3>3, GoodOthers
  <2> QED BY <1>5, <2>2, <2>3
<1> QED BY <1>3, <1>4, <1>5

\* The next-state relation, one disjunct per action.
LEMMA NextCases ==
  ASSUME [Next]_vars
  PROVE  \/ HandleIncoming \/ HandleTake \/ HandleRegister \/ HandleUnregister
         \/ HandleUpdate \/ CloseLink \/ ServerStops
         \/ \E l \in Loops : \/ StartLoop(l) \/ TakeIncoming(l) \/ OfferSession(l)
                             \/ ForwardController(l) \/ LoopDies(l)
         \/ \E s \in Sessions :
              \/ Accept(s) \/ IncomingPreface(s) \/ Connect(s)
              \/ OutgoingPrefaceFails(s) \/ StartLink(s) \/ TrapExit(s)
              \/ LinkParent(s) \/ PeerCloses(s) \/ FreeSession(s)
              \/ AcceptConnection(s) \/ UnsupportedProtocol(s)
         \/ \E s \in Sessions : HandshakeComplete(s)
         \/ \E s \in Sessions :
              \/ \E reason \in {"normal", "abnormal"} : ParentExits(s, reason)
              \/ InputEnds(s)
         \/ \E s \in Sessions :
              \/ HolderReceives(s) \/ OutputWait(s) \/ SendFails(s)
              \/ CallExits(s) \/ Killed(s) \/ InputReceives(s)
         \/ UNCHANGED vars
<1>1. \A s \in Sessions : ParentNotices(s) => ParentExits(s, "abnormal")
  BY DEF ParentNotices
<1>2. \A s \in Sessions : InputNotices(s) => InputEnds(s)
  BY DEF InputNotices
<1> QED BY <1>1, <1>2 DEF Next, ServerStep, Progress, LoopStep

\* The handshake of a session is complete: no other session is connected.
LEMMA CompleteStep ==
  ASSUME LinkInv, NEW s \in Sessions, HandshakeComplete(s)
  PROVE  /\ \A r \in Sessions : ses'[r] \in Session /\ ProcessInv(ses'[r])
         /\ \A r \in Sessions \ {s} : ~Connected(r) /\ ses'[r] = ses[r]
         /\ ses'[s].ctrl = ses[s].ctrl /\ ses'[s].frames = ses[s].frames
         /\ ses'[s].at = ses[s].at /\ ses'[s].native = ses[s].native
         /\ ses'[s].side = ses[s].side /\ ses[s].parent = "handshake"
         /\ ses'[s].parent = "completing"
<1> DEFINE t == ses[s]
           u == [Mailed(t, "complete") EXCEPT !.parent = "completing"]
<1>0. TypeOK /\ (\A r \in Sessions : ProcessInv(ses[r])) /\ t \in Session
  BY DEF LinkInv, TypeOK
<1>1. /\ Update(s, u) /\ t.parent = "handshake" /\ t.ctrl \notin {"none", "dead"}
      /\ \A r \in Sessions \ {s} : ~Connected(r)
  BY DEF HandshakeComplete
<1>2. /\ u = [t EXCEPT !.mail = Append(t.mail, "complete"), !.parent = "completing"]
      /\ Append(t.mail, "complete") \in Seq(Mails)
  BY <1>0, <1>1, MailedShape DEF Mails, Session
<1> HIDE DEF u
<1>3. /\ u \in Session /\ u.parent = "completing" /\ u.ctrl = t.ctrl
      /\ u.input = t.input /\ u.mail = Append(t.mail, "complete")
      /\ u.frames = t.frames /\ u.at = t.at /\ u.native = t.native
      /\ u.side = t.side
  BY <1>0, <1>2 DEF Session, Mails
<1>4. ProcessInv(u)
  BY <1>0, <1>1, <1>3, GoodComplete
<1>5. ses'[s] = u /\ \A r \in Sessions \ {s} : ses'[r] = ses[r]
  BY <1>0, <1>1, OneSession
<1>6. \A r \in Sessions : ses[r] \in Session
  BY <1>0 DEF TypeOK
<1> QED BY <1>0, <1>1, <1>3, <1>4, <1>5, <1>6

\* Every step keeps the sessions' records good, but for the completion.
LEMMA GoodStep ==
  ASSUME LinkInv, [Next]_vars
  PROVE  \/ \A r \in Sessions : Good(ses[r], ses'[r])
         \/ \E s \in Sessions : HandshakeComplete(s)
<1>0. TypeOK /\ (\A r \in Sessions : ProcessInv(ses[r]) /\ ses[r] \in Session)
  BY DEF LinkInv, TypeOK
<1>1. CASE UNCHANGED vars
  <2>1. \A r \in Sessions : ses'[r] = ses[r]
    BY <1>1 DEF vars
  <2> QED BY <1>0, <2>1, GoodSame
<1>2. CASE CloseLink
  <2>1. link.owner \in Sessions
    BY <1>0, <1>2 DEF CloseLink, TypeOK
  <2> QED BY <1>2, <2>1, GoodExits
<1> QED
  BY NextCases, <1>1, <1>2, GoodEarly, GoodExits, GoodController, GoodServer,
           GoodHandled DEF Moving

\* ERTS keeps one session connected at a time.
LEMMA StepOneConnected ==
  ASSUME LinkInv, [Next]_vars
  PROVE  OneConnected' /\ \A r \in Sessions : ses'[r] \in Session /\ ProcessInv(ses'[r])
<1>0. OneConnected
  BY DEF LinkInv
<1>1. CASE \A r \in Sessions : Good(ses[r], ses'[r])
  <2>1. \A r \in Sessions : Connected(r)' => Connected(r)
    BY <1>1, ConnectedIs DEF Good
  <2> QED BY <1>0, <1>1, <2>1 DEF OneConnected, Good
<1>2. ASSUME NEW s \in Sessions, HandshakeComplete(s)
      PROVE  OneConnected'
  <2>1. \A r \in Sessions \ {s} : ~Connected(r) /\ ses'[r] = ses[r]
    BY <1>2, CompleteStep
  <2>2. \A r \in Sessions \ {s} : ~Connected(r)'
    BY <2>1, ConnectedIs
  <2> QED BY <2>2 DEF OneConnected
<1> QED BY <1>1, <1>2, GoodStep, CompleteStep
------------------------------------------------------------------------------
\* What a step may do to a controller that has nothing to do with the server.
CtrlQuiet(r) ==
  \/ ses'[r].ctrl = ses[r].ctrl
  \/ /\ ses[r].ctrl \in {"none", "spawned", "trapping", "waiting"}
     /\ ses'[r].ctrl \in {"spawned", "trapping", "waiting", "dead"}
  \/ ~server /\ ses[r].ctrl = "running" /\ ses'[r].ctrl = "dead"

SameCtrl(r) == ses'[r].ctrl = ses[r].ctrl /\ ses'[r].frames = ses[r].frames

\* A step that neither reads nor writes the server's mailbox.
QuietStep ==
  /\ UNCHANGED <<box, server, link, balance, cut>>
  /\ \A r \in Sessions : CtrlQuiet(r) /\ ses'[r].frames >= ses[r].frames

\* Posts that only concern the accept loop, and posts of each kind.
PostsSession ==
  /\ server /\ UNCHANGED <<server, link, balance, cut>>
  /\ \A r \in Sessions : SameCtrl(r)
  /\ \/ \E l \in Loops : box' = Append(box, Msg("take", l)) /\ ~Waits("take", l)
     \/ \E s \in Sessions :
          box' = Append(box, Msg("incoming", s)) /\ ~Waits("incoming", s)

PostsUpdate(s) ==
  /\ server /\ UNCHANGED <<server, link, balance, cut>>
  /\ \A r \in Sessions \ {s} : SameCtrl(r)
  /\ ses'[s].ctrl = ses[s].ctrl /\ ses'[s].frames = ses[s].frames + 1
  /\ box' = Append(box, Msg("update", s))

PostsRegister(s) ==
  /\ server /\ UNCHANGED <<server, link, balance, cut>>
  /\ \A r \in Sessions \ {s} : SameCtrl(r)
  /\ ses[s].ctrl = "waiting" /\ ses'[s].ctrl = "registering" /\ Connected(s)
  /\ ses'[s].frames = ses[s].frames
  /\ box' = Append(box, Msg("register", s))

PostsUnregister(s) ==
  /\ server /\ UNCHANGED <<server, link, balance, cut>>
  /\ \A r \in Sessions \ {s} : SameCtrl(r)
  /\ ses[s].ctrl = "running" /\ ses'[s].ctrl = "unregistering"
  /\ ses'[s].frames = ses[s].frames
  /\ box' = Append(box, Msg("unregister", s))

\* A controller in a call, or running, is cut off.
Cuts(s) ==
  /\ UNCHANGED <<box, server, link, balance>> /\ cut' = cut \cup {s}
  /\ \A r \in Sessions \ {s} : SameCtrl(r)
  /\ ses[s].ctrl \in Calls /\ ses'[s].ctrl = "dead"
  /\ ses'[s].frames = ses[s].frames

\* The server handles a message that only concerns the accept loop ...
HandlesSession ==
  /\ server /\ UNCHANGED <<server, link, balance, cut>>
  /\ box # <<>> /\ box' = Tail(box) /\ Head(box).what \in {"take", "incoming"}
  /\ \A r \in Sessions : SameCtrl(r)

\* ... or a controller.
HandlesUpdate(s) ==
  /\ server /\ UNCHANGED <<server, balance, cut>>
  /\ box # <<>> /\ box' = Tail(box) /\ Head(box) = Msg("update", s)
  /\ UpdateOwner(s)
  /\ \A r \in Sessions : SameCtrl(r)

HandlesRegister(s) ==
  /\ server /\ UNCHANGED <<server, cut>>
  /\ box # <<>> /\ box' = Tail(box) /\ Head(box) = Msg("register", s)
  /\ link' = [owner |-> s, frames |-> 0] /\ balance' = balance + 1
  /\ \A r \in Sessions \ {s} : SameCtrl(r)
  /\ ses'[s].ctrl = IF ses[s].ctrl = "registering" THEN "running" ELSE ses[s].ctrl
  /\ ses'[s].frames = ses[s].frames

HandlesUnregister(s) ==
  /\ server /\ UNCHANGED <<server, cut>>
  /\ box # <<>> /\ box' = Tail(box) /\ Head(box) = Msg("unregister", s)
  /\ \/ link.owner = s /\ link' = NoLink /\ balance' = balance - 1
     \/ link.owner # s /\ UNCHANGED <<link, balance>>
  /\ \A r \in Sessions \ {s} : SameCtrl(r)
  /\ ses'[s].ctrl = IF ses[s].ctrl = "unregistering" THEN "dead" ELSE ses[s].ctrl
  /\ ses'[s].frames = ses[s].frames

Stops ==
  /\ server' = FALSE /\ box' = <<>> /\ queue' = <<>> /\ waiter' = NoLoop
  /\ link' = NoLink /\ balance' = balance /\ cut' = cut
  /\ \A r \in Sessions : SameCtrl(r)

LEMMA QuietUpdate ==
  ASSUME TypeOK, NEW s \in Sessions, NEW u \in Session, Update(s, u),
         UNCHANGED <<box, server, link, balance, cut>>,
         u.frames >= ses[s].frames,
         \/ u.ctrl = ses[s].ctrl
         \/ /\ ses[s].ctrl \in {"none", "spawned", "trapping", "waiting"}
            /\ u.ctrl \in {"spawned", "trapping", "waiting", "dead"}
         \/ ~server /\ ses[s].ctrl = "running" /\ u.ctrl = "dead"
  PROVE  QuietStep
<1>1. ses'[s] = u /\ \A r \in Sessions : r # s => ses'[r] = ses[r]
  BY OneSession
<1>2. \A r \in Sessions : ses[r].frames \in Int
  BY SessionShape DEF TypeOK
<1>3. \A r \in Sessions : CtrlQuiet(r) /\ ses'[r].frames >= ses[r].frames
  BY <1>1, <1>2 DEF CtrlQuiet
<1> QED BY <1>3 DEF QuietStep

\* The steps before there is a controller.
LEMMA KindEarly ==
  ASSUME LinkInv, NEW s \in Sessions,
         \/ Accept(s) \/ Connect(s) \/ OutgoingPrefaceFails(s)
         \/ StartLink(s) \/ TrapExit(s) \/ LinkParent(s) \/ PeerCloses(s)
         \/ FreeSession(s) \/ AcceptConnection(s) \/ HandshakeComplete(s)
         \/ InputEnds(s)
         \/ \E reason \in {"normal", "abnormal"} : ParentExits(s, reason)
         \/ (CloseLink /\ s = link.owner)
  PROVE  QuietStep
<1> DEFINE t == ses[s]
<1>0. TypeOK /\ t \in Session /\ t.frames \in Int
  BY SessionShape DEF LinkInv, TypeOK
<1>1. UNCHANGED <<box, server, link, balance, cut>>
  BY DEF Accept, Connect, OutgoingPrefaceFails, StartLink, TrapExit, LinkParent,
         PeerCloses, FreeSession, AcceptConnection, HandshakeComplete, InputEnds,
         ParentExits, CloseLink,
         Others
<1>2. ses'[s] \in Session
  <2>1. CASE HandshakeComplete(s)
    BY <2>1, CompleteStep
  <2>2. CASE ~HandshakeComplete(s)
    BY <2>2, GoodEarly, GoodExits DEF Good
  <2> QED BY <2>1, <2>2
<1>3. PICK u : Update(s, u)
  BY DEF Accept, Connect, OutgoingPrefaceFails, StartLink, TrapExit, LinkParent,
         PeerCloses, FreeSession, AcceptConnection, HandshakeComplete, InputEnds,
         ParentExits, CloseLink,
         Goes
<1>4. u = ses'[s]
  BY <1>0, <1>3, OneSession
<1>5. \A m \in Mails : /\ Mailed(t, m).ctrl = t.ctrl /\ Mailed(t, m).frames = t.frames
                       /\ Mailed(t, m) \in Session
  BY <1>0, MailedShape
<1>6. ses'[s].frames = t.frames /\
      \/ ses'[s].ctrl = t.ctrl
      \/ /\ t.ctrl \in {"none", "spawned", "trapping", "waiting"}
         /\ ses'[s].ctrl \in {"spawned", "trapping", "waiting", "dead"}
  <2>1. CASE Accept(s) \/ Connect(s) \/ OutgoingPrefaceFails(s) \/ PeerCloses(s)
             \/ FreeSession(s) \/ AcceptConnection(s) \/ StartLink(s) \/ TrapExit(s)
    <3>1. \/ ses'[s] = Closed(t)
          \/ ses'[s] = [t EXCEPT !.native = "open", !.at = "preface"]
          \/ ses'[s] = [t EXCEPT !.native = "open", !.at = "process",
                                 !.parent = "handshake"]
          \/ ses'[s] = [t EXCEPT !.at = "process", !.parent = "accepting"]
          \/ ses'[s] = [Closed(t) EXCEPT !.parent = "dead"]
          \/ t.ctrl = "none" /\ ses'[s] = [t EXCEPT !.ctrl = "spawned"]
          \/ t.ctrl = "spawned" /\ ses'[s] = [t EXCEPT !.ctrl = "trapping"]
      BY <1>0, <2>1, OneSession DEF Accept, Connect, OutgoingPrefaceFails,
         StartLink,
         TrapExit, PeerCloses, FreeSession, AcceptConnection, Goes, At
    <3> HIDE DEF t
    <3> QED BY <1>0, <3>1 DEF Closed, Session
  <2>2. CASE LinkParent(s)
    <3>1. t.ctrl = "trapping"
      BY <2>2 DEF LinkParent, At
    <3>2. \/ ses'[s] = [Mailed(t, "parent") EXCEPT !.ctrl = "waiting"]
          \/ ses'[s] = [t EXCEPT !.ctrl = "waiting"]
      BY <1>0, <2>2, OneSession DEF LinkParent
    <3> HIDE DEF t
    <3> QED BY <1>0, <1>5, <3>1, <3>2 DEF Session, Mails
  <2>3. CASE HandshakeComplete(s)
    BY <2>3, CompleteStep
  <2>4. CASE InputEnds(s)
    <3>2. ses'[s] = [Mailed(t, "input") EXCEPT !.input = "dead"]
      BY <1>0, <2>4, OneSession DEF InputEnds
    <3> HIDE DEF t
    <3> QED BY <1>0, <1>5, <3>2 DEF Session, Mails
  <2>5. CASE CloseLink /\ s = link.owner
    <3>2. ses'[s] = Mailed(t, "close")
      BY <1>0, <2>5, OneSession DEF CloseLink
    <3> HIDE DEF t
    <3> QED BY <1>0, <1>5, <3>2 DEF Session, Mails
  <2>6. ASSUME NEW reason \in {"normal", "abnormal"}, ParentExits(s, reason)
        PROVE  <1>6
    <3> DEFINE v == [t EXCEPT !.parent = "dead"]
    <3>1. v \in Session /\ v.ctrl = t.ctrl /\ v.frames = t.frames
      BY <1>0 DEF Session
    <3>2. ses'[s] = ParentGone(t, reason)
      BY <1>0, <2>6, OneSession DEF ParentExits
    <3>3. \/ ses'[s] = v \/ ses'[s] = Mailed(v, "parent")
          \/ t.ctrl = "spawned" /\ ses'[s] = Dead(v)
      BY <3>2 DEF ParentGone
    <3> HIDE DEF t, v
    <3>4. Mailed(v, "parent").ctrl = v.ctrl /\ Mailed(v, "parent").frames = v.frames
      BY <3>1, MailedShape DEF Mails
    <3>5. Dead(v).ctrl = "dead" /\ Dead(v).frames = v.frames
      BY <3>1, DeadShape
    <3> QED BY <3>1, <3>3, <3>4, <3>5
  <2> QED BY <2>1, <2>2, <2>3, <2>4, <2>5, <2>6
<1> HIDE DEF t
<1> QED BY <1>0, <1>1, <1>2, <1>3, <1>4, <1>6, QuietUpdate DEF t

\* The steps of the controller and of its input process.
LEMMA KindController ==
  ASSUME LinkInv, NEW s \in Sessions,
         \/ HolderReceives(s) \/ OutputWait(s) \/ SendFails(s) \/ CallExits(s)
         \/ Killed(s) \/ InputReceives(s)
  PROVE  QuietStep \/ PostsUpdate(s) \/ PostsRegister(s) \/ PostsUnregister(s) \/ Cuts(s)
<1> DEFINE t == ses[s]
<1>0. TypeOK /\ t \in Session /\ t.frames \in Int
  BY SessionShape DEF LinkInv, TypeOK
<1>1. ASSUME NEW u, Update(s, u)
      PROVE  ses'[s] = u /\ \A r \in Sessions \ {s} : SameCtrl(r)
  BY <1>0, <1>1, OneSession DEF SameCtrl
<1>2. /\ Dead(t) \in Session /\ Dead(t).ctrl = "dead" /\ Dead(t).frames = t.frames
      /\ Dead(Closed(t)) \in Session /\ Dead(Closed(t)).ctrl = "dead"
      /\ Dead(Closed(t)).frames = t.frames
  BY <1>0, DeadShape, ClosedShape
<1>3. CASE InputReceives(s)
  <2> DEFINE u == [t EXCEPT !.frames = t.frames + 1]
  <2>1. /\ Update(s, u)
        /\ box' = IF server THEN Append(box, Msg("update", s)) ELSE box
        /\ UNCHANGED <<server, link, balance, cut>>
    BY <1>3 DEF InputReceives, Others
  <2>2. ses'[s] = u /\ \A r \in Sessions \ {s} : SameCtrl(r)
    BY <1>1, <2>1
  <2>3. u.ctrl = t.ctrl /\ u.frames = t.frames + 1
    BY <1>0 DEF Session
  <2>4. ses'[s] \in Session
    BY <1>3, GoodController DEF Good
  <2> HIDE DEF u
  <2>5. CASE server
    BY <2>1, <2>2, <2>3, <2>5 DEF PostsUpdate
  <2>6. CASE ~server
    BY <1>0, <2>1, <2>2, <2>3, <2>4, <2>6, QuietUpdate
  <2> QED BY <2>5, <2>6
<1>4. CASE CallExits(s) \/ Killed(s)
  <2>1. /\ Update(s, Dead(t)) /\ cut' = cut \cup {s} /\ t.ctrl \in Calls
        /\ UNCHANGED <<box, server, link, balance>>
    BY <1>4 DEF CallExits, Killed, Calls
  <2> QED BY <1>1, <1>2, <2>1 DEF Cuts
<1>5. CASE OutputWait(s) \/ SendFails(s)
  <2>1. t.ctrl = "running" /\ After(s) /\ UNCHANGED <<server, link, balance, cut>>
    BY <1>5 DEF OutputWait, SendFails, At, Others
  <2>2. CASE server
    <3> DEFINE u == [t EXCEPT !.ctrl = "unregistering"]
    <3>1. Update(s, u) /\ box' = Append(box, Msg("unregister", s))
      BY <2>1, <2>2 DEF After, Goes, Posts
    <3>2. u.ctrl = "unregistering" /\ u.frames = t.frames
      BY <1>0 DEF Session
    <3> HIDE DEF u
    <3> QED BY <1>1, <2>1, <2>2, <3>1, <3>2 DEF PostsUnregister
  <2>3. CASE ~server
    <3>1. Update(s, Dead(t)) /\ box' = box
      BY <2>1, <2>3 DEF After
    <3> QED BY <1>0, <1>2, <2>1, <2>3, <3>1, QuietUpdate
  <2> QED BY <2>2, <2>3
<1>6. CASE HolderReceives(s)
  <2>1. t.ctrl = "waiting" /\ UNCHANGED <<server, link, balance, cut>>
    BY <1>6 DEF HolderReceives, At, Others
  <2>2. CASE /\ Gets(s, "complete") /\ server
             /\ Update(s, [t EXCEPT !.ctrl = "registering", !.input = "loop",
                                    !.mail = Tail(@)])
             /\ Posts("register", s)
    <3> DEFINE u == [t EXCEPT !.ctrl = "registering", !.input = "loop",
                              !.mail = Tail(@)]
    <3>1. server /\ Update(s, u) /\ box' = Append(box, Msg("register", s))
      BY <2>2 DEF Posts
    <3>2. u.ctrl = "registering" /\ u.frames = t.frames
      BY <1>0 DEF Session
    <3> HIDE DEF u
    <3>3. Connected(s)
      <4>1. t.mail # <<>> /\ Head(t.mail) = "complete" /\ t.mail \in Seq(Mails)
        BY <1>0, <2>2, SessionShape DEF Gets
      <4>2. Len(t.mail) >= 1 /\ Len(t.mail) \in Nat /\ t.mail[1] = "complete"
        BY <4>1
      <4> QED BY <4>2 DEF Connected, Has, InMail
    <3> QED BY <1>1, <2>1, <3>1, <3>2, <3>3 DEF PostsRegister
  <2>3. CASE (Update(s, Dead(t)) \/ Update(s, Dead(Closed(t)))) /\ box' = box
    BY <1>0, <1>2, <2>1, <2>3, QuietUpdate
  <2> QED BY <1>6, <2>2, <2>3 DEF HolderReceives, StartController
<1> QED BY <1>3, <1>4, <1>5, <1>6

\* A message at the head of the mailbox, with its sender.
LEMMA HeadMessage ==
  ASSUME LinkInv, NEW w \in Requests, Handles(w)
  PROVE  /\ server /\ box # <<>> /\ box' = Tail(box) /\ Head(box).what = w
         /\ Head(box) = box[1] /\ 1 \in 1..Len(box)
         /\ Head(box) = Msg(w, Head(box).from)
         /\ Head(box).from \in IF w = "take" THEN Loops ELSE Sessions
<1>1. server /\ box # <<>> /\ box' = Tail(box) /\ Head(box).what = w
  BY DEF Handles
<1>2. TypeOK /\ CallsInv
  BY DEF LinkInv
<1>3. Len(box) \in Nat \ {0} /\ Head(box) = box[1] /\ Head(box) \in Message
  BY <1>1, <1>2, BoxTail
<1>4. Head(box) = Msg(w, Head(box).from)
  BY <1>1, <1>3, MsgShape
<1> QED BY <1>1, <1>2, <1>3, <1>4 DEF CallsInv

\* A step that only moves sessions leaves the controllers alone.
LEMMA SameElsewhere ==
  ASSUME TypeOK, Moving
  PROVE  \A r \in Sessions : SameCtrl(r)
BY MovingKeeps DEF SameProcesses, SameCtrl

LEMMA PrefaceKeeps ==
  ASSUME LinkInv, NEW s \in Sessions, IncomingPreface(s)
  PROVE  \A r \in Sessions : SameCtrl(r)
<1>1. TypeOK /\ ses[s] \in Session
  BY DEF LinkInv, TypeOK
<1>2. PICK u \in {[ses[s] EXCEPT !.at = "posted"],
                    [Closed(ses[s]) EXCEPT !.at = "lost"]} : Update(s, u)
  BY DEF IncomingPreface
<1>3. u.ctrl = ses[s].ctrl /\ u.frames = ses[s].frames
  BY <1>1 DEF Session, Closed
<1> QED BY <1>1, <1>2, <1>3, OneSession DEF SameCtrl

LEMMA KindLoop ==
  ASSUME LinkInv,
         \/ \E l \in Loops : \/ StartLoop(l) \/ TakeIncoming(l) \/ OfferSession(l)
                             \/ ForwardController(l) \/ LoopDies(l)
         \/ \E s \in Sessions : IncomingPreface(s) \/ UnsupportedProtocol(s)
         \/ UNCHANGED vars
  PROVE  QuietStep \/ PostsSession
<1>0. TypeOK
  BY DEF LinkInv
<1>1. \A r \in Sessions : ses[r].frames \in Int
  BY <1>0, SessionShape DEF TypeOK
<1>2. ASSUME \A r \in Sessions : SameCtrl(r),
             UNCHANGED <<box, server, link, balance, cut>>
      PROVE  QuietStep
  BY <1>1, <1>2 DEF SameCtrl, QuietStep, CtrlQuiet
<1>3. CASE UNCHANGED vars
  BY <1>2, <1>3 DEF vars, SameCtrl
<1>4. ASSUME NEW l \in Loops, ForwardController(l) PROVE QuietStep
  <2> DEFINE x == loop[l]
             u == [ses[x] EXCEPT !.parent = "handshake"]
  <2>1. /\ x \in Sessions /\ Update(x, u) /\ ses[x] \in Session
        /\ UNCHANGED <<box, server, link, balance, cut>>
    BY <1>0, <1>4 DEF ForwardController, TypeOK
  <2> HIDE DEF x
  <2>2. u \in Session /\ u.ctrl = ses[x].ctrl /\ u.frames = ses[x].frames
    BY <2>1 DEF Session
  <2> HIDE DEF u
  <2> QED BY <1>0, <1>1, <2>1, <2>2, QuietUpdate
<1>5. ASSUME NEW s \in Sessions, UnsupportedProtocol(s) PROVE QuietStep
  BY <1>0, <1>2, <1>5, SameElsewhere DEF UnsupportedProtocol, Moving
<1>6. ASSUME NEW l \in Loops, OfferSession(l) \/ LoopDies(l) PROVE QuietStep
  BY <1>0, <1>2, <1>6, SameElsewhere DEF OfferSession, LoopDies, Moving, Others
<1>7. ASSUME NEW l \in Loops, StartLoop(l) \/ TakeIncoming(l) PROVE PostsSession
  <2>1. server /\ Asks(l) /\ loop[l] \in {"none", "idle"}
    BY <1>7 DEF StartLoop, TakeIncoming
  <2>2. ~Waits("take", l)
    BY <2>1 DEF LinkInv, PlaceInv
  <2> QED BY <2>1, <2>2 DEF Asks, Posts, PostsSession, SameCtrl
<1>8. ASSUME NEW s \in Sessions, IncomingPreface(s) PROVE QuietStep \/ PostsSession
  <2>1. CASE UNCHANGED box
    <3>1. \A r \in Sessions : SameCtrl(r)
      BY <1>8, PrefaceKeeps
    <3> QED BY <1>2, <1>8, <2>1, <3>1 DEF IncomingPreface, Others
  <2>2. CASE box' # box
    <3>1. /\ server
          /\ box' = Append(box, Msg("incoming", s))
          /\ UNCHANGED <<server, link, balance, cut>>
      BY <1>8, <2>2 DEF IncomingPreface, Update, Posts, Others
    <3>2. \A r \in Sessions : SameCtrl(r)
      BY <1>8, PrefaceKeeps
    <3>3. ~Waits("incoming", s)
      BY <1>8 DEF IncomingPreface, LinkInv, PlaceInv
    <3> QED BY <3>1, <3>2, <3>3 DEF PostsSession
  <2> QED BY <2>1, <2>2
<1> QED BY <1>3, <1>4, <1>5, <1>6, <1>7, <1>8

\* The steps of the server.
LEMMA KindServer ==
  ASSUME LinkInv,
         \/ HandleIncoming \/ HandleTake \/ HandleUpdate \/ HandleRegister
         \/ HandleUnregister \/ ServerStops
  PROVE  \/ HandlesSession \/ Stops
         \/ \E s \in Sessions : \/ HandlesUpdate(s) \/ HandlesRegister(s)
                                \/ HandlesUnregister(s)
<1>0. TypeOK /\ ses \in [Sessions -> Session]
  BY DEF LinkInv, TypeOK
<1> DEFINE s == Head(box).from
<1>1. CASE HandleIncoming
  <2>1. Handles("incoming") /\ UNCHANGED <<server, link, balance, cut>>
    BY <1>1 DEF HandleIncoming
  <2>3. \A r \in Sessions : SameCtrl(r)
    BY <1>0, <1>1, SameElsewhere DEF Moving
  <2> QED BY <2>1, <2>3, HeadMessage DEF HandlesSession, Requests
<1>2. CASE HandleTake
  <2>1. Handles("take") /\ UNCHANGED <<server, link, balance, cut>>
    BY <1>2 DEF HandleTake
  <2>3. \A r \in Sessions : SameCtrl(r)
    BY <1>0, <1>2, SameElsewhere DEF Moving
  <2> QED BY <2>1, <2>3, HeadMessage DEF HandlesSession, Requests
<1>3. CASE HandleUpdate
  <2>1. Handles("update") /\ UNCHANGED <<ses, server, balance, cut>> /\ UpdateOwner(s)
    BY <1>3 DEF HandleUpdate
  <2>2. \A r \in Sessions : SameCtrl(r)
    BY <2>1 DEF SameCtrl
  <2>3. /\ server /\ box # <<>> /\ box' = Tail(box) /\ Head(box) = Msg("update", s)
        /\ s \in Sessions
    BY <2>1, HeadMessage DEF Requests
  <2> HIDE DEF s
  <2> QED BY <2>1, <2>2, <2>3 DEF HandlesUpdate
<1>4. CASE HandleRegister
  <2>1. /\ Handles("register") /\ UNCHANGED <<server, cut>>
        /\ link' = [owner |-> s, frames |-> 0] /\ balance' = balance + 1
        /\ ses' = IF ses[s].ctrl # "registering" THEN ses
                  ELSE [ses EXCEPT ![s].ctrl = "running",
                             ![s].parent = IF @ = "completing" THEN "up" ELSE @]
    BY <1>4 DEF HandleRegister
  <2>3. /\ server /\ box # <<>> /\ box' = Tail(box) /\ Head(box) = Msg("register", s)
        /\ s \in Sessions
    BY <2>1, HeadMessage DEF Requests
  <2> HIDE DEF s
  <2>2. /\ \A r \in Sessions \ {s} : SameCtrl(r)
        /\ ses'[s].ctrl = IF ses[s].ctrl = "registering" THEN "running" ELSE ses[s].ctrl
        /\ ses'[s].frames = ses[s].frames
    BY <1>0, <2>1, <2>3 DEF SameCtrl, Session
  <2> QED BY <2>1, <2>2, <2>3 DEF HandlesRegister
<1>5. CASE HandleUnregister
  <2>1. /\ Handles("unregister") /\ UNCHANGED <<server, cut>>
        /\ \/ link.owner = s /\ link' = NoLink /\ balance' = balance - 1
           \/ link.owner # s /\ UNCHANGED <<link, balance>>
        /\ ses' = IF ses[s].ctrl # "unregistering" THEN ses
                  ELSE [ses EXCEPT ![s] = Dead(Closed(@))]
    BY <1>5 DEF HandleUnregister
  <2>3. /\ server /\ box # <<>> /\ box' = Tail(box)
        /\ Head(box) = Msg("unregister", s) /\ s \in Sessions
    BY <2>1, HeadMessage DEF Requests
  <2> HIDE DEF s
  <2>4. /\ Dead(Closed(ses[s])).ctrl = "dead"
        /\ Dead(Closed(ses[s])).frames = ses[s].frames
    BY <1>0, <2>3, DeadShape, ClosedShape
  <2>2. /\ \A r \in Sessions \ {s} : SameCtrl(r)
        /\ ses'[s].ctrl = IF ses[s].ctrl = "unregistering" THEN "dead" ELSE ses[s].ctrl
        /\ ses'[s].frames = ses[s].frames
    BY <1>0, <2>1, <2>3, <2>4 DEF SameCtrl
  <2> QED BY <2>1, <2>2, <2>3 DEF HandlesUnregister
<1>6. CASE ServerStops
  <2>1. \A r \in Sessions : SameCtrl(r)
    BY <1>0, <1>6, SameElsewhere DEF Moving
  <2> QED BY <1>6, <2>1 DEF ServerStops, Stops
<1> QED BY <1>1, <1>2, <1>3, <1>4, <1>5, <1>6

\* Every step is of one of these kinds.
LEMMA StepKinds ==
  ASSUME LinkInv, [Next]_vars
  PROVE  \/ QuietStep \/ PostsSession \/ HandlesSession \/ Stops
         \/ \E s \in Sessions :
              \/ PostsUpdate(s) \/ PostsRegister(s) \/ PostsUnregister(s) \/ Cuts(s)
              \/ HandlesUpdate(s) \/ HandlesRegister(s) \/ HandlesUnregister(s)
<1>1. CASE CloseLink
  <2>1. link.owner \in Sessions
    BY <1>1 DEF CloseLink, LinkInv, TypeOK
  <2> QED BY <1>1, <2>1, KindEarly
<1> QED BY NextCases, <1>1, KindEarly, KindController, KindLoop, KindServer
------------------------------------------------------------------------------
\* The parts of CallsInv that speak of the mailbox alone, and of one session.
BoxInv ==
  /\ \A i \in 1..Len(box) :
       box[i].from \in IF box[i].what = "take" THEN Loops ELSE Sessions
  /\ \A i, j \in 1..Len(box) : box[i] = box[j] /\ box[i].what # "update" => i = j

CallOf(s) ==
  /\ ses[s].ctrl = "registering" /\ server => Waits("register", s)
  /\ ses[s].ctrl = "unregistering" /\ server => Waits("unregister", s)
  /\ Waits("register", s) => ses[s].ctrl = "registering" \/ s \in cut
  /\ Waits("unregister", s) => ses[s].ctrl = "unregistering" \/ s \in cut
  /\ s \in cut => ses[s].ctrl = "dead"

DownInv ==
  ~server => box = <<>> /\ queue = <<>> /\ waiter = NoLoop /\ link = NoLink

LEMMA CallsParts ==
  /\ CallsInv <=> BoxInv /\ DownInv /\ \A s \in Sessions : CallOf(s)
  /\ CallsInv' <=> BoxInv' /\ DownInv' /\ (\A s \in Sessions : CallOf(s)')
BY DEF CallsInv, BoxInv, DownInv, CallOf, At

LEMMA SenderInSessions ==
  ASSUME NEW w \in Requests, NEW s \in Sessions \cup Loops
  PROVE  Msg(w, s) \in Message /\ Msg(w, s).what = w /\ Msg(w, s).from = s
BY DEF Msg, Message

LEMMA WaitsPlace ==
  ASSUME NEW i \in 1..Len(box), NEW w, NEW s, box[i] = Msg(w, s)
  PROVE  Waits(w, s)
BY DEF Waits, Places

\* One more message, of a kind that is counted, or not there yet.
LEMMA BoxInvAppend ==
  ASSUME TypeOK, BoxInv, NEW w \in Requests,
         NEW s \in IF w = "take" THEN Loops ELSE Sessions, box' = Append(box, Msg(w, s)),
         w = "update" \/ ~Waits(w, s)
  PROVE  BoxInv'
<1> DEFINE m == Msg(w, s)
<1>1. m \in Message /\ m.what = w /\ m.from = s
  BY SenderInSessions
<1>2. /\ Len(box) \in Nat /\ Len(box') = Len(box) + 1
      /\ \A i \in 1..Len(box) : box'[i] = box[i]
      /\ box'[Len(box) + 1] = m
  BY <1>1, BoxAppend
<1>3. \A i \in 1..Len(box) : box[i] = m => w = "update"
  BY WaitsPlace
<1> HIDE DEF m
<1>4. \A i \in 1..Len(box') :
        box'[i].from \in IF box'[i].what = "take" THEN Loops ELSE Sessions
  BY <1>1, <1>2 DEF BoxInv
<1>5. ASSUME NEW i \in 1..Len(box'), NEW j \in 1..Len(box'),
             box'[i] = box'[j], box'[i].what # "update"
      PROVE  i = j
  <2>1. CASE i \in 1..Len(box) /\ j \in 1..Len(box)
    BY <1>2, <1>5, <2>1 DEF BoxInv
  <2>2. CASE i = Len(box) + 1 /\ j \in 1..Len(box)
    BY <1>1, <1>2, <1>3, <1>5, <2>2
  <2>3. CASE j = Len(box) + 1 /\ i \in 1..Len(box)
    BY <1>1, <1>2, <1>3, <1>5, <2>3
  <2> QED BY <1>2, <2>1, <2>2, <2>3
<1> QED BY <1>4, <1>5 DEF BoxInv

\* One message less; a message that is not counted is then gone.
LEMMA BoxInvTail ==
  ASSUME TypeOK, BoxInv, box # <<>>, box' = Tail(box)
  PROVE  /\ BoxInv'
         /\ \A w, s : Head(box) = Msg(w, s) /\ w # "update" => ~Waits(w, s)'
<1>2. /\ Len(box) \in Nat \ {0} /\ Len(box') = Len(box) - 1
      /\ \A i \in 1..Len(box') : i + 1 \in 1..Len(box) /\ box'[i] = box[i + 1]
      /\ Head(box) = box[1]
  BY BoxTail
<1>4. \A i \in 1..Len(box') :
        box'[i].from \in IF box'[i].what = "take" THEN Loops ELSE Sessions
  BY <1>2 DEF BoxInv
<1>5. ASSUME NEW i \in 1..Len(box'), NEW j \in 1..Len(box'),
             box'[i] = box'[j], box'[i].what # "update"
      PROVE  i = j
  <2>1. i + 1 = j + 1
    BY <1>2, <1>5 DEF BoxInv
  <2> QED BY <1>2, <2>1
<1>6. ASSUME NEW w, NEW s, Head(box) = Msg(w, s), w # "update", Waits(w, s)'
      PROVE  FALSE
  <2>1. PICK i \in 1..Len(box') : box'[i] = Msg(w, s)
    BY <1>6 DEF Waits, Places, Msg
  <2>2. box[i + 1] = box[1] /\ i + 1 \in 1..Len(box) /\ 1 \in 1..Len(box)
    BY <1>2, <1>6, <2>1
  <2>3. box[1].what = w
    BY <1>2, <1>6 DEF Msg
  <2>4. i + 1 = 1
    BY <1>6, <2>2, <2>3 DEF BoxInv
  <2> QED BY <2>4, <1>2
<1> QED BY <1>4, <1>5, <1>6 DEF BoxInv

LEMMA StepBoxInv ==
  ASSUME LinkInv, [Next]_vars
  PROVE  BoxInv'
<1>0. TypeOK /\ BoxInv /\ \A s \in Sessions : CallOf(s)
  BY CallsParts DEF LinkInv
<1>1. CASE QuietStep \/ \E s \in Sessions : Cuts(s)
  <2>1. box' = box
    BY <1>1 DEF QuietStep, Cuts
  <2> QED BY <1>0, <2>1 DEF BoxInv
<1>2. CASE PostsSession
  BY <1>0, <1>2, BoxInvAppend DEF PostsSession, Requests
<1>3. ASSUME NEW s \in Sessions,
             PostsUpdate(s) \/ PostsRegister(s) \/ PostsUnregister(s)
      PROVE  BoxInv'
  <2>1. PICK w \in {"update", "register", "unregister"} :
          /\ box' = Append(box, Msg(w, s))
          /\ w = "register" => ses[s].ctrl = "waiting"
          /\ w = "unregister" => ses[s].ctrl = "running"
    BY <1>3 DEF PostsUpdate, PostsRegister, PostsUnregister
  <2>2. w = "update" \/ ~Waits(w, s)
    BY <1>0, <2>1 DEF CallOf
  <2> QED BY <1>0, <2>1, <2>2, BoxInvAppend DEF Requests
<1>4. CASE HandlesSession \/ \E s \in Sessions : HandlesUpdate(s) \/ HandlesRegister(s)
                                                \/ HandlesUnregister(s)
  <2>1. box # <<>> /\ box' = Tail(box)
    BY <1>4 DEF HandlesSession, HandlesUpdate, HandlesRegister, HandlesUnregister
  <2> QED BY <1>0, <2>1, BoxInvTail
<1>5. CASE Stops
  <2>1. Len(box') = 0
    BY <1>5 DEF Stops
  <2> QED BY <2>1 DEF BoxInv
<1> QED BY <1>1, <1>2, <1>3, <1>4, <1>5, StepKinds

\* The messages of a kind after each kind of step.
LEMMA StepWaits ==
  ASSUME LinkInv, NEW r \in Sessions, NEW w \in {"register", "unregister"}
  PROVE  /\ QuietStep \/ (\E s \in Sessions : Cuts(s)) => (Waits(w, r)' <=> Waits(w, r))
         /\ PostsSession \/ HandlesSession => (Waits(w, r)' <=> Waits(w, r))
         /\ \A s \in Sessions : PostsUpdate(s) \/ HandlesUpdate(s) =>
              (Waits(w, r)' <=> Waits(w, r))
         /\ \A s \in Sessions : PostsRegister(s) =>
              (Waits(w, r)' <=> Waits(w, r) \/ (w = "register" /\ r = s))
         /\ \A s \in Sessions : PostsUnregister(s) =>
              (Waits(w, r)' <=> Waits(w, r) \/ (w = "unregister" /\ r = s))
         /\ \A s \in Sessions : HandlesRegister(s) =>
              /\ Waits("register", s)
              /\ Waits(w, r)' <=> Waits(w, r) /\ ~(w = "register" /\ r = s)
         /\ \A s \in Sessions : HandlesUnregister(s) =>
              /\ Waits("unregister", s)
              /\ Waits(w, r)' <=> Waits(w, r) /\ ~(w = "unregister" /\ r = s)
         /\ Stops => ~Waits(w, r)'
<1>0. TypeOK /\ BoxInv
  BY CallsParts DEF LinkInv
<1>1. ASSUME QuietStep \/ \E s \in Sessions : Cuts(s)
      PROVE  Waits(w, r)' <=> Waits(w, r)
  BY <1>1, WaitsSame DEF QuietStep, Cuts
<1>2. ASSUME NEW v \in Requests, NEW s \in Sessions \cup Loops,
             box' = Append(box, Msg(v, s))
      PROVE  Waits(w, r)' <=> Waits(w, r) \/ (w = v /\ r = s)
  <2>1. Msg(v, s) \in Message
    BY SenderInSessions
  <2>2. Waits(w, r)' <=> Waits(w, r) \/ Msg(v, s) = Msg(w, r)
    BY <1>0, <1>2, <2>1, WaitsAppend
  <2> QED BY <2>2 DEF Msg
<1>3. ASSUME box # <<>>, box' = Tail(box)
      PROVE  /\ Head(box) # Msg(w, r) => (Waits(w, r)' <=> Waits(w, r))
             /\ Head(box) = Msg(w, r) => Waits(w, r) /\ ~Waits(w, r)'
             /\ \A v, s : Head(box) = Msg(v, s) => Waits(v, s)
  BY <1>0, <1>3, WaitsTail, BoxInvTail
<1>4. ASSUME PostsSession PROVE Waits(w, r)' <=> Waits(w, r)
  BY <1>2, <1>4 DEF PostsSession, Requests
<1>5. ASSUME HandlesSession PROVE Waits(w, r)' <=> Waits(w, r)
  <2>1. Head(box) # Msg(w, r)
    BY <1>5 DEF HandlesSession, Msg
  <2> QED BY <1>3, <1>5, <2>1 DEF HandlesSession
<1>6. ASSUME NEW s \in Sessions, PostsUpdate(s) PROVE Waits(w, r)' <=> Waits(w, r)
  BY <1>2, <1>6 DEF PostsUpdate, Requests
<1>7. ASSUME NEW s \in Sessions, HandlesUpdate(s) PROVE Waits(w, r)' <=> Waits(w, r)
  <2>1. Head(box) # Msg(w, r)
    BY <1>7 DEF HandlesUpdate, Msg
  <2> QED BY <1>3, <1>7, <2>1 DEF HandlesUpdate
<1>8. ASSUME NEW s \in Sessions, PostsRegister(s)
      PROVE  Waits(w, r)' <=> Waits(w, r) \/ (w = "register" /\ r = s)
  BY <1>2, <1>8 DEF PostsRegister, Requests
<1>9. ASSUME NEW s \in Sessions, PostsUnregister(s)
      PROVE  Waits(w, r)' <=> Waits(w, r) \/ (w = "unregister" /\ r = s)
  BY <1>2, <1>9 DEF PostsUnregister, Requests
<1>10. ASSUME NEW s \in Sessions, HandlesRegister(s)
       PROVE  /\ Waits("register", s)
              /\ Waits(w, r)' <=> Waits(w, r) /\ ~(w = "register" /\ r = s)
  <2>1. Head(box) = Msg("register", s) /\ box # <<>> /\ box' = Tail(box)
    BY <1>10 DEF HandlesRegister
  <2>2. Head(box) = Msg(w, r) <=> w = "register" /\ r = s
    BY <2>1 DEF Msg
  <2> QED BY <1>3, <2>1, <2>2
<1>11. ASSUME NEW s \in Sessions, HandlesUnregister(s)
       PROVE  /\ Waits("unregister", s)
              /\ Waits(w, r)' <=> Waits(w, r) /\ ~(w = "unregister" /\ r = s)
  <2>1. Head(box) = Msg("unregister", s) /\ box # <<>> /\ box' = Tail(box)
    BY <1>11 DEF HandlesUnregister
  <2>2. Head(box) = Msg(w, r) <=> w = "unregister" /\ r = s
    BY <2>1 DEF Msg
  <2> QED BY <1>3, <2>1, <2>2
<1>12. ASSUME Stops PROVE ~Waits(w, r)'
  <2>1. Len(box') = 0
    BY <1>12 DEF Stops
  <2> QED BY <2>1 DEF Waits, Places
<1> QED BY <1>1, <1>4, <1>5, <1>6, <1>7, <1>8, <1>9, <1>10, <1>11, <1>12

LEMMA StepCalls ==
  ASSUME LinkInv, [Next]_vars, NEW r \in Sessions
  PROVE  CallOf(r)'
<1>0. TypeOK /\ CallOf(r)
  BY CallsParts DEF LinkInv
<1>1. CASE QuietStep
  <2>1. /\ Waits("register", r)' <=> Waits("register", r)
        /\ Waits("unregister", r)' <=> Waits("unregister", r)
    BY <1>1, StepWaits
  <2>2. server' = server /\ cut' = cut /\ CtrlQuiet(r) /\ (~server => box = <<>>)
    BY <1>1 DEF QuietStep, LinkInv, CallsInv
  <2>3. CASE ses'[r].ctrl = ses[r].ctrl
    BY <1>0, <2>1, <2>2, <2>3 DEF CallOf
  <2>4. CASE ses'[r].ctrl # ses[r].ctrl
    <3>1. ses[r].ctrl \notin {"registering", "unregistering", "dead"}
          /\ ses'[r].ctrl \notin {"registering", "unregistering"}
      BY <2>2, <2>4 DEF CtrlQuiet
    <3> QED BY <1>0, <2>1, <2>2, <3>1 DEF CallOf
  <2> QED BY <2>3, <2>4
<1>2. CASE \/ PostsSession \/ HandlesSession
           \/ \E s \in Sessions : PostsUpdate(s) \/ HandlesUpdate(s)
  <2>1. /\ Waits("register", r)' <=> Waits("register", r)
        /\ Waits("unregister", r)' <=> Waits("unregister", r)
    BY <1>2, StepWaits
  <2>2. server' = server /\ cut' = cut /\ ses'[r].ctrl = ses[r].ctrl
    BY <1>2 DEF PostsSession, HandlesSession, PostsUpdate, HandlesUpdate,
       SameCtrl
  <2> QED BY <1>0, <2>1, <2>2 DEF CallOf
<1>3. ASSUME NEW s \in Sessions, PostsRegister(s) PROVE CallOf(r)'
  <2>1. /\ Waits("register", r)' <=> Waits("register", r) \/ r = s
        /\ Waits("unregister", r)' <=> Waits("unregister", r)
    BY <1>3, StepWaits
  <2>2. /\ server' = server /\ cut' = cut
        /\ r # s => ses'[r].ctrl = ses[r].ctrl
        /\ r = s => ses[r].ctrl = "waiting" /\ ses'[r].ctrl = "registering"
    BY <1>3 DEF PostsRegister, SameCtrl
  <2> QED BY <1>0, <2>1, <2>2 DEF CallOf
<1>4. ASSUME NEW s \in Sessions, PostsUnregister(s) PROVE CallOf(r)'
  <2>1. /\ Waits("register", r)' <=> Waits("register", r)
        /\ Waits("unregister", r)' <=> Waits("unregister", r) \/ r = s
    BY <1>4, StepWaits
  <2>2. /\ server' = server /\ cut' = cut
        /\ r # s => ses'[r].ctrl = ses[r].ctrl
        /\ r = s => ses[r].ctrl = "running" /\ ses'[r].ctrl = "unregistering"
    BY <1>4 DEF PostsUnregister, SameCtrl
  <2> QED BY <1>0, <2>1, <2>2 DEF CallOf
<1>5. ASSUME NEW s \in Sessions, Cuts(s) PROVE CallOf(r)'
  <2>1. /\ Waits("register", r)' <=> Waits("register", r)
        /\ Waits("unregister", r)' <=> Waits("unregister", r)
    BY <1>5, StepWaits
  <2>2. /\ server' = server /\ cut' = cut \cup {s}
        /\ r # s => ses'[r].ctrl = ses[r].ctrl
        /\ r = s => ses'[r].ctrl = "dead"
    BY <1>5 DEF Cuts, SameCtrl
  <2> QED BY <1>0, <2>1, <2>2 DEF CallOf
<1>6. ASSUME NEW s \in Sessions, HandlesRegister(s) PROVE CallOf(r)'
  <2>1. /\ Waits("register", r)' <=> Waits("register", r) /\ r # s
        /\ Waits("unregister", r)' <=> Waits("unregister", r)
    BY <1>6, StepWaits
  <2>2. /\ server' = server /\ cut' = cut
        /\ r # s => ses'[r].ctrl = ses[r].ctrl
        /\ r = s => ses'[r].ctrl = IF ses[r].ctrl = "registering" THEN "running"
                                  ELSE ses[r].ctrl
    BY <1>6 DEF HandlesRegister, SameCtrl
  <2> QED BY <1>0, <2>1, <2>2 DEF CallOf
<1>7. ASSUME NEW s \in Sessions, HandlesUnregister(s) PROVE CallOf(r)'
  <2>1. /\ Waits("register", r)' <=> Waits("register", r)
        /\ Waits("unregister", r)' <=> Waits("unregister", r) /\ r # s
    BY <1>7, StepWaits
  <2>2. /\ server' = server /\ cut' = cut
        /\ r # s => ses'[r].ctrl = ses[r].ctrl
        /\ r = s => ses'[r].ctrl = IF ses[r].ctrl = "unregistering" THEN "dead"
                                  ELSE ses[r].ctrl
    BY <1>7 DEF HandlesUnregister, SameCtrl
  <2> QED BY <1>0, <2>1, <2>2 DEF CallOf
<1>8. CASE Stops
  <2>1. ~Waits("register", r)' /\ ~Waits("unregister", r)'
    BY <1>8, StepWaits
  <2>2. server' = FALSE /\ cut' = cut /\ ses'[r].ctrl = ses[r].ctrl
    BY <1>8 DEF Stops, SameCtrl
  <2> QED BY <1>0, <2>1, <2>2 DEF CallOf
<1> QED BY <1>1, <1>2, <1>3, <1>4, <1>5, <1>6, <1>7, <1>8, StepKinds

\* The registrations in the mailbox.
RegOrder == \A i, j \in 1..Len(box) :
  box[i].what = "register" /\ box[j].what = "register" /\ i < j => box[i].from \in cut

NoReg == \A i \in 1..Len(box) : box[i].what # "register"

LEMMA OrderParts ==
  /\ OrderInv <=> RegOrder /\ \A s \in Sessions : Up(ses[s]) => NoReg
  /\ OrderInv' <=> RegOrder' /\ (\A s \in Sessions : Up(ses'[s]) => NoReg')
BY DEF OrderInv, RegOrder, NoReg

LEMMA OrderSame ==
  ASSUME TypeOK, box' = box, cut \subseteq cut'
  PROVE  /\ RegOrder => RegOrder'
         /\ NoReg => NoReg'
BY DEF RegOrder, NoReg

LEMMA OrderTail ==
  ASSUME TypeOK, box # <<>>, box' = Tail(box), cut' = cut
  PROVE  /\ RegOrder => RegOrder'
         /\ NoReg => NoReg'
         /\ RegOrder /\ Head(box).what = "register" /\ Head(box).from \notin cut => NoReg'
<1>1. /\ Len(box) \in Nat \ {0} /\ Len(box') = Len(box) - 1
      /\ \A i \in 1..Len(box') : i + 1 \in 1..Len(box) /\ box'[i] = box[i + 1]
      /\ Head(box) = box[1]
  BY BoxTail
<1>2. ASSUME RegOrder PROVE RegOrder'
  <2> SUFFICES ASSUME NEW i \in 1..Len(box'), NEW j \in 1..Len(box'),
                      box'[i].what = "register", box'[j].what = "register", i < j
               PROVE  box'[i].from \in cut
    BY DEF RegOrder
  <2>1. /\ i + 1 \in 1..Len(box) /\ j + 1 \in 1..Len(box) /\ i + 1 < j + 1
        /\ box[i + 1].what = "register" /\ box[j + 1].what = "register"
    BY <1>1
  <2> QED BY <1>1, <1>2, <2>1 DEF RegOrder
<1>3. ASSUME NoReg PROVE NoReg'
  BY <1>1, <1>3 DEF NoReg
<1>4. ASSUME RegOrder, Head(box).what = "register", Head(box).from \notin cut
      PROVE  NoReg'
  <2> SUFFICES ASSUME NEW i \in 1..Len(box'), box'[i].what = "register" PROVE FALSE
    BY DEF NoReg
  <2>1. i + 1 \in 1..Len(box) /\ 1 \in 1..Len(box) /\ 1 < i + 1
        /\ box[i + 1].what = "register" /\ box[1].what = "register"
    BY <1>1, <1>4
  <2> QED BY <1>1, <1>4, <2>1 DEF RegOrder
<1> QED BY <1>2, <1>3, <1>4

LEMMA OrderAppend ==
  ASSUME TypeOK, NEW m \in Message, box' = Append(box, m), cut' = cut
  PROVE  /\ m.what # "register" /\ RegOrder => RegOrder'
         /\ m.what # "register" /\ NoReg => NoReg'
         /\ RegOrder /\ (\A i \in 1..Len(box) :
                          box[i].what = "register" => box[i].from \in cut) => RegOrder'
<1>1. /\ Len(box) \in Nat /\ Len(box') = Len(box) + 1
      /\ \A i \in 1..Len(box) : box'[i] = box[i]
      /\ box'[Len(box) + 1] = m
  BY BoxAppend
<1>2. \A i \in 1..Len(box') : i \in 1..Len(box) \/ i = Len(box) + 1
  BY <1>1
<1>3. ASSUME RegOrder,
             m.what # "register" \/ \A i \in 1..Len(box) :
                                      box[i].what = "register" => box[i].from \in cut
      PROVE  RegOrder'
  <2> SUFFICES ASSUME NEW i \in 1..Len(box'), NEW j \in 1..Len(box'),
                      box'[i].what = "register", box'[j].what = "register", i < j
               PROVE  box'[i].from \in cut
    BY DEF RegOrder
  <2>1. i \in 1..Len(box) /\ box'[i] = box[i]
    BY <1>1, <1>2
  <2>2. CASE j \in 1..Len(box)
    BY <1>1, <1>3, <2>1, <2>2 DEF RegOrder
  <2>3. CASE j = Len(box) + 1
    BY <1>1, <1>3, <2>1, <2>3
  <2> QED BY <1>2, <2>2, <2>3
<1>4. ASSUME NoReg, m.what # "register" PROVE NoReg'
  BY <1>1, <1>2, <1>4 DEF NoReg
<1> QED BY <1>3, <1>4

LEMMA StepOrder ==
  ASSUME LinkInv, [Next]_vars
  PROVE  OrderInv'
<1>0. TypeOK /\ RegOrder /\ (\A s \in Sessions : Up(ses[s]) => NoReg)
      /\ (\A s \in Sessions : CallOf(s)) /\ BoxInv /\ OneConnected
  BY CallsParts, OrderParts DEF LinkInv
<1>1. CASE QuietStep \/ \E s \in Sessions : Cuts(s)
  <2>1. box' = box /\ cut \subseteq cut'
    BY <1>1 DEF QuietStep, Cuts
  <2>2. \A s \in Sessions : Up(ses'[s]) => Up(ses[s])
    BY <1>1 DEF Up, QuietStep, Cuts, CtrlQuiet, SameCtrl
  <2> QED BY <1>0, <2>1, <2>2, OrderSame, OrderParts
<1>2. CASE PostsSession \/ \E s \in Sessions : PostsUpdate(s) \/ PostsUnregister(s)
  <2>1. PICK m \in Message :
          box' = Append(box, m) /\ cut' = cut /\ m.what # "register"
    <3>1. ASSUME NEW w \in {"take", "incoming", "update", "unregister"},
                 NEW s \in Sessions \cup Loops
          PROVE  Msg(w, s) \in Message /\ Msg(w, s).what # "register"
      BY SenderInSessions DEF Requests
    <3> QED BY <1>2, <3>1 DEF PostsSession, PostsUpdate, PostsUnregister
  <2>2. \A s \in Sessions : Up(ses'[s]) => Up(ses[s])
    BY <1>2 DEF Up, PostsSession, PostsUpdate, PostsUnregister, SameCtrl
  <2> QED BY <1>0, <2>1, <2>2, OrderAppend, OrderParts
<1>3. ASSUME NEW s \in Sessions, PostsRegister(s) PROVE OrderInv'
  <2>1. /\ Msg("register", s) \in Message /\ box' = Append(box, Msg("register", s))
        /\ cut' = cut /\ Connected(s) /\ ses[s].ctrl = "waiting"
    BY <1>3, SenderInSessions DEF PostsRegister, Requests
  <2>2. \A r \in Sessions : ses[r].ctrl \notin Calls
    BY <1>0, <2>1 DEF OneConnected, Connected, Calls
  <2>3. ASSUME NEW i \in 1..Len(box), box[i].what = "register"
        PROVE  box[i].from \in cut
    <3>1. box[i].from \in Sessions /\ box[i] \in Message
      BY <1>0, <2>3, BoxElement DEF BoxInv
    <3>2. Waits("register", box[i].from)
      BY <2>3, <3>1, MsgShape, WaitsPlace
    <3> QED BY <1>0, <2>2, <3>1, <3>2 DEF CallOf, Calls
  <2>4. \A r \in Sessions : ~Up(ses'[r])
    BY <1>3, <2>2 DEF Up, Calls, PostsRegister, SameCtrl
  <2> QED BY <1>0, <2>1, <2>3, <2>4, OrderAppend, OrderParts
<1>4. CASE \/ HandlesSession
           \/ \E s \in Sessions : HandlesUpdate(s) \/ HandlesUnregister(s)
  <2>1. box # <<>> /\ box' = Tail(box) /\ cut' = cut
    BY <1>4 DEF HandlesSession, HandlesUpdate, HandlesUnregister
  <2>2. \A s \in Sessions : Up(ses'[s]) => Up(ses[s])
    BY <1>4 DEF Up, HandlesSession, HandlesUpdate, HandlesUnregister, SameCtrl
  <2> QED BY <1>0, <2>1, <2>2, OrderTail, OrderParts
<1>5. ASSUME NEW s \in Sessions, HandlesRegister(s) PROVE OrderInv'
  <2>1. /\ box # <<>> /\ box' = Tail(box) /\ cut' = cut
        /\ Head(box).what = "register" /\ Head(box).from = s
    BY <1>5 DEF HandlesRegister, Msg
  <2>2. ASSUME NEW r \in Sessions, Up(ses'[r]) PROVE NoReg'
    <3>1. CASE Up(ses[r])
      BY <1>0, <2>1, <3>1, OrderTail
    <3>2. CASE ~Up(ses[r])
      <4>1. r = s /\ ses[s].ctrl = "registering"
        BY <1>5, <2>2, <3>2 DEF HandlesRegister, SameCtrl, Up
      <4>2. s \notin cut
        BY <1>0, <4>1 DEF CallOf
      <4> QED BY <1>0, <2>1, <4>2, OrderTail
    <3> QED BY <3>1, <3>2
  <2> QED BY <1>0, <2>1, <2>2, OrderTail, OrderParts
<1>6. CASE Stops
  <2>1. Len(box') = 0
    BY <1>6 DEF Stops
  <2> QED BY <2>1 DEF OrderInv
<1> QED BY <1>1, <1>2, <1>3, <1>4, <1>5, <1>6, StepKinds

\* While a registration is at the head of the mailbox nobody is up.
LEMMA NobodyUp ==
  ASSUME LinkInv, NEW s \in Sessions, HandlesRegister(s)
  PROVE  \A r \in Sessions : ~Up(ses[r])
<1>1. box # <<>> /\ box' = Tail(box) /\ Head(box).what = "register"
  BY DEF HandlesRegister, Msg
<1>2. Len(box) \in Nat \ {0} /\ box[1].what = "register"
  BY <1>1, BoxTail DEF LinkInv
<1> QED BY <1>2 DEF LinkInv, OrderInv

LEMMA StepRegistered ==
  ASSUME LinkInv, [Next]_vars
  PROVE  RunningIsRegistered'
<1> SUFFICES ASSUME NEW r \in Sessions, Up(ses'[r]), server' PROVE link'.owner = r
  BY DEF RunningIsRegistered
<1>0. TypeOK /\ CallOf(r) /\ (Up(ses[r]) /\ server => link.owner = r)
  BY CallsParts DEF LinkInv, RunningIsRegistered
<1>1. CASE \/ QuietStep \/ PostsSession \/ HandlesSession
           \/ \E s \in Sessions : PostsUpdate(s) \/ PostsRegister(s)
                                 \/ PostsUnregister(s) \/ Cuts(s)
  <2>1. link' = link /\ server' = server
    BY <1>1 DEF QuietStep, PostsSession, HandlesSession, PostsUpdate,
       PostsRegister,
       PostsUnregister, Cuts
  <2>2. Up(ses[r])
    BY <1>1 DEF Up, QuietStep, CtrlQuiet, SameCtrl, PostsSession, HandlesSession,
       PostsUpdate, PostsRegister, PostsUnregister, Cuts
  <2> QED BY <1>0, <2>1, <2>2
<1>2. ASSUME NEW s \in Sessions, HandlesUpdate(s) PROVE link'.owner = r
  <2>1. link'.owner = link.owner /\ server
    BY <1>0, <1>2 DEF HandlesUpdate, UpdateOwner, TypeOK
  <2>2. Up(ses[r])
    BY <1>2 DEF Up, HandlesUpdate, SameCtrl
  <2> QED BY <1>0, <2>1, <2>2
<1>3. ASSUME NEW s \in Sessions, HandlesRegister(s) PROVE link'.owner = r
  <2>1. link'.owner = s
    BY <1>3 DEF HandlesRegister
  <2>2. r = s
    BY <1>3, NobodyUp DEF Up, HandlesRegister, SameCtrl
  <2> QED BY <2>1, <2>2
<1>4. ASSUME NEW s \in Sessions, HandlesUnregister(s) PROVE link'.owner = r
  <2>1. Waits("unregister", s)
    BY <1>4, StepWaits
  <2>2. r # s
    <3>1. ASSUME r = s PROVE FALSE
      <4>1. ses[s].ctrl \in {"unregistering", "dead"}
        BY <1>0, <2>1, <3>1 DEF CallOf
      <4> QED BY <1>4, <3>1, <4>1 DEF HandlesUnregister, Up
    <3> QED BY <3>1
  <2>3. Up(ses[r]) /\ server
    BY <1>4, <2>2 DEF Up, HandlesUnregister, SameCtrl
  <2> QED BY <1>0, <1>4, <2>2, <2>3 DEF HandlesUnregister
<1> QED BY <1>1, <1>2, <1>3, <1>4, StepKinds DEF Stops

\* The type of what the server keeps.
LEMMA StepServerType ==
  ASSUME LinkInv, [Next]_vars
  PROVE  /\ box' \in Seq(Message) /\ server' \in BOOLEAN
         /\ link' \in [owner : Sessions \cup {NoSession}, frames : Nat]
         /\ balance' \in Nat /\ cut' \subseteq Sessions
<1>0. TypeOK /\ box \in Seq(Message) /\ BalanceInv
  BY DEF LinkInv, TypeOK, Message
<1>1. box' \in Seq(Message)
  <2>1. CASE box' = box \/ box' = <<>>
    <3>1. <<>> \in Seq(Message)
      OBVIOUS
    <3> QED BY <1>0, <2>1, <3>1
  <2>2. CASE box # <<>> /\ box' = Tail(box)
    BY <1>0, <2>2, BoxTail
  <2>3. CASE \E w \in Requests, s \in Sessions \cup Loops :
               box' = Append(box, Msg(w, s))
    BY <1>0, <2>3, BoxAppend, SenderInSessions
  <2> QED
    BY StepKinds, <2>1, <2>2, <2>3 DEF QuietStep, PostsSession, HandlesSession,
       PostsUpdate, PostsRegister, PostsUnregister, Cuts, HandlesUpdate, HandlesRegister,
       HandlesUnregister, Stops, Requests
<1>2. server' \in BOOLEAN /\ cut' \subseteq Sessions
  BY <1>0, StepKinds DEF QuietStep, PostsSession, HandlesSession,
       PostsUpdate, PostsRegister, PostsUnregister, Cuts, HandlesUpdate, HandlesRegister,
       HandlesUnregister, Stops, TypeOK
<1>3. link' \in [owner : Sessions \cup {NoSession}, frames : Nat] /\ balance' \in Nat
  <2>1. CASE link' = link /\ balance' = balance
    BY <1>0, <2>1 DEF TypeOK
  <2>2. CASE link' = NoLink /\ balance' = balance
    BY <1>0, <2>2 DEF NoLink, TypeOK
  <2>3. ASSUME NEW s \in Sessions, HandlesUpdate(s) PROVE <1>3
    <3>1. /\ link \in [owner : Sessions \cup {NoSession}, frames : Nat]
          /\ balance \in Nat /\ balance' = balance
          /\ link' = link \/ link' = [link EXCEPT !.frames = link.frames + 1]
      BY <1>0, <2>3 DEF HandlesUpdate, UpdateOwner, TypeOK
    <3>2. link.frames + 1 \in Nat
      BY <3>1
    <3> QED BY <3>1, <3>2
  <2>4. ASSUME NEW s \in Sessions, HandlesRegister(s) PROVE <1>3
    BY <1>0, <2>4 DEF HandlesRegister, TypeOK
  <2>5. ASSUME NEW s \in Sessions, HandlesUnregister(s) PROVE <1>3
    <3>1. CASE link.owner = s
      <4>1. balance > 0 /\ link' = NoLink /\ balance' = balance - 1
        BY <1>0, <2>5, <3>1, SessionsAssumption DEF HandlesUnregister, BalanceInv
      <4> QED BY <1>0, <4>1 DEF TypeOK, NoLink
    <3>2. CASE link.owner # s
      BY <2>1, <2>5, <3>2 DEF HandlesUnregister
    <3> QED BY <3>1, <3>2
  <2> QED BY StepKinds, <2>1, <2>2, <2>3, <2>4, <2>5 DEF QuietStep, PostsSession,
       HandlesSession, PostsUpdate, PostsRegister, PostsUnregister, Cuts, Stops
<1> QED BY <1>1, <1>2, <1>3

\* The owner of the link.
OwnerInv ==
  link.owner # NoSession =>
    /\ balance > 0
    /\ Up(ses[link.owner]) \/ link.owner \in cut
    /\ ~Waits("register", link.owner)

LEMMA StepOwner ==
  ASSUME LinkInv, [Next]_vars
  PROVE  OwnerInv' /\ (link'.owner = NoSession => link'.frames = 0)
<1>0. TypeOK /\ OwnerInv /\ (link.owner = NoSession => link.frames = 0)
      /\ (\A s \in Sessions : CallOf(s)) /\ DownInv
  BY CallsParts DEF LinkInv, BalanceInv, OwnerInv
<1>a. NoSession \notin Sessions /\ link.owner \in Sessions \cup {NoSession}
  BY <1>0, SessionsAssumption DEF TypeOK
<1>b. CASE link'.owner = NoSession /\ link'.frames = 0
  BY <1>b DEF OwnerInv
<1>c. ASSUME NEW o \in Sessions, link.owner = o, link'.owner = o, balance' = balance,
             Up(ses'[o]) \/ o \in cut', ~Waits("register", o)'
      PROVE  OwnerInv' /\ (link'.owner = NoSession => link'.frames = 0)
  <2>1. Waits("register", link.owner)' <=> Waits("register", o)'
    BY <1>c DEF Waits, Places, Msg
  <2> QED BY <1>0, <1>a, <1>c, <2>1 DEF OwnerInv
<1>1. CASE \/ QuietStep \/ PostsSession \/ HandlesSession
           \/ \E s \in Sessions : PostsUpdate(s) \/ PostsUnregister(s) \/ Cuts(s)
  <2>1. link' = link /\ balance' = balance
    BY <1>1 DEF QuietStep, PostsSession, HandlesSession, PostsUpdate,
       PostsUnregister, Cuts
  <2>2. CASE link.owner = NoSession
    BY <1>0, <1>b, <2>1, <2>2
  <2>3. CASE link.owner # NoSession
    <3>a. PICK o \in Sessions : o = link.owner
      BY <1>a, <2>3
    <3>0. ~Waits("register", o) /\ (Up(ses[o]) \/ o \in cut)
      BY <1>0, <2>3, <3>a DEF OwnerInv
    <3>1. ~Waits("register", o)'
      BY <1>1, <3>0, StepWaits
    <3>2. server
      BY <1>0, <2>3 DEF DownInv, NoLink
    <3>3. Up(ses'[o]) \/ o \in cut'
      <4>2. CASE QuietStep
        BY <3>0, <3>2, <4>2 DEF QuietStep, CtrlQuiet, Up
      <4>3. CASE PostsSession \/ HandlesSession
        BY <3>0, <4>3 DEF PostsSession, HandlesSession, SameCtrl, Up
      <4>4. ASSUME NEW s \in Sessions, PostsUpdate(s) \/ PostsUnregister(s) \/ Cuts(s)
            PROVE <3>3
        BY <3>0, <4>4 DEF PostsUpdate, PostsUnregister, Cuts, SameCtrl, Up
      <4> QED BY <1>1, <4>2, <4>3, <4>4
    <3> QED BY <1>c, <2>1, <3>a, <3>1, <3>3
  <2> QED BY <2>2, <2>3
<1>2. ASSUME NEW s \in Sessions, PostsRegister(s)
      PROVE  OwnerInv' /\ (link'.owner = NoSession => link'.frames = 0)
  <2>1. link' = link /\ balance' = balance /\ cut' = cut /\ ses[s].ctrl = "waiting"
    BY <1>2 DEF PostsRegister
  <2>2. CASE link.owner = NoSession
    BY <1>0, <1>b, <2>1, <2>2
  <2>3. CASE link.owner # NoSession
    <3>a. PICK o \in Sessions : o = link.owner
      BY <1>a, <2>3
    <3>0. ~Waits("register", o) /\ (Up(ses[o]) \/ o \in cut)
      BY <1>0, <2>3, <3>a DEF OwnerInv
    <3>1. o # s
      BY <1>0, <2>1, <3>0 DEF CallOf, Up
    <3>2. ~Waits("register", o)'
      BY <1>2, <3>0, <3>1, StepWaits
    <3>3. ses'[o].ctrl = ses[o].ctrl
      BY <1>2, <3>0, <3>1 DEF PostsRegister, SameCtrl
    <3> QED BY <1>c, <2>1, <3>a, <3>0, <3>2, <3>3 DEF Up
  <2> QED BY <2>2, <2>3
<1>3. ASSUME NEW s \in Sessions, HandlesUpdate(s)
      PROVE  OwnerInv' /\ (link'.owner = NoSession => link'.frames = 0)
  <2>1. /\ link'.owner = link.owner /\ (link.owner # s => link' = link)
        /\ balance' = balance /\ cut' = cut
    BY <1>0, <1>3 DEF HandlesUpdate, UpdateOwner, TypeOK
  <2>2. CASE link.owner = NoSession
    BY <1>0, <1>a, <1>b, <2>1, <2>2
  <2>3. CASE link.owner # NoSession
    <3>a. PICK o \in Sessions : o = link.owner
      BY <1>a, <2>3
    <3>0. ~Waits("register", o) /\ (Up(ses[o]) \/ o \in cut)
      BY <1>0, <2>3, <3>a DEF OwnerInv
    <3>2. ~Waits("register", o)'
      BY <1>3, <3>0, StepWaits
    <3>3. ses'[o].ctrl = ses[o].ctrl
      BY <1>3, <3>0 DEF HandlesUpdate, SameCtrl
    <3> QED BY <1>c, <2>1, <3>a, <3>0, <3>2, <3>3 DEF Up
  <2> QED BY <2>2, <2>3
<1>4. ASSUME NEW s \in Sessions, HandlesRegister(s)
      PROVE  OwnerInv' /\ (link'.owner = NoSession => link'.frames = 0)
  <2>1. link'.owner = s /\ balance' = balance + 1 /\ cut' = cut /\ s # NoSession
    BY <1>4, <1>a DEF HandlesRegister
  <2>2. Waits("register", s) /\ ~Waits("register", s)'
    BY <1>4, StepWaits
  <2>3. Up(ses'[s]) \/ s \in cut
    BY <1>0, <1>4, <2>2 DEF HandlesRegister, CallOf, Up
  <2>4. balance' > 0
    BY <1>0, <2>1 DEF TypeOK
  <2>5. Waits("register", link.owner)' <=> Waits("register", s)'
    BY <2>1 DEF Waits, Places, Msg
  <2> QED BY <2>1, <2>2, <2>3, <2>4, <2>5 DEF OwnerInv
<1>5. ASSUME NEW s \in Sessions, HandlesUnregister(s)
      PROVE  OwnerInv' /\ (link'.owner = NoSession => link'.frames = 0)
  <2>1. CASE link.owner = s \/ link.owner = NoSession
    <3>1. link' = NoLink \/ (link' = link /\ link.owner = NoSession)
      BY <1>5, <1>a, <2>1 DEF HandlesUnregister
    <3> QED BY <1>0, <1>b, <3>1 DEF NoLink
  <2>3. CASE link.owner # s /\ link.owner # NoSession
    <3>a. PICK o \in Sessions : o = link.owner
      BY <1>a, <2>3
    <3>0. ~Waits("register", o) /\ (Up(ses[o]) \/ o \in cut)
      BY <1>0, <2>3, <3>a DEF OwnerInv
    <3>1. link' = link /\ balance' = balance /\ cut' = cut /\ o # s
      BY <1>5, <2>3, <3>a DEF HandlesUnregister
    <3>2. ~Waits("register", o)'
      BY <1>5, <3>0, StepWaits
    <3>3. ses'[o].ctrl = ses[o].ctrl
      BY <1>5, <3>0, <3>1 DEF HandlesUnregister, SameCtrl
    <3> QED BY <1>c, <3>a, <3>0, <3>1, <3>2, <3>3 DEF Up
  <2> QED BY <2>1, <2>3
<1>6. CASE Stops
  BY <1>6, <1>b DEF Stops, NoLink
<1> QED BY <1>1, <1>2, <1>3, <1>4, <1>5, <1>6, StepKinds

\* The bound on the events: one more for a link that is up, and once the server has
\* stopped, since it does not announce the end of its links.
One == IF link.owner = NoSession /\ server THEN 0 ELSE 1
BoundInv ==
  /\ balance <= Cardinality(Lost) + One
  /\ server /\ cut = {} => balance = One

LEMMA BalanceParts ==
  /\ BalanceInv <=> /\ OwnerInv /\ BoundInv
                    /\ (link.owner = NoSession => link.frames = 0)
  /\ BalanceInv' <=> /\ OwnerInv' /\ BoundInv'
                     /\ (link'.owner = NoSession => link'.frames = 0)
BY DEF BalanceInv, OwnerInv, BoundInv, One

LEMMA LostFinite ==
  ASSUME NEW A, NEW B, A \subseteq B, B \subseteq Sessions
  PROVE  /\ Cardinality(A) \in Nat /\ Cardinality(B) \in Nat
         /\ Cardinality(A) <= Cardinality(B)
         /\ A # B => Cardinality(A) < Cardinality(B)
<1>1. IsFiniteSet(B) /\ IsFiniteSet(A)
  BY SessionsAssumption, FS_Subset
<1> QED BY <1>1, FS_CardinalityType, FS_Subset

\* The controllers that lost their link after a step.
LEMMA StepBound ==
  ASSUME LinkInv, [Next]_vars
  PROVE  BoundInv'
<1>0. TypeOK /\ OwnerInv /\ BoundInv /\ (\A s \in Sessions : CallOf(s))
  BY CallsParts, BalanceParts DEF LinkInv
<1>a. /\ NoSession \notin Sessions /\ cut \subseteq Sessions /\ balance \in Nat
      /\ cut' \subseteq Sessions /\ balance' \in Nat
      /\ link.owner \in Sessions \cup {NoSession}
  BY <1>0, SessionsAssumption, StepServerType DEF TypeOK
<1>b. Lost \subseteq Sessions /\ Lost' \subseteq Sessions
  BY <1>a DEF Lost
<1>c. Lost' = {r \in cut' : r # link'.owner /\ ~Waits("register", r)'}
  BY DEF Lost
<1>1. ASSUME Lost \subseteq Lost', balance' = balance, server' = server,
             One' = One, cut \subseteq cut'
      PROVE  BoundInv'
  <2>1. Cardinality(Lost) \in Nat /\ Cardinality(Lost') \in Nat
        /\ Cardinality(Lost) <= Cardinality(Lost')
    BY <1>1, <1>b, LostFinite
  <2>2. One \in {0, 1}
    BY DEF One
  <2>3. balance' <= Cardinality(Lost') + One'
    BY <1>0, <1>1, <1>a, <2>1, <2>2 DEF BoundInv
  <2>4. server' /\ cut' = {} => balance' = One'
    BY <1>0, <1>1 DEF BoundInv
  <2> QED BY <2>3, <2>4 DEF BoundInv, One
<1>2. CASE \/ QuietStep \/ PostsSession \/ HandlesSession
           \/ \E s \in Sessions : PostsUpdate(s) \/ PostsUnregister(s) \/ Cuts(s)
                                 \/ PostsRegister(s) \/ HandlesUpdate(s)
  <2>1. /\ balance' = balance /\ cut \subseteq cut' /\ link'.owner = link.owner
        /\ server' = server
    BY <1>0, <1>2 DEF QuietStep, PostsSession, HandlesSession, PostsUpdate,
       PostsUnregister,
       Cuts, PostsRegister, HandlesUpdate, UpdateOwner, TypeOK
  <2>2. ASSUME NEW r \in Sessions, r \in cut
        PROVE  Waits("register", r)' => Waits("register", r)
    <3>1. CASE \E s \in Sessions : PostsRegister(s)
      <4>1. PICK s \in Sessions : PostsRegister(s)
        BY <3>1
      <4>2. ses[s].ctrl = "waiting"
        BY <4>1 DEF PostsRegister
      <4>3. r # s
        BY <1>0, <2>2, <4>2 DEF CallOf
      <4> QED BY <4>1, <4>3, StepWaits
    <3>2. CASE ~\E s \in Sessions : PostsRegister(s)
      <4>1. CASE \E s \in Sessions : PostsUnregister(s)
        BY <4>1, StepWaits
      <4>2. CASE ~\E s \in Sessions : PostsUnregister(s)
        BY <1>2, <3>2, <4>2, StepWaits
      <4> QED BY <4>1, <4>2
    <3> QED BY <3>1, <3>2
  <2>3. Lost \subseteq Lost'
    BY <1>a, <1>c, <2>1, <2>2 DEF Lost
  <2> QED BY <1>1, <2>1, <2>3 DEF One
<1>3. ASSUME NEW s \in Sessions, HandlesRegister(s) PROVE BoundInv'
  <2>1. /\ link'.owner = s /\ balance' = balance + 1 /\ cut' = cut
        /\ server /\ server' = server
    BY <1>3 DEF HandlesRegister
  <2>2. /\ Waits("register", s)
        /\ \A r \in Sessions : Waits("register", r)' => Waits("register", r)
    BY <1>3, StepWaits
  <2>3. Lost \subseteq Lost'
    BY <1>a, <1>c, <2>1, <2>2 DEF Lost
  <2>4. Cardinality(Lost) \in Nat /\ Cardinality(Lost') \in Nat
        /\ Cardinality(Lost) <= Cardinality(Lost')
    BY <2>3, <1>b, LostFinite
  <2>5. One' = 1
    BY <1>a, <2>1 DEF One
  <2>6. CASE link.owner = NoSession
    <3>1. One = 0
      BY <2>1, <2>6 DEF One
    <3>2. balance' <= Cardinality(Lost') + One'
      BY <1>0, <1>a, <2>1, <2>4, <2>5, <3>1 DEF BoundInv
    <3>3. server' /\ cut' = {} => balance' = One'
      BY <1>0, <2>1, <2>5, <3>1 DEF BoundInv
    <3> QED BY <3>2, <3>3 DEF BoundInv, One
  <2>7. CASE link.owner # NoSession
    <3>a. PICK o \in Sessions : o = link.owner
      BY <1>a, <2>7
    <3>1. o \in cut /\ ~Waits("register", o)
      BY <1>0, <1>3, <2>7, <3>a, NobodyUp DEF OwnerInv
    <3>2. o \in Lost' /\ o \notin Lost
      BY <1>c, <2>1, <2>2, <3>a, <3>1 DEF Lost
    <3>3. Cardinality(Lost) < Cardinality(Lost')
      BY <1>b, <2>3, <3>2, LostFinite
    <3>4. One = 1
      BY <2>7 DEF One
    <3>5. balance' <= Cardinality(Lost') + One'
      BY <1>0, <1>a, <2>1, <2>4, <2>5, <3>3, <3>4 DEF BoundInv
    <3>6. cut' # {}
      BY <2>1, <3>1
    <3> QED BY <3>5, <3>6 DEF BoundInv, One
  <2> QED BY <2>6, <2>7
<1>4. ASSUME NEW s \in Sessions, HandlesUnregister(s) PROVE BoundInv'
  <2>2. \A r \in Sessions : Waits("register", r)' => Waits("register", r)
    BY <1>4, StepWaits
  <2>3. CASE link.owner # s
    <3>1. link' = link /\ balance' = balance /\ cut' = cut /\ server' = server
      BY <1>4, <2>3 DEF HandlesUnregister
    <3>2. Lost \subseteq Lost'
      BY <1>a, <1>c, <2>2, <3>1 DEF Lost
    <3> QED BY <1>1, <3>1, <3>2 DEF One
  <2>4. CASE link.owner = s
    <3>1. /\ link' = NoLink /\ balance' = balance - 1 /\ cut' = cut
          /\ server /\ server' = server
      BY <1>4, <2>4 DEF HandlesUnregister
    <3>2. Lost \subseteq Lost'
      <4>1. link'.owner \notin Sessions
        BY <1>a, <3>1 DEF NoLink
      <4> QED BY <1>a, <1>c, <2>2, <3>1, <4>1 DEF Lost
    <3>3. Cardinality(Lost) \in Nat /\ Cardinality(Lost') \in Nat
          /\ Cardinality(Lost) <= Cardinality(Lost')
      BY <3>2, <1>b, LostFinite
    <3>4. One = 1 /\ One' = 0
      BY <1>a, <2>4, <3>1 DEF One, NoLink
    <3>5. balance' <= Cardinality(Lost') + One'
      BY <1>0, <1>a, <3>1, <3>3, <3>4 DEF BoundInv
    <3>6. server' /\ cut' = {} => balance' = One'
      BY <1>0, <3>1, <3>4 DEF BoundInv
    <3> QED BY <3>5, <3>6 DEF BoundInv, One
  <2> QED BY <2>3, <2>4
<1>5. CASE Stops
  <2>1. /\ balance' = balance /\ cut' = cut /\ server' = FALSE
        /\ link'.owner = NoSession
    BY <1>5 DEF Stops, NoLink
  <2>2. \A r \in Sessions : ~Waits("register", r)'
    BY <1>5, StepWaits
  <2>3. Lost \subseteq Lost'
    BY <1>a, <1>c, <2>1, <2>2 DEF Lost
  <2>4. Cardinality(Lost) \in Nat /\ Cardinality(Lost') \in Nat
        /\ Cardinality(Lost) <= Cardinality(Lost')
    BY <2>3, <1>b, LostFinite
  <2>5. One' = 1 /\ One \in {0, 1}
    BY <2>1 DEF One
  <2>6. balance' <= Cardinality(Lost') + One'
    BY <1>0, <1>a, <2>1, <2>4, <2>5 DEF BoundInv
  <2> QED BY <2>1, <2>6 DEF BoundInv, One
<1> QED BY <1>2, <1>3, <1>4, <1>5, StepKinds

\* The frames of a session that the server knows of, or will.
LEMMA StepFrames ==
  ASSUME LinkInv, [Next]_vars
  PROVE  LinkCountsOwnFrames'
<1> DEFINE C(r) == Cardinality(Places("update", r))
           L(r) == IF link.owner = r THEN link.frames ELSE 0
<1> SUFFICES ASSUME NEW r \in Sessions
             PROVE  Cardinality(Places("update", r)')
                      + (IF link'.owner = r THEN link'.frames ELSE 0) <= ses'[r].frames
  BY DEF LinkCountsOwnFrames
<1> DEFINE D == Cardinality(Places("update", r)')
           M == IF link'.owner = r THEN link'.frames ELSE 0
<1>0. /\ TypeOK /\ C(r) + L(r) <= ses[r].frames /\ ses[r].frames \in Nat
      /\ L(r) \in Nat /\ M \in Nat
  <2>1. TypeOK /\ ses[r] \in Session /\ C(r) + L(r) <= ses[r].frames
    BY DEF LinkInv, TypeOK, LinkCountsOwnFrames
  <2>2. ses[r].frames \in Nat
    BY <2>1, SessionShape, SessionsAssumption
  <2>3. L(r) \in Nat
    BY <2>1 DEF TypeOK
  <2>4. M \in Nat
    BY StepServerType
  <2> QED BY <2>1, <2>2, <2>3, <2>4
<1>1. /\ IsFiniteSet(Places("update", r)) /\ C(r) \in Nat
  <2>1. Len(box) \in Nat
    BY <1>0 DEF TypeOK
  <2>2. IsFiniteSet(1..Len(box)) /\ Places("update", r) \subseteq 1..Len(box)
    BY <2>1, FS_Interval DEF Places
  <2> QED BY <2>2, FS_Subset, FS_CardinalityType
<1>2. CASE QuietStep \/ \E s \in Sessions : Cuts(s)
  <2>1. Places("update", r)' = Places("update", r) /\ link' = link
    BY <1>2, WaitsSame DEF QuietStep, Cuts
  <2>2. ses'[r].frames >= ses[r].frames
    BY <1>0, <1>2 DEF QuietStep, Cuts, SameCtrl
  <2>3. ses'[r].frames \in Int
    BY StepOneConnected, SessionShape
  <2> QED BY <1>0, <1>1, <2>1, <2>2, <2>3
<1>3. ASSUME NEW w \in Requests, NEW s \in Sessions \cup Loops,
             box' = Append(box, Msg(w, s))
      PROVE  /\ (w # "update" \/ r # s) => D = C(r)
             /\ D \in Nat /\ D <= C(r) + 1
  <2>1. Msg(w, s) \in Message
    BY SenderInSessions
  <2>2. /\ Msg(w, s) # Msg("update", r) => Places("update", r)' = Places("update", r)
        /\ Msg(w, s) = Msg("update", r) =>
             Places("update", r)' = Places("update", r) \cup {Len(box) + 1}
        /\ Len(box) + 1 \notin Places("update", r)
    BY <1>0, <1>3, <2>1, PlacesAppend
  <2>3. Msg(w, s) = Msg("update", r) <=> w = "update" /\ s = r
    BY DEF Msg
  <2>4. Cardinality(Places("update", r) \cup {Len(box) + 1}) = C(r) + 1
    BY <1>1, <2>2, FS_AddElement
  <2>5. (Msg(w, s) # Msg("update", r) => D = C(r))
        /\ (Msg(w, s) = Msg("update", r) => D = C(r) + 1)
    BY <2>2, <2>4
  <2> HIDE DEF C, D
  <2> QED BY <1>1, <2>3, <2>5
<1>4. CASE PostsSession \/ \E s \in Sessions : PostsRegister(s) \/ PostsUnregister(s)
  <2>1. link' = link /\ ses'[r].frames = ses[r].frames
    BY <1>4 DEF PostsSession, PostsRegister, PostsUnregister, SameCtrl
  <2>2. D = C(r)
    BY <1>3, <1>4 DEF PostsSession, PostsRegister, PostsUnregister, Requests
  <2> QED BY <1>0, <1>1, <2>1, <2>2
<1>5. ASSUME NEW s \in Sessions, PostsUpdate(s) PROVE D + M <= ses'[r].frames
  <2>1. /\ link' = link /\ box' = Append(box, Msg("update", s))
        /\ ses'[r].frames = IF r = s THEN ses[r].frames + 1 ELSE ses[r].frames
    BY <1>5 DEF PostsUpdate, SameCtrl
  <2>2. (r # s => D = C(r)) /\ D \in Nat /\ D <= C(r) + 1
    BY <1>3, <2>1 DEF Requests
  <2>3. M = L(r)
    BY <2>1
  <2> HIDE DEF C, D, L, M
  <2> QED BY <1>0, <1>1, <2>1, <2>2, <2>3
<1>6. ASSUME box # <<>>, box' = Tail(box)
      PROVE  /\ D \in Nat /\ D <= C(r)
             /\ Head(box) = Msg("update", r) => D = C(r) - 1
  <2>1. /\ D \in Nat
        /\ Head(box) # Msg("update", r) => D = C(r)
        /\ Head(box) = Msg("update", r) => D = C(r) - 1
    BY <1>0, <1>6, PlacesTail
  <2> HIDE DEF C, D
  <2> QED BY <1>1, <2>1
<1>7. CASE HandlesSession
  <2>1. link' = link /\ ses'[r].frames = ses[r].frames /\ D \in Nat /\ D <= C(r)
    BY <1>6, <1>7 DEF HandlesSession, SameCtrl
  <2>3. M = L(r)
    BY <2>1
  <2> HIDE DEF C, D, L, M
  <2> QED BY <1>0, <1>1, <2>1, <2>3 DEF D, M
<1>8. ASSUME NEW s \in Sessions, HandlesUpdate(s) PROVE D + M <= ses'[r].frames
  <2>1. /\ ses'[r].frames = ses[r].frames /\ D \in Nat /\ D <= C(r)
        /\ r = s => D = C(r) - 1
    BY <1>6, <1>8 DEF HandlesUpdate, SameCtrl
  <2>2. r = s => M = L(r) \/ M = L(r) + 1
    BY <1>0, <1>8 DEF HandlesUpdate, UpdateOwner, TypeOK
  <2>3. r # s => M = L(r)
    BY <1>0, <1>8 DEF HandlesUpdate, UpdateOwner, TypeOK
  <2> HIDE DEF C, D, L, M
  <2> QED BY <1>0, <1>1, <2>1, <2>2, <2>3
<1>9. ASSUME NEW s \in Sessions, HandlesRegister(s) \/ HandlesUnregister(s)
      PROVE  D + M <= ses'[r].frames
  <2>1. /\ ses'[r].frames = ses[r].frames /\ D \in Nat /\ D <= C(r)
    BY <1>6, <1>9 DEF HandlesRegister, HandlesUnregister, SameCtrl
  <2>2. M = 0 \/ M = L(r)
    BY <1>9 DEF HandlesRegister, HandlesUnregister, NoLink
  <2> HIDE DEF C, D, L, M
  <2> QED BY <1>0, <1>1, <2>1, <2>2
<1>10. CASE Stops
  <2>1. ses'[r].frames = ses[r].frames /\ box' = <<>> /\ link' = NoLink
    BY <1>10 DEF Stops, SameCtrl
  <2>2. Places("update", r)' = {}
    BY <2>1 DEF Places
  <2>3. D = 0 /\ M = 0
    BY <2>1, <2>2, FS_EmptySet DEF NoLink
  <2> HIDE DEF C, D, L, M
  <2> QED BY <1>0, <2>1, <2>3 DEF D, M
<1> QED BY <1>2, <1>4, <1>5, <1>7, <1>8, <1>9, <1>10, StepKinds
------------------------------------------------------------------------------
\* A step that leaves a session where it is.
Put(t, u) ==
  /\ u.at = t.at /\ u.side = t.side
  /\ t.at = "none" => u.native = t.native
  /\ u.parent # "none" => t.parent # "none"
  /\ u.parent = "accepting" <=> t.parent = "accepting"

StaysPut ==
  /\ UNCHANGED <<queue, waiter, loop, server, deserted>>
  /\ \A r \in Sessions : Put(ses[r], ses'[r])
  /\ \A r \in Sessions : Waits("incoming", r)' <=> Waits("incoming", r)
  /\ \A l \in Loops : Waits("take", l)' <=> Waits("take", l)

LEMMA PutOthers ==
  ASSUME TypeOK, NEW s \in Sessions, NEW u, Update(s, u), Put(ses[s], u)
  PROVE  \A r \in Sessions : Put(ses[r], ses'[r])
BY OneSession DEF Put

\* Neither an accept loop's request nor an incoming session comes or goes.
LEMMA SameIncoming ==
  ASSUME TypeOK,
         \/ box' = box
         \/ \E w \in {"update", "register", "unregister"}, s \in Sessions :
              box' = Append(box, Msg(w, s))
         \/ box # <<>> /\ box' = Tail(box) /\ Head(box).what \notin {"incoming", "take"}
  PROVE  /\ \A r \in Sessions : Waits("incoming", r)' <=> Waits("incoming", r)
         /\ \A l \in Loops : Waits("take", l)' <=> Waits("take", l)
<1> SUFFICES ASSUME NEW v \in {"incoming", "take"}, NEW r
             PROVE  Waits(v, r)' <=> Waits(v, r)
  OBVIOUS
<1>1. CASE box' = box
  BY <1>1, WaitsSame
<1>2. ASSUME NEW w \in {"update", "register", "unregister"}, NEW s \in Sessions,
             box' = Append(box, Msg(w, s))
      PROVE  Waits(v, r)' <=> Waits(v, r)
  <2>1. Msg(w, s) \in Message /\ Msg(w, s) # Msg(v, r)
    BY SenderInSessions DEF Requests, Msg
  <2> QED BY <1>2, <2>1, WaitsAppend
<1>3. CASE box # <<>> /\ box' = Tail(box) /\ Head(box).what \notin {"incoming", "take"}
  <2>1. Head(box) # Msg(v, r)
    BY <1>3 DEF Msg
  <2> QED BY <1>3, <2>1, WaitsTail
<1> QED BY <1>1, <1>2, <1>3

\* The steps of processes that leave every session where it is.
LEMMA PutProcesses ==
  ASSUME LinkInv, NEW s \in Sessions,
         \/ OutgoingPrefaceFails(s) \/ StartLink(s) \/ TrapExit(s) \/ LinkParent(s)
         \/ PeerCloses(s) \/ FreeSession(s) \/ HandshakeComplete(s) \/ InputEnds(s)
         \/ \E reason \in {"normal", "abnormal"} : ParentExits(s, reason)
         \/ (CloseLink /\ s = link.owner)
         \/ HolderReceives(s) \/ OutputWait(s) \/ SendFails(s) \/ CallExits(s)
         \/ Killed(s) \/ InputReceives(s)
  PROVE  StaysPut
<1> DEFINE t == ses[s]
<1>0. TypeOK /\ t \in Session /\ ProcessInv(t)
  BY DEF LinkInv, TypeOK
<1>a. /\ t.parent # "none" => t.at = "process"
      /\ t.at = "none" => t.native = "none"
      /\ t.ctrl # "none" => t.parent # "none"
  BY <1>0 DEF LinkInv, PlaceInv, ProcessInv
<1>b. ASSUME NEW u \in Session, Update(s, u), Put(t, u)
      PROVE  \A r \in Sessions : Put(ses[r], ses'[r])
  BY <1>0, <1>b, PutOthers
<1>1. UNCHANGED <<queue, waiter, loop, server, deserted>>
  BY DEF OutgoingPrefaceFails, StartLink, TrapExit, LinkParent, PeerCloses,
     FreeSession,
         HandshakeComplete, InputEnds, ParentExits, CloseLink, HolderReceives, OutputWait,
         SendFails, CallExits, Killed, InputReceives, Others
<1>2. /\ \A r \in Sessions : Waits("incoming", r)' <=> Waits("incoming", r)
      /\ \A l \in Loops : Waits("take", l)' <=> Waits("take", l)
  <2>1. \/ box' = box
        \/ \E w \in {"update", "register", "unregister"} : box' = Append(box, Msg(w, s))
    BY DEF OutgoingPrefaceFails, StartLink, TrapExit, LinkParent, PeerCloses,
         FreeSession, HandshakeComplete, InputEnds, ParentExits, CloseLink,
         HolderReceives, StartController, OutputWait, SendFails, After, CallExits, Killed,
         InputReceives, Posts
  <2> QED BY <1>0, <2>1, SameIncoming
<1>5. ASSUME NEW m \in Mails, NEW v \in Session
      PROVE  /\ Mailed(v, m) \in Session /\ Mailed(v, m).at = v.at
             /\ Mailed(v, m).side = v.side /\ Mailed(v, m).native = v.native
             /\ Mailed(v, m).parent = v.parent
  BY MailedShape
<1>3. \A r \in Sessions : Put(ses[r], ses'[r])
  <2>1. CASE OutgoingPrefaceFails(s) \/ PeerCloses(s) \/ FreeSession(s)
    <3>1. PICK u \in {Closed(t), [Closed(t) EXCEPT !.parent = "dead"]} : Update(s, u)
      BY <2>1 DEF OutgoingPrefaceFails, PeerCloses, FreeSession
    <3>2. /\ t.at # "none"
          /\ u = [Closed(t) EXCEPT !.parent = "dead"] => t.parent = "handshake" \/ u = Closed(t)
      <4>1. t.native = "open" \/ t.parent = "handshake"
        BY <2>1 DEF OutgoingPrefaceFails, PeerCloses, FreeSession
      <4>2. CASE OutgoingPrefaceFails(s)
        BY <1>a, <4>2 DEF OutgoingPrefaceFails
      <4>3. CASE PeerCloses(s) \/ FreeSession(s)
        <5>1. ses'[s] = u /\ ses'[s] = Closed(t)
          BY <1>0, <3>1, <4>3, OneSession DEF PeerCloses, FreeSession
        <5> QED BY <1>a, <4>3, <5>1 DEF PeerCloses, FreeSession
      <4> QED BY <2>1, <4>2, <4>3
    <3>3. u \in Session /\ u.at = t.at /\ u.side = t.side
          /\ \/ u.parent = t.parent
             \/ u.parent = "dead" /\ t.parent = "handshake"
      BY <1>0, <3>2 DEF Session, Closed
    <3> QED BY <1>b, <3>1, <3>2, <3>3 DEF Put
  <2>2. CASE StartLink(s) \/ TrapExit(s)
    <3>1. PICK c \in {"spawned", "trapping"} : Update(s, [t EXCEPT !.ctrl = c])
      BY <2>2 DEF StartLink, TrapExit, Goes
    <3>2. /\ [t EXCEPT !.ctrl = c] \in Session /\ Put(t, [t EXCEPT !.ctrl = c])
      BY <1>0 DEF Session, Put
    <3> QED BY <1>b, <3>1, <3>2
  <2>3. CASE LinkParent(s)
    <3>1. PICK v \in {t, Mailed(t, "parent")} : Update(s, [v EXCEPT !.ctrl = "waiting"])
      BY <2>3 DEF LinkParent
    <3>2. v \in Session /\ Put(t, v)
      BY <1>0, <1>5 DEF Put, Mails
    <3>3. /\ [v EXCEPT !.ctrl = "waiting"] \in Session
          /\ Put(t, [v EXCEPT !.ctrl = "waiting"])
      BY <3>2 DEF Session, Put
    <3> QED BY <1>b, <3>1, <3>3
  <2>4. CASE HandshakeComplete(s)
    <3>1. /\ ses'[s].at = t.at /\ ses'[s].native = t.native /\ ses'[s].side = t.side
          /\ t.parent = "handshake" /\ ses'[s].parent = "completing"
          /\ \A r \in Sessions \ {s} : ses'[r] = ses[r]
      BY <2>4, CompleteStep
    <3> QED BY <3>1 DEF Put
  <2>5. CASE InputEnds(s)
    <3> DEFINE v == Mailed(t, "input")
    <3>1. Update(s, [v EXCEPT !.input = "dead"])
      BY <2>5 DEF InputEnds
    <3>2. v \in Session /\ Put(t, v)
      BY <1>0, <1>5 DEF Put, Mails
    <3> HIDE DEF v
    <3>3. /\ [v EXCEPT !.input = "dead"] \in Session
          /\ Put(t, [v EXCEPT !.input = "dead"])
      BY <3>2 DEF Session, Put
    <3> QED BY <1>b, <3>1, <3>3
  <2>6. CASE CloseLink /\ s = link.owner
    <3> DEFINE v == Mailed(t, "close")
    <3>1. Update(s, v)
      BY <2>6 DEF CloseLink
    <3>2. v \in Session /\ Put(t, v)
      BY <1>0, <1>5 DEF Put, Mails
    <3> QED BY <1>b, <3>1, <3>2
  <2>7. ASSUME NEW reason \in {"normal", "abnormal"}, ParentExits(s, reason)
        PROVE  <1>3
    <3> DEFINE v == [t EXCEPT !.parent = "dead"]
    <3>1. PICK u \in {v, Mailed(v, "parent"), Dead(v)} : Update(s, u)
      BY <2>7 DEF ParentExits, ParentGone
    <3>2. v \in Session /\ Put(t, v) /\ t.parent # "none"
      BY <1>0, <2>7 DEF Session, Put, ParentExits
    <3> HIDE DEF v
    <3>3. u \in Session /\ Put(t, u)
      BY <3>1, <3>2, <1>5, DeadShape DEF Put, Mails
    <3> QED BY <1>b, <3>1, <3>3
  <2>8. CASE \/ HolderReceives(s) \/ OutputWait(s) \/ SendFails(s) \/ CallExits(s)
             \/ Killed(s)
    <3>1. t.ctrl # "none"
      BY <2>8 DEF HolderReceives, OutputWait, SendFails, CallExits, Killed, At
    <3>2. t.at # "none" /\ t.parent # "none"
      BY <1>a, <3>1
    <3>3. \/ Update(s, Dead(t)) \/ Update(s, Dead(Closed(t)))
          \/ Update(s, [t EXCEPT !.ctrl = "unregistering"])
          \/ Update(s, [t EXCEPT !.ctrl = "registering", !.input = "loop",
                                 !.mail = Tail(@)])
      BY <2>8 DEF HolderReceives, StartController, OutputWait, SendFails, After,
         Goes,
         CallExits, Killed
    <3>4. Put(t, Dead(t)) /\ Put(t, Dead(Closed(t)))
      BY <1>0, <3>2, DeadShape, ClosedShape DEF Put
    <3>5. /\ Put(t, [t EXCEPT !.ctrl = "unregistering"])
          /\ Put(t, [t EXCEPT !.ctrl = "registering", !.input = "loop", !.mail = Tail(@)])
      BY <1>0, <3>2 DEF Put, Session
    <3> QED BY <1>0, <3>3, <3>4, <3>5, PutOthers
  <2>9. CASE InputReceives(s)
    <3>1. Update(s, [t EXCEPT !.frames = t.frames + 1])
      BY <2>9 DEF InputReceives
    <3>2. Put(t, [t EXCEPT !.frames = t.frames + 1])
      BY <1>0 DEF Put, Session
    <3> QED BY <1>0, <3>1, <3>2, PutOthers
  <2> QED BY <2>1, <2>2, <2>3, <2>4, <2>5, <2>6, <2>7, <2>8, <2>9
<1> QED BY <1>1, <1>2, <1>3 DEF StaysPut

\* Does an accept loop have the session?
Held(s) == \E l \in Loops : loop[l] = s

\* Is it one that an accept loop may have?
Offered(t) == t.at \in {"loop", "kernel"} \/ t.parent = "accepting"

Runs(l) == loop[l] \notin {"none", "dead"}

\* The parts of PlaceInv, and what goes with them.
PlaceOf(s) ==
  /\ ses[s].at = "none" => ses[s].native = "none"
  /\ ses[s].parent # "none" => ses[s].at = "process"
  /\ ses[s].at = "preface" => ses[s].side = "in" /\ server
  /\ ses[s].at = "posted" <=> Waits("incoming", s)
  /\ ses[s].at = "queued" <=> queue = <<s>>
  /\ ses[s].at = "loop" => Held(s)
  /\ ses[s].at = "kernel" \/ ses[s].parent = "accepting" => s \in deserted \/ Held(s)

LoopOf(l) ==
  /\ loop[l] \in Sessions => Offered(ses[loop[l]])
  /\ waiter = l \/ Waits("take", l) => loop[l] \in {"calling", "dead"}
  /\ waiter = l => ~Waits("take", l)

OneLoop == \A l, m \in Loops : Runs(l) /\ Runs(m) => l = m

LoopInv == OneLoop /\ \A l \in Loops : LoopOf(l)

LoopType == {"none", "idle", "calling", "dead"} \cup Sessions

QueueType ==
  /\ queue \in Seq(Sessions) /\ Len(queue) <= 1 /\ waiter \in Loops \cup {NoLoop}
  /\ loop \in [Loops -> LoopType] /\ deserted \subseteq Sessions
  /\ ~server => queue = <<>> /\ waiter = NoLoop

PlacesInv == QueueType /\ LoopInv /\ \A s \in Sessions : PlaceOf(s)

LEMMA PlaceParts ==
  /\ PlaceInv <=> LoopInv /\ \A s \in Sessions : PlaceOf(s)
  /\ PlaceInv' <=> LoopInv' /\ (\A s \in Sessions : PlaceOf(s)')
<1>1. \A x, y : {x, y} \cap {"none", "dead"} = {} <=>
                 x \notin {"none", "dead"} /\ y \notin {"none", "dead"}
  OBVIOUS
<1> QED
  BY <1>1 DEF PlaceInv, LoopInv, LoopOf, OneLoop, Runs, Offered, Held, PlaceOf

LEMMA PlacesNow == LinkInv => PlacesInv
BY PlaceParts DEF PlacesInv, QueueType, LoopType, LinkInv, TypeOK, CallsInv

\* A session is no state of an accept loop.
LEMMA LoopStates ==
  /\ "none" \notin Sessions /\ "idle" \notin Sessions /\ "calling" \notin Sessions
  /\ "dead" \notin Sessions /\ NoSession \notin Sessions /\ NoLoop \notin Loops
BY SessionsAssumption

\* A step that leaves the accept loops, and the sessions that they have, alone.
LEMMA LoopsKept ==
  ASSUME PlacesInv, loop' = loop, waiter' \in {waiter, NoLoop},
         \A l \in Loops : Waits("take", l)' => Waits("take", l),
         \A r \in Sessions : Offered(ses[r]) => Offered(ses'[r])
  PROVE  LoopInv' /\ \A r \in Sessions : Held(r) => Held(r)'
<1>1. OneLoop' /\ \A r \in Sessions : Held(r) => Held(r)'
  BY DEF PlacesInv, LoopInv, OneLoop, Runs, Held
<1>2. ASSUME NEW l \in Loops PROVE LoopOf(l)'
  <2>1. LoopOf(l) /\ (waiter' = l => waiter = l)
    BY LoopStates DEF PlacesInv, LoopInv
  <2> QED BY <2>1 DEF LoopOf
<1> QED BY <1>1, <1>2 DEF LoopInv

\* A step of one accept loop, or an answer to it.
LEMMA LoopMoves ==
  ASSUME PlacesInv, NEW l \in Loops, NEW x \in LoopType, LoopGoes(l, x),
         x \notin {"none", "dead"} => Runs(l) \/ NoLoopRuns,
         x \in Sessions => Offered(ses'[x]),
         waiter' = l \/ Waits("take", l)' => x \in {"calling", "dead"},
         waiter' = l => ~Waits("take", l)',
         \A m \in Loops \ {l} : /\ waiter' = m => waiter = m
                                /\ Waits("take", m)' => Waits("take", m),
         \A r \in Sessions : r # loop[l] /\ Offered(ses[r]) => Offered(ses'[r])
  PROVE  /\ LoopInv' /\ loop' \in [Loops -> LoopType]
         /\ \A r \in Sessions : r # loop[l] /\ Held(r) => Held(r)'
         /\ x \in Sessions => Held(x)'
<1>1. /\ loop \in [Loops -> LoopType] /\ loop' = [loop EXCEPT ![l] = x]
      /\ OneLoop /\ \A m \in Loops : LoopOf(m)
  BY DEF PlacesInv, QueueType, LoopGoes, LoopInv
<1>2. loop' \in [Loops -> LoopType] /\ loop'[l] = x
      /\ \A m \in Loops \ {l} : loop'[m] = loop[m]
  BY <1>1
<1>3. /\ \A r \in Sessions : r # loop[l] /\ Held(r) => Held(r)'
      /\ x \in Sessions => Held(x)'
  BY <1>2 DEF Held
<1>4. OneLoop'
  BY <1>1, <1>2 DEF OneLoop, Runs, NoLoopRuns
<1>5. LoopOf(l)'
  BY <1>2 DEF LoopOf
<1>6. ASSUME NEW m \in Loops \ {l} PROVE LoopOf(m)'
  <2>1. ASSUME loop[m] \in Sessions PROVE Offered(ses[loop[m]]) /\ loop[m] # loop[l]
    BY <1>1, <2>1, LoopStates DEF LoopOf, OneLoop, Runs
  <2> QED BY <1>1, <1>2, <2>1 DEF LoopOf
<1> QED BY <1>2, <1>3, <1>4, <1>5, <1>6 DEF LoopInv

\* A session that a step leaves alone keeps its place.
LEMMA PlaceKept ==
  ASSUME NEW r \in Sessions, PlaceOf(r), Put(ses[r], ses'[r]), server' = server,
         Waits("incoming", r)' <=> Waits("incoming", r),
         queue' = <<r>> <=> queue = <<r>>, Held(r) => Held(r)',
         deserted \subseteq deserted'
  PROVE  PlaceOf(r)'
BY DEF PlaceOf, Put

\* One that a step does not touch stays put.
LEMMA PutSame ==
  ASSUME NEW t, NEW u, u = t
  PROVE  Put(t, u) /\ (Offered(t) <=> Offered(u))
BY DEF Put

\* The server's steps for controllers leave every session where it is.
LEMMA PutServer ==
  ASSUME LinkInv, HandleRegister \/ HandleUnregister \/ HandleUpdate \/ UNCHANGED vars
  PROVE  StaysPut
<1>0. TypeOK /\ ses \in [Sessions -> Session]
  BY DEF LinkInv, TypeOK
<1>1. UNCHANGED <<queue, waiter, loop, server, deserted>>
  BY DEF HandleRegister, HandleUnregister, HandleUpdate, vars
<1>2. /\ \A r \in Sessions : Waits("incoming", r)' <=> Waits("incoming", r)
      /\ \A l \in Loops : Waits("take", l)' <=> Waits("take", l)
  <2>1. \/ box' = box
        \/ box # <<>> /\ box' = Tail(box) /\ Head(box).what \notin {"incoming", "take"}
    BY DEF HandleRegister, HandleUnregister, HandleUpdate, vars, Handles
  <2> QED BY <1>0, <2>1, SameIncoming
<1>3. ASSUME NEW r \in Sessions PROVE Put(ses[r], ses'[r])
  <2> DEFINE s == Head(box).from
  <2>a. ses[r] \in Session /\ (ses[r].ctrl # "none" => ses[r].at # "none")
    BY <1>0 DEF LinkInv, PlaceInv, ProcessInv
  <2>1. CASE ses' = ses
    BY <2>1 DEF Put
  <2>2. CASE HandleRegister
    <3>1. \/ ses' = ses
          \/ ses' = [ses EXCEPT ![s].ctrl = "running",
                                ![s].parent = IF @ = "completing" THEN "up" ELSE @]
      BY <2>2 DEF HandleRegister
    <3> HIDE DEF s
    <3>2. CASE r # s
      BY <1>0, <3>1, <3>2 DEF Put
    <3>3. CASE r = s
      BY <1>0, <2>a, <3>1, <3>3 DEF Put, Session
    <3> QED BY <3>2, <3>3
  <2>3. CASE HandleUnregister
    <3>1. \/ ses'[r] = ses[r]
          \/ ses[r].ctrl = "unregistering" /\ ses'[r] = Dead(Closed(ses[r]))
      <4>1. \/ ses' = ses
            \/ ses[s].ctrl = "unregistering" /\ ses' = [ses EXCEPT ![s] = Dead(Closed(@))]
        BY <2>3 DEF HandleUnregister
      <4> HIDE DEF s
      <4> QED BY <1>0, <4>1
    <3> QED BY <2>a, <3>1, DeadShape, ClosedShape DEF Put
  <2> QED BY <2>1, <2>2, <2>3 DEF HandleUpdate, vars
<1> QED BY <1>1, <1>2, <1>3 DEF StaysPut

\* A step that leaves every session where it is keeps the places.
LEMMA PutPlaces ==
  ASSUME LinkInv, StaysPut
  PROVE  PlacesInv'
<1>0. PlacesInv
  BY PlacesNow
<1>a. UNCHANGED <<queue, waiter, loop, server, deserted>>
  BY DEF StaysPut
<1>1. QueueType'
  BY <1>0, <1>a DEF PlacesInv, QueueType
<1>2. \A r \in Sessions : Offered(ses[r]) => Offered(ses'[r])
  BY DEF StaysPut, Put, Offered
<1>3. LoopInv' /\ \A r \in Sessions : Held(r) => Held(r)'
  BY <1>0, <1>a, <1>2, LoopsKept DEF StaysPut
<1>4. ASSUME NEW r \in Sessions PROVE PlaceOf(r)'
  BY <1>0, <1>a, <1>3, PlaceKept DEF PlacesInv, StaysPut
<1> QED BY <1>1, <1>3, <1>4 DEF PlacesInv

\* Accepts, prefaces and connects.
LEMMA PlacesBegin ==
  ASSUME LinkInv, NEW s \in Sessions, Accept(s) \/ Connect(s) \/ IncomingPreface(s)
  PROVE  PlacesInv'
<1> DEFINE t == ses[s]
<1>0. TypeOK /\ PlacesInv /\ t \in Session
  BY PlacesNow DEF LinkInv, TypeOK
<1>a. UNCHANGED <<queue, waiter, loop, server, deserted>> /\ server
  BY DEF Accept, Connect, IncomingPreface, Others
<1>b. QueueType'
  BY <1>0, <1>a DEF PlacesInv, QueueType
<1>c. t.at \in {"none", "preface"} /\ t.parent = "none" /\ ~Offered(t)
  <2>1. t.at \in {"none", "preface"}
    BY DEF Accept, Connect, IncomingPreface
  <2> QED BY <1>0, <2>1 DEF PlacesInv, PlaceOf, Offered
<1>1. PICK u : /\ Update(s, u)
               /\ \/ u = [t EXCEPT !.native = "open", !.at = "preface"]
                     /\ t.side = "in" /\ box' = box
                  \/ u = [t EXCEPT !.native = "open", !.at = "process",
                                   !.parent = "handshake"] /\ box' = box
                  \/ u = [Closed(t) EXCEPT !.at = "lost"] /\ box' = box
                  \/ u = [t EXCEPT !.at = "posted"]
                     /\ box' = Append(box, Msg("incoming", s))
  BY DEF Accept, Connect, IncomingPreface, Posts
<1>2. /\ u.at \in {"preface", "process", "lost", "posted"}
      /\ u.at = "preface" => u.side = "in"
      /\ u.at # "process" => u.parent = "none"
      /\ u.parent \in {"none", "handshake"}
      /\ u.at = "posted" <=> box' = Append(box, Msg("incoming", s))
      /\ u.at # "posted" => box' = box
  <2>1. box # Append(box, Msg("incoming", s))
    <3>1. Len(box) \in Nat /\ Len(Append(box, Msg("incoming", s))) = Len(box) + 1
      BY <1>0 DEF TypeOK
    <3> QED BY <3>1
  <2> QED BY <1>0, <1>1, <1>c, <2>1 DEF Session, Closed
<1>3. /\ \A r \in Sessions : Waits("incoming", r)' <=>
                               Waits("incoming", r) \/ (r = s /\ u.at = "posted")
      /\ \A l \in Loops : Waits("take", l)' <=> Waits("take", l)
  <2>1. CASE u.at # "posted"
    BY <1>2, <2>1, WaitsSame
  <2>2. CASE u.at = "posted"
    <3>1. Msg("incoming", s) \in Message /\ box' = Append(box, Msg("incoming", s))
      BY <1>2, <2>2, SenderInSessions DEF Requests
    <3> QED BY <1>0, <2>2, <3>1, WaitsAppend DEF Msg
  <2> QED BY <2>1, <2>2
<1>4. ses'[s] = u /\ \A r \in Sessions \ {s} : ses'[r] = ses[r]
  BY <1>0, <1>1, OneSession
<1>5. \A r \in Sessions : Offered(ses[r]) => Offered(ses'[r])
  BY <1>c, <1>4
<1>6. LoopInv' /\ \A r \in Sessions : Held(r) => Held(r)'
  BY <1>0, <1>a, <1>3, <1>5, LoopsKept
<1>7. ASSUME NEW r \in Sessions \ {s} PROVE PlaceOf(r)'
  BY <1>0, <1>a, <1>3, <1>4, <1>6, PutSame, PlaceKept DEF PlacesInv
<1>8. PlaceOf(s)'
  <2>1. PlaceOf(s)
    BY <1>0 DEF PlacesInv
  <2> HIDE DEF t
  <2> QED BY <1>a, <1>c, <1>2, <1>3, <1>4, <2>1 DEF PlaceOf, t
<1> QED BY <1>b, <1>6, <1>7, <1>8 DEF PlacesInv

\* An accept loop asks for a session.
LEMMA PlacesAsk ==
  ASSUME LinkInv, NEW l \in Loops, StartLoop(l) \/ TakeIncoming(l)
  PROVE  PlacesInv'
<1>0. TypeOK /\ PlacesInv
  BY PlacesNow DEF LinkInv
<1>1. /\ loop[l] \in {"none", "idle"} /\ (loop[l] = "none" => NoLoopRuns)
      /\ LoopGoes(l, "calling") /\ box' = Append(box, Msg("take", l))
      /\ Msg("take", l) \in Message
      /\ UNCHANGED <<ses, server, queue, waiter, deserted>>
  BY SenderInSessions DEF StartLoop, TakeIncoming, Asks, Posts, Requests
<1>2. /\ \A r \in Sessions : Waits("incoming", r)' <=> Waits("incoming", r)
      /\ \A m \in Loops \ {l} : Waits("take", m)' <=> Waits("take", m)
  BY <1>0, <1>1, WaitsAppend DEF Msg
<1>3. waiter # l /\ loop[l] \notin Sessions
  BY <1>0, <1>1, LoopStates DEF PlacesInv, LoopInv, LoopOf
<1>4. "calling" \in LoopType /\ "calling" \notin Sessions
  BY LoopStates DEF LoopType
<1>5. "calling" \notin {"none", "dead"} => Runs(l) \/ NoLoopRuns
  BY <1>1 DEF Runs
<1>6. /\ LoopInv' /\ loop' \in [Loops -> LoopType]
      /\ \A r \in Sessions : r # loop[l] /\ Held(r) => Held(r)'
  BY <1>0, <1>1, <1>2, <1>3, <1>4, <1>5, LoopMoves
<1>7. QueueType'
  BY <1>0, <1>1, <1>6 DEF PlacesInv, QueueType
<1>8. ASSUME NEW r \in Sessions PROVE PlaceOf(r)'
  BY <1>0, <1>1, <1>2, <1>3, <1>6, PutSame, PlaceKept DEF PlacesInv
<1> QED BY <1>6, <1>7, <1>8 DEF PlacesInv

\* The session on its way through net_kernel to its process.
LEMMA PlacesOffer ==
  ASSUME LinkInv,
         \/ \E l \in Loops : OfferSession(l)
         \/ \E s \in Sessions : AcceptConnection(s)
  PROVE  PlacesInv'
<1>0. TypeOK /\ PlacesInv /\ ses \in [Sessions -> Session]
  BY PlacesNow DEF LinkInv, TypeOK
<1>a. UNCHANGED <<box, queue, waiter, loop, server, deserted>>
  BY DEF OfferSession, AcceptConnection, Others
<1>1. PICK s \in Sessions :
        \/ /\ Held(s) /\ ses[s].at = "loop"
           /\ Update(s, [ses[s] EXCEPT !.at = "kernel"])
        \/ /\ ses[s].at = "kernel"
           /\ Update(s, [ses[s] EXCEPT !.at = "process", !.parent = "accepting"])
  BY DEF OfferSession, AcceptConnection, Held
<1>2. /\ \A r \in Sessions : Waits("incoming", r)' <=> Waits("incoming", r)
      /\ \A l \in Loops : Waits("take", l)' <=> Waits("take", l)
  BY <1>a, WaitsSame
<1>3. QueueType'
  BY <1>0, <1>a DEF PlacesInv, QueueType
<1>4. /\ ses[s].parent = "none" /\ (s \in deserted \/ Held(s)) /\ PlaceOf(s)
      /\ ses[s] \in Session
  BY <1>0, <1>1 DEF PlacesInv, PlaceOf
<1>5. /\ ses'[s].at \in {"kernel", "process"}
      /\ ses'[s].at = "kernel" => ses'[s].parent = "none"
      /\ ses'[s].at = "process" => ses'[s].parent = "accepting"
      /\ \A r \in Sessions \ {s} : ses'[r] = ses[r]
  <2>1. CASE Update(s, [ses[s] EXCEPT !.at = "kernel"])
    BY <1>0, <1>4, <2>1 DEF Update, Session
  <2>2. CASE Update(s, [ses[s] EXCEPT !.at = "process", !.parent = "accepting"])
    BY <1>0, <1>4, <2>2 DEF Update, Session
  <2> QED BY <1>1, <2>1, <2>2
<1>6. \A r \in Sessions : Offered(ses[r]) => Offered(ses'[r])
  BY <1>5 DEF Offered
<1>7. LoopInv' /\ \A r \in Sessions : Held(r) => Held(r)'
  BY <1>0, <1>a, <1>2, <1>6, LoopsKept
<1>8. ASSUME NEW r \in Sessions \ {s} PROVE PlaceOf(r)'
  BY <1>0, <1>a, <1>2, <1>5, <1>7, PutSame, PlaceKept DEF PlacesInv
<1>9. PlaceOf(s)'
  <2>1. ~Waits("incoming", s)' /\ queue' # <<s>>
    BY <1>1, <1>2, <1>4, <1>a DEF PlaceOf
  <2> QED BY <1>4, <1>5, <1>7, <1>a, <2>1 DEF PlaceOf
<1> QED BY <1>3, <1>7, <1>8, <1>9 DEF PlacesInv

\* The accept loop forwards the session it has, or dies.
LEMMA PlacesLeave ==
  ASSUME LinkInv, NEW l \in Loops, ForwardController(l) \/ LoopDies(l)
  PROVE  PlacesInv'
<1> DEFINE s == loop[l]
<1>0. TypeOK /\ PlacesInv /\ ses \in [Sessions -> Session]
  BY PlacesNow DEF LinkInv, TypeOK
<1>a. UNCHANGED <<box, queue, waiter, server>>
  BY DEF ForwardController, LoopDies
<1>1. PICK x \in {"idle", "dead"} :
        LoopGoes(l, x) /\ (x = "idle" => ForwardController(l)) /\ Runs(l)
  <2>1. CASE ForwardController(l)
    <3>1. loop[l] \in Sessions
      BY <2>1 DEF ForwardController
    <3> QED BY <2>1, <3>1, LoopStates DEF ForwardController, Runs
  <2>2. CASE LoopDies(l)
    BY <2>2 DEF LoopDies, Runs
  <2> QED BY <2>1, <2>2
<1>2. /\ \A r \in Sessions : Waits("incoming", r)' <=> Waits("incoming", r)
      /\ \A m \in Loops : Waits("take", m)' <=> Waits("take", m)
  BY <1>a, WaitsSame
<1>3. /\ x \in LoopType /\ x \notin Sessions
      /\ waiter = l \/ Waits("take", l) => x = "dead"
      /\ waiter = l => ~Waits("take", l)
  <2>1. LoopOf(l)
    BY <1>0 DEF PlacesInv, LoopInv
  <2>2. x = "idle" => loop[l] \in Sessions
    BY <1>1 DEF ForwardController
  <2> QED BY <1>1, <2>1, <2>2, LoopStates DEF LoopOf, LoopType
<1>4. \/ s \notin Sessions /\ ses' = ses /\ deserted' = deserted
      \/ /\ s \in Sessions /\ ses[s].parent = "accepting" /\ deserted' = deserted
         /\ Update(s, [ses[s] EXCEPT !.parent = "handshake"])
      \/ /\ s \in Sessions /\ ses[s].at = "loop" /\ deserted' = deserted
         /\ Update(s, [ses[s] EXCEPT !.at = "lost"])
      \/ /\ s \in Sessions /\ ses[s].at # "loop" /\ ses' = ses
         /\ deserted' = deserted \cup {s}
  BY DEF ForwardController, LoopDies
<1>5. /\ deserted \subseteq deserted' /\ deserted' \subseteq Sessions
      /\ \A r \in Sessions : r # s => ses'[r] = ses[r]
  BY <1>0, <1>4 DEF Update, TypeOK
<1>6. /\ LoopInv' /\ loop' \in [Loops -> LoopType]
      /\ \A r \in Sessions : r # s /\ Held(r) => Held(r)'
  <2>1. \A r \in Sessions : r # loop[l] /\ Offered(ses[r]) => Offered(ses'[r])
    BY <1>5
  <2> QED BY <1>0, <1>1, <1>2, <1>3, <1>a, <2>1, LoopMoves
<1>7. QueueType'
  BY <1>0, <1>a, <1>5, <1>6 DEF PlacesInv, QueueType
<1>8. ASSUME NEW r \in Sessions, r # s PROVE PlaceOf(r)'
  <2> HIDE DEF s
  <2>1. Put(ses[r], ses'[r])
    BY <1>5, <1>8, PutSame
  <2> QED BY <1>0, <1>a, <1>2, <1>5, <1>6, <1>8, <2>1, PlaceKept DEF PlacesInv
<1>9. ASSUME NEW r \in Sessions, r = s PROVE PlaceOf(r)'
  <2> HIDE DEF s
  <2>1. PlaceOf(r) /\ ses[r] \in Session
    BY <1>0, <1>9 DEF PlacesInv
  <2>2. /\ Waits("incoming", r)' <=> Waits("incoming", r)
        /\ UNCHANGED <<queue, server>>
    BY <1>2, <1>9, <1>a
  <2>3. CASE ses[r].parent = "accepting" /\ Update(r, [ses[r] EXCEPT !.parent = "handshake"])
    <3>1. ses'[r].at = ses[r].at /\ ses'[r].parent = "handshake"
          /\ ses[r].at = "process"
      BY <1>0, <1>9, <2>1, <2>3 DEF Update, Session, PlaceOf
    <3> QED BY <2>1, <2>2, <3>1 DEF PlaceOf
  <2>4. CASE ses[r].at = "loop" /\ Update(r, [ses[r] EXCEPT !.at = "lost"])
    <3>1. ses'[r].at = "lost" /\ ses'[r].parent = "none"
      BY <1>0, <1>9, <2>1, <2>4 DEF Update, Session, PlaceOf
    <3> QED BY <2>1, <2>2, <2>4, <3>1 DEF PlaceOf
  <2>5. CASE ses[r].at # "loop" /\ ses' = ses /\ deserted' = deserted \cup {r}
    BY <2>1, <2>2, <2>5 DEF PlaceOf
  <2> QED BY <1>4, <1>9, <2>3, <2>4, <2>5
<1>10. ASSUME NEW r \in Sessions PROVE PlaceOf(r)'
  BY <1>8, <1>9
<1> QED BY <1>6, <1>7, <1>10 DEF PlacesInv

\* net_kernel refuses the session.
LEMMA PlacesRefused ==
  ASSUME LinkInv, NEW s \in Sessions, UnsupportedProtocol(s)
  PROVE  PlacesInv'
<1>0. TypeOK /\ PlacesInv /\ ses \in [Sessions -> Session]
  BY PlacesNow DEF LinkInv, TypeOK
<1>1. /\ UNCHANGED <<box, queue, waiter, server, deserted>> /\ ses[s].at = "kernel"
      /\ loop' = [l \in Loops |-> IF loop[l] = s THEN "dead" ELSE loop[l]]
  BY DEF UnsupportedProtocol
<1>2. /\ \A r \in Sessions : Waits("incoming", r)' <=> Waits("incoming", r)
      /\ \A l \in Loops : Waits("take", l)' <=> Waits("take", l)
  BY <1>1, WaitsSame
<1>3. /\ ses'[s].at = "lost" /\ ses'[s].parent = "none"
      /\ \A r \in Sessions \ {s} : ses'[r] = ses[r]
  <2>1. ses[s].parent = "none" /\ ses[s] \in Session
    BY <1>0, <1>1 DEF PlacesInv, PlaceOf
  <2>2. PICK v \in {ses[s], Closed(ses[s])} : Update(s, [v EXCEPT !.at = "lost"])
    BY DEF UnsupportedProtocol
  <2>3. v \in Session /\ v.parent = "none"
    BY <2>1, ClosedShape
  <2> QED BY <1>0, <2>2, <2>3 DEF Update, Session
<1>4. loop' \in [Loops -> LoopType] /\ QueueType'
  BY <1>0, <1>1 DEF PlacesInv, QueueType, LoopType
<1>5. OneLoop' /\ \A r \in Sessions \ {s} : Held(r) => Held(r)'
  BY <1>0, <1>1 DEF PlacesInv, LoopInv, OneLoop, Runs, Held
<1>6. ASSUME NEW l \in Loops PROVE LoopOf(l)'
  <2>1. LoopOf(l)
    BY <1>0 DEF PlacesInv, LoopInv
  <2>2. CASE loop[l] = s
    <3>1. loop'[l] = "dead"
      BY <1>1, <2>2
    <3> QED BY <1>1, <1>2, <2>1, <3>1, LoopStates DEF LoopOf
  <2>3. CASE loop[l] # s
    <3>1. loop'[l] = loop[l]
      BY <1>1, <2>3
    <3> QED BY <1>1, <1>2, <1>3, <2>1, <2>3, <3>1 DEF LoopOf
  <2> QED BY <2>2, <2>3
<1>7. ASSUME NEW r \in Sessions \ {s} PROVE PlaceOf(r)'
  BY <1>0, <1>1, <1>2, <1>3, <1>5, PutSame, PlaceKept DEF PlacesInv
<1>8. PlaceOf(s)'
  <2>1. ~Waits("incoming", s)' /\ queue' # <<s>>
    BY <1>0, <1>1, <1>2 DEF PlacesInv, PlaceOf
  <2> QED BY <1>3, <2>1 DEF PlaceOf
<1> QED BY <1>4, <1>5, <1>6, <1>7, <1>8 DEF PlacesInv, LoopInv

\* A step of the server moves session s to a.
MovesTo(s, a) ==
  /\ ses'[s].at = a /\ ses'[s].parent = ses[s].parent
  /\ \A r \in Sessions \ {s} : ses'[r] = ses[r]

\* The places of the sessions once one of them, s, has moved to a.
LEMMA PlacesMoved ==
  ASSUME LinkInv, NEW s \in Sessions, NEW a \in {"lost", "loop", "queued"},
         ses[s].at \in {"posted", "queued"}, server' = server, deserted' = deserted,
         MovesTo(s, a), ~Waits("incoming", s)',
         \A r \in Sessions \ {s} :
           /\ Waits("incoming", r)' <=> Waits("incoming", r)
           /\ queue' = <<r>> <=> queue = <<r>>
           /\ Held(r) => Held(r)',
         queue' = <<s>> <=> a = "queued", a = "loop" => Held(s)'
  PROVE  \A r \in Sessions : PlaceOf(r)'
<1> SUFFICES ASSUME NEW r \in Sessions PROVE PlaceOf(r)'
  OBVIOUS
<1>0. PlaceOf(r) /\ ses \in [Sessions -> Session] /\ ses[r] \in Session
  BY PlacesNow DEF PlacesInv, LinkInv, TypeOK
<1>1. CASE r # s
  <2>2. Put(ses[r], ses'[r])
    BY <1>1, PutSame DEF MovesTo
  <2> QED BY <1>0, <1>1, <2>2, PlaceKept
<1>2. CASE r = s
  <2>3. ses[s].parent = "none"
    BY <1>0, <1>2 DEF PlaceOf
  <2> QED BY <1>2, <2>3 DEF PlaceOf, MovesTo
<1> QED BY <1>1, <1>2

\* Whoever has a session of the server's, once it has moved, nothing else has.
LEMMA MovedOffers ==
  ASSUME PlacesInv, NEW s \in Sessions, NEW a, ses[s].at \in {"posted", "queued"},
         MovesTo(s, a)
  PROVE  /\ ~Held(s)
         /\ \A r \in Sessions : Offered(ses[r]) => Offered(ses'[r])
         /\ a = "loop" => Offered(ses'[s])
<1>1. ~Offered(ses[s])
  BY DEF PlacesInv, PlaceOf, Offered
<1>2. ~Held(s)
  BY <1>1 DEF PlacesInv, LoopInv, LoopOf, Held
<1> QED BY <1>1, <1>2 DEF MovesTo, Offered

\* A queue with one session.
LEMMA OneQueued ==
  ASSUME NEW r
  PROVE  /\ <<r>> # <<>> /\ Len(<<r>>) = 1 /\ Head(<<r>>) = r /\ Tail(<<r>>) = <<>>
         /\ Append(<<>>, r) = <<r>>
         /\ \A u : <<u>> = <<r>> <=> u = r
OBVIOUS

\* An accept loop, alive or dead, is answered with a session.
LEMMA LoopAnswered ==
  ASSUME LinkInv, NEW l \in Loops, NEW s \in Sessions, Replies(l, s),
         ses[s].at \in {"posted", "queued"}, loop[l] \in {"calling", "dead"},
         waiter' = NoLoop, server' = server, deserted' = deserted,
         ~Waits("take", l)', \A m \in Loops : Waits("take", m)' => Waits("take", m),
         ~Waits("incoming", s)', queue' # <<s>>,
         \A r \in Sessions \ {s} : /\ Waits("incoming", r)' <=> Waits("incoming", r)
                                   /\ queue' = <<r>> <=> queue = <<r>>
  PROVE  LoopInv' /\ loop' \in [Loops -> LoopType] /\ \A r \in Sessions : PlaceOf(r)'
<1>0. PlacesInv /\ ses \in [Sessions -> Session] /\ loop \in [Loops -> LoopType]
  BY PlacesNow DEF LinkInv, TypeOK, LoopType
<1> DEFINE a == IF loop[l] = "dead" THEN "lost" ELSE "loop"
<1>1. MovesTo(s, a) /\ a \in {"lost", "loop", "queued"} /\ a # "queued"
  <2>1. ses' = [ses EXCEPT ![s].at = a]
    BY DEF Replies
  <2>2. a \in {"lost", "loop", "queued"} /\ a # "queued"
    OBVIOUS
  <2> HIDE DEF a
  <2> QED BY <1>0, <2>1, <2>2 DEF MovesTo, Session
<1>2. /\ \A r \in Sessions : Offered(ses[r]) => Offered(ses'[r])
      /\ a = "loop" => Offered(ses'[s])
  <2> HIDE DEF a
  <2> QED BY <1>0, <1>1, MovedOffers
<1>3. CASE loop[l] = "dead"
  <2>1. loop' = loop /\ a = "lost"
    BY <1>3 DEF Replies
  <2>2. LoopInv' /\ \A r \in Sessions : Held(r) => Held(r)'
    BY <1>0, <1>2, <2>1, LoopsKept
  <2> HIDE DEF a
  <2>4. MovesTo(s, "lost")
    BY <1>1, <2>1
  <2>5. \A r \in Sessions \ {s} : /\ Waits("incoming", r)' <=> Waits("incoming", r)
                                  /\ queue' = <<r>> <=> queue = <<r>>
                                  /\ Held(r) => Held(r)'
    BY <2>2
  <2>3. \A r \in Sessions : PlaceOf(r)'
    BY <2>4, <2>5, PlacesMoved
  <2> QED BY <1>0, <2>1, <2>2, <2>3
<1>4. CASE loop[l] # "dead"
  <2>1. LoopGoes(l, s) /\ a = "loop" /\ loop[l] = "calling" /\ s \in LoopType
    BY <1>4 DEF Replies, LoopGoes, LoopType
  <2>2. Runs(l) /\ loop[l] \notin Sessions
    BY <2>1, LoopStates DEF Runs
  <2>3. \A m \in Loops : waiter' # m
    BY LoopStates
  <2> HIDE DEF a
  <2>4. /\ LoopInv' /\ loop' \in [Loops -> LoopType]
        /\ \A r \in Sessions : r # loop[l] /\ Held(r) => Held(r)'
        /\ s \in Sessions => Held(s)'
    BY <1>0, <1>2, <2>1, <2>2, <2>3, LoopMoves
  <2>6. \A r \in Sessions \ {s} : /\ Waits("incoming", r)' <=> Waits("incoming", r)
                                  /\ queue' = <<r>> <=> queue = <<r>>
                                  /\ Held(r) => Held(r)'
    BY <2>2, <2>4
  <2>7. MovesTo(s, "loop") /\ Held(s)'
    BY <1>1, <2>1, <2>4
  <2>5. \A r \in Sessions : PlaceOf(r)'
    BY <2>6, <2>7, PlacesMoved
  <2> QED BY <2>4, <2>5
<1> QED BY <1>3, <1>4

LEMMA PlacesIncoming ==
  ASSUME LinkInv, HandleIncoming
  PROVE  PlacesInv'
<1>0. TypeOK /\ PlacesInv /\ BoxInv /\ ses \in [Sessions -> Session]
  BY PlacesNow, CallsParts DEF LinkInv, TypeOK
<1>1. PICK s \in Sessions :
        /\ server /\ box # <<>> /\ box' = Tail(box) /\ Head(box) = Msg("incoming", s)
        /\ s = Head(box).from
  <2>1. Handles("incoming")
    BY DEF HandleIncoming
  <2> QED BY <2>1, HeadMessage DEF Requests
<1>2. Waits("incoming", s) /\ ~Waits("incoming", s)' /\ ses[s].at = "posted"
  <2>1. Waits("incoming", s) /\ ~Waits("incoming", s)'
    BY <1>0, <1>1, WaitsTail, BoxInvTail
  <2> QED BY <1>0, <2>1 DEF PlacesInv, PlaceOf
<1>3. /\ \A r \in Sessions \ {s} : Waits("incoming", r)' <=> Waits("incoming", r)
      /\ \A l \in Loops : Waits("take", l)' <=> Waits("take", l)
  <2>1. /\ \A r \in Sessions \ {s} : Head(box) # Msg("incoming", r)
        /\ \A l \in Loops : Head(box) # Msg("take", l)
    BY <1>1 DEF Msg
  <2> QED BY <1>0, <1>1, <2>1, WaitsTail
<1>4. server' = server /\ deserted' = deserted /\ queue # <<s>>
  BY <1>0, <1>2 DEF HandleIncoming, PlacesInv, PlaceOf
<1>5. CASE waiter # NoLoop
  <2>1. waiter' = NoLoop /\ queue' = queue /\ Replies(waiter, s)
    BY <1>1, <1>5 DEF HandleIncoming
  <2>2. /\ waiter \in Loops /\ loop[waiter] \in {"calling", "dead"}
        /\ ~Waits("take", waiter)
    BY <1>0, <1>5 DEF PlacesInv, QueueType, LoopInv, LoopOf
  <2>a. PICK w \in Loops : w = waiter
    BY <2>2
  <2>b. ~Waits("take", w)
    BY <2>2, <2>a
  <2>3. LoopInv' /\ loop' \in [Loops -> LoopType] /\ \A r \in Sessions : PlaceOf(r)'
    BY <1>2, <1>3, <1>4, <2>1, <2>2, <2>a, <2>b, LoopAnswered
  <2>4. QueueType'
    BY <1>0, <1>4, <2>1, <2>3 DEF PlacesInv, QueueType
  <2> QED BY <2>3, <2>4 DEF PlacesInv
<1>6. CASE waiter = NoLoop
  <2>1. /\ waiter' = waiter /\ loop' = loop
        /\ \/ /\ HasRoom /\ queue' = Append(queue, s)
              /\ ses' = [ses EXCEPT ![s].at = "queued"]
           \/ /\ queue' = queue
              /\ ses' = [ses EXCEPT ![s] = [Closed(@) EXCEPT !.at = "lost"]]
    BY <1>1, <1>6 DEF HandleIncoming
  <2>c. /\ ses' = [ses EXCEPT ![s].at = "queued"] => MovesTo(s, "queued")
        /\ ses' = [ses EXCEPT ![s] = [Closed(@) EXCEPT !.at = "lost"]] =>
             MovesTo(s, "lost")
    BY <1>0 DEF MovesTo, Session, Closed
  <2>b. MovesTo(s, "queued") \/ MovesTo(s, "lost")
    BY <2>1, <2>c
  <2>a. \A r \in Sessions : Offered(ses[r]) => Offered(ses'[r])
    BY <1>0, <1>2, <2>b, MovedOffers
  <2>2. LoopInv' /\ \A r \in Sessions : Held(r) => Held(r)'
    BY <1>0, <1>3, <2>1, <2>a, LoopsKept
  <2>3. CASE queue' = queue /\ ses' = [ses EXCEPT ![s] = [Closed(@) EXCEPT !.at = "lost"]]
    <3>1. QueueType'
      BY <1>0, <1>4, <2>1, <2>3 DEF PlacesInv, QueueType
    <3>2. \A r \in Sessions : PlaceOf(r)'
      BY <1>2, <1>3, <1>4, <2>2, <2>3, <2>c, PlacesMoved
    <3> QED BY <2>2, <3>1, <3>2 DEF PlacesInv
  <2>4. CASE HasRoom /\ queue' = Append(queue, s) /\ ses' = [ses EXCEPT ![s].at = "queued"]
    <3>1. queue = <<>> /\ queue' = <<s>>
      BY <2>4, OneQueued DEF HasRoom
    <3>2. QueueType'
      BY <1>0, <1>1, <1>4, <2>1, <3>1 DEF PlacesInv, QueueType
    <3>3. \A r \in Sessions \ {s} : queue' # <<r>> /\ queue # <<r>>
      BY <3>1, OneQueued
    <3>4. \A r \in Sessions : PlaceOf(r)'
      BY <1>2, <1>3, <1>4, <2>2, <2>4, <2>c, <3>1, <3>3, PlacesMoved
    <3> QED BY <2>2, <3>2, <3>4 DEF PlacesInv
  <2> QED BY <2>1, <2>3, <2>4
<1> QED BY <1>5, <1>6

LEMMA PlacesTake ==
  ASSUME LinkInv, HandleTake
  PROVE  PlacesInv'
<1>0. TypeOK /\ PlacesInv /\ BoxInv
  BY PlacesNow, CallsParts DEF LinkInv
<1>1. PICK l \in Loops :
        /\ server /\ box # <<>> /\ box' = Tail(box) /\ Head(box) = Msg("take", l)
        /\ l = Head(box).from /\ server' = server /\ deserted' = deserted
  <2>1. Handles("take") /\ server' = server /\ deserted' = deserted
    BY DEF HandleTake
  <2> QED BY <2>1, HeadMessage DEF Requests
<1>2. /\ Waits("take", l) /\ ~Waits("take", l)'
      /\ \A m \in Loops : Waits("take", m)' => Waits("take", m)
  BY <1>0, <1>1, WaitsTail, BoxInvTail
<1>3. \A r \in Sessions : Waits("incoming", r)' <=> Waits("incoming", r)
  <2>1. \A r \in Sessions : Head(box) # Msg("incoming", r)
    BY <1>1 DEF Msg
  <2> QED BY <1>0, <1>1, <2>1, WaitsTail
<1>4. waiter # l /\ loop[l] \in {"calling", "dead"}
  BY <1>0, <1>2 DEF PlacesInv, LoopInv, LoopOf
<1>5. CASE waiter = NoLoop /\ queue = <<>>
  <2>1. waiter' = l /\ UNCHANGED <<ses, queue, loop>>
    BY <1>1, <1>5 DEF HandleTake
  <2>2. QueueType'
    BY <1>0, <1>1, <2>1 DEF PlacesInv, QueueType
  <2>3. OneLoop' /\ \A r \in Sessions : Held(r) => Held(r)'
    BY <1>0, <2>1 DEF PlacesInv, LoopInv, OneLoop, Runs, Held
  <2>4. ASSUME NEW m \in Loops PROVE LoopOf(m)'
    <3>1. LoopOf(m)
      BY <1>0 DEF PlacesInv, LoopInv
    <3> QED BY <1>2, <1>4, <2>1, <3>1 DEF LoopOf
  <2>5. ASSUME NEW r \in Sessions PROVE PlaceOf(r)'
    BY <1>0, <1>1, <1>3, <2>1, <2>3, PutSame, PlaceKept DEF PlacesInv
  <2> QED BY <2>2, <2>3, <2>4, <2>5 DEF PlacesInv, LoopInv
<1>6. CASE waiter = NoLoop /\ queue # <<>>
  <2>1. PICK s \in Sessions : queue = <<s>>
    <3>1. queue \in Seq(Sessions) /\ Len(queue) = 1
      <4>1. queue \in Seq(Sessions) /\ Len(queue) <= 1
        BY <1>0 DEF TypeOK
      <4>2. Len(queue) \in Nat /\ Len(queue) # 0
        BY <1>6, <4>1, EmptySeq
      <4>3. \A n \in Nat : n <= 1 /\ n # 0 => n = 1
        OBVIOUS
      <4>4. Len(queue) = 1
        BY <4>1, <4>2, <4>3
      <4> QED BY <4>1, <4>4
    <3>2. queue[1] \in Sessions /\ queue = <<queue[1]>>
      BY <3>1
    <3> QED BY <3>2
  <2>2. queue' = <<>> /\ waiter' = NoLoop /\ Replies(l, s)
    BY <1>1, <1>6, <2>1, OneQueued DEF HandleTake
  <2>3. ses[s].at = "queued" /\ ~Waits("incoming", s)
    BY <1>0, <2>1 DEF PlacesInv, PlaceOf
  <2>4. queue' # <<s>> /\ \A r \in Sessions \ {s} : queue' # <<r>> /\ queue # <<r>>
    BY <2>1, <2>2, OneQueued
  <2>5. LoopInv' /\ loop' \in [Loops -> LoopType] /\ \A r \in Sessions : PlaceOf(r)'
    BY <1>1, <1>2, <1>3, <1>4, <2>2, <2>3, <2>4, LoopAnswered
  <2>6. QueueType'
    <3>1. <<>> \in Seq(Sessions) /\ Len(<<>>) = 0
      OBVIOUS
    <3> QED BY <1>0, <1>1, <2>2, <2>5, <3>1 DEF PlacesInv, QueueType
  <2> QED BY <2>5, <2>6 DEF PlacesInv
<1>7. CASE waiter # NoLoop
  <2>1. LoopGoes(l, "dead") /\ UNCHANGED <<ses, queue, waiter>>
    BY <1>1, <1>7 DEF HandleTake
  <2>2. "dead" \in LoopType /\ "dead" \notin Sessions /\ loop[l] \notin Sessions
    BY <1>4, LoopStates DEF LoopType
  <2>3. /\ LoopInv' /\ loop' \in [Loops -> LoopType]
        /\ \A r \in Sessions : r # loop[l] /\ Held(r) => Held(r)'
    BY <1>0, <1>2, <1>4, <2>1, <2>2, LoopMoves
  <2>4. QueueType'
    BY <1>0, <1>1, <2>1, <2>3 DEF PlacesInv, QueueType
  <2>5. ASSUME NEW r \in Sessions PROVE PlaceOf(r)'
    BY <1>0, <1>1, <1>3, <2>1, <2>2, <2>3, PutSame, PlaceKept DEF PlacesInv
  <2> QED BY <2>3, <2>4, <2>5 DEF PlacesInv
<1> QED BY <1>5, <1>6, <1>7

LEMMA PlacesStop ==
  ASSUME LinkInv, ServerStops
  PROVE  PlacesInv'
<1>0. TypeOK /\ PlacesInv
  BY PlacesNow DEF LinkInv
<1>1. /\ server' = FALSE /\ box' = <<>> /\ queue' = <<>> /\ waiter' = NoLoop
      /\ loop' = [l \in Loops |-> IF loop[l] \in {"idle", "calling"} THEN "dead"
                                  ELSE loop[l]]
      /\ deserted' = deserted
  BY DEF ServerStops
<1>2. QueueType'
  <2>1. <<>> \in Seq(Sessions) /\ Len(<<>>) = 0
    OBVIOUS
  <2>2. loop' \in [Loops -> LoopType] /\ deserted' \subseteq Sessions
    BY <1>0, <1>1 DEF PlacesInv, QueueType, LoopType
  <2>3. queue' \in Seq(Sessions) /\ Len(queue') <= 1
    BY <1>1, <2>1
  <2> QED BY <1>1, <2>2, <2>3 DEF QueueType
<1>3. \A w, r : ~Waits(w, r)'
  <2>1. Len(box') = 0
    BY <1>1
  <2> QED BY <2>1 DEF Waits, Places
<1>6. ASSUME NEW r \in Sessions
      PROVE  /\ Put(ses[r], ses'[r]) \/ (ses'[r].at = "lost" /\ ses'[r].parent = "none")
             /\ ses'[r].at \notin {"preface", "posted", "queued"}
             /\ Offered(ses[r]) => Offered(ses'[r])
  <2> DEFINE t == ses[r]
             v == IF t.native = "open" THEN Closed(t) ELSE t
  <2>0. PlaceOf(r) /\ t \in Session
    BY <1>0 DEF PlacesInv, TypeOK
  <2>1. /\ v \in Session /\ v.at = t.at /\ v.parent = t.parent /\ v.side = t.side
        /\ t.native = "none" => v.native = "none"
    BY <2>0, ClosedShape
  <2>2. ses'[r] = IF v.at \in {"preface", "posted", "queued"} /\ v.parent = "none"
                  THEN [v EXCEPT !.at = "lost"] ELSE v
    BY DEF ServerStops
  <2> HIDE DEF v
  <2>5. CASE t.at \in {"preface", "posted", "queued"}
    <3>1. t.parent = "none"
      BY <2>0, <2>5 DEF PlaceOf
    <3>2. ses'[r].at = "lost" /\ ses'[r].parent = "none"
      BY <2>1, <2>2, <2>5, <3>1 DEF Session
    <3> QED BY <2>5, <3>1, <3>2 DEF Offered
  <2>6. CASE t.at \notin {"preface", "posted", "queued"}
    <3>1. ses'[r] = v
      BY <2>1, <2>2, <2>6
    <3> QED BY <2>0, <2>1, <2>6, <3>1 DEF PlaceOf, Put, Offered
  <2> QED BY <2>5, <2>6
<1>4. LoopInv'
  <2>1. OneLoop'
    BY <1>0, <1>1 DEF PlacesInv, LoopInv, OneLoop, Runs
  <2>2. ASSUME NEW l \in Loops PROVE LoopOf(l)'
    <3>1. LoopOf(l) /\ waiter' # l /\ ~Waits("take", l)'
      BY <1>0, <1>1, <1>3, LoopStates DEF PlacesInv, LoopInv
    <3>2. loop'[l] \in Sessions => loop'[l] = loop[l]
      BY <1>1, LoopStates
    <3> QED BY <1>6, <3>1, <3>2 DEF LoopOf
  <2> QED BY <2>1, <2>2 DEF LoopInv
<1>5. ASSUME NEW r \in Sessions PROVE PlaceOf(r)'
  <2>1. PlaceOf(r) /\ queue' # <<r>> /\ ~Waits("incoming", r)'
    BY <1>0, <1>1, <1>3, OneQueued DEF PlacesInv
  <2>2. Held(r) => Held(r)'
    BY <1>1, LoopStates DEF Held
  <2> QED BY <1>1, <1>6, <2>1, <2>2 DEF PlaceOf, Put
<1> QED BY <1>2, <1>4, <1>5 DEF PlacesInv

LEMMA StepPlaces ==
  ASSUME LinkInv, [Next]_vars
  PROVE  PlacesInv'
<1>1. CASE CloseLink
  <2>1. link.owner \in Sessions
    BY <1>1 DEF CloseLink, LinkInv, TypeOK
  <2> QED BY <1>1, <2>1, PutProcesses, PutPlaces
<1> QED
  BY NextCases, <1>1, PutProcesses, PutServer, PutPlaces, PlacesBegin,
     PlacesAsk,
           PlacesOffer, PlacesLeave, PlacesRefused, PlacesIncoming, PlacesTake, PlacesStop

\* The sessions are a function at every step.
LEMMA StepSessions ==
  ASSUME LinkInv, [Next]_vars
  PROVE  ses' \in [Sessions -> Session]
<1>1. ses \in [Sessions -> Session]
  BY DEF LinkInv, TypeOK
<1>2. ses' = [r \in Sessions |-> ses'[r]]
  <2>1. ASSUME NEW s, NEW u, Update(s, u) PROVE <1>2
    BY <1>1, <2>1 DEF Update
  <2>2. CASE UNCHANGED vars \/ HandleUpdate
    BY <1>1, <2>2 DEF vars, HandleUpdate
  <2>3. CASE HandleIncoming
    BY <1>1, <2>3 DEF HandleIncoming, Replies
  <2>4. CASE HandleTake
    BY <1>1, <2>4 DEF HandleTake, Replies
  <2>5. CASE HandleRegister
    BY <1>1, <2>5 DEF HandleRegister
  <2>6. CASE HandleUnregister
    BY <1>1, <2>6 DEF HandleUnregister
  <2>7. CASE ServerStops
    BY <2>7 DEF ServerStops
  <2>8. ASSUME NEW l \in Loops,
               \/ StartLoop(l) \/ TakeIncoming(l) \/ OfferSession(l)
               \/ ForwardController(l) \/ LoopDies(l)
        PROVE  <1>2
    BY <1>1, <2>1, <2>8 DEF StartLoop, TakeIncoming, Asks, OfferSession,
       ForwardController, LoopDies
  <2>9. CASE CloseLink
    BY <2>1, <2>9 DEF CloseLink
  <2>10. ASSUME NEW s \in Sessions,
               \/ Accept(s) \/ IncomingPreface(s) \/ Connect(s)
               \/ OutgoingPrefaceFails(s) \/ StartLink(s) \/ TrapExit(s)
               \/ LinkParent(s) \/ PeerCloses(s) \/ FreeSession(s)
               \/ HandshakeComplete(s) \/ AcceptConnection(s) \/ UnsupportedProtocol(s)
         PROVE <1>2
    BY <2>1, <2>10 DEF AcceptConnection, UnsupportedProtocol, Accept,
       IncomingPreface, Connect, OutgoingPrefaceFails, StartLink,
       TrapExit, Goes, LinkParent, PeerCloses, FreeSession, HandshakeComplete
  <2>11. ASSUME NEW s \in Sessions,
               \/ \E reason \in {"normal", "abnormal"} : ParentExits(s, reason)
               \/ InputEnds(s) \/ HolderReceives(s) \/ OutputWait(s) \/ SendFails(s)
               \/ CallExits(s) \/ Killed(s) \/ InputReceives(s)
         PROVE <1>2
    BY <2>1, <2>11 DEF ParentExits, InputEnds, HolderReceives, StartController,
       OutputWait,
       SendFails, After, Goes, CallExits, Killed, InputReceives
  <2> QED
    BY NextCases, <2>2, <2>3, <2>4, <2>5, <2>6, <2>7, <2>8, <2>9, <2>10, <2>11
<1>3. \A r \in Sessions : ses'[r] \in Session
  BY StepOneConnected
<1> QED BY <1>2, <1>3

LEMMA StepDown ==
  ASSUME LinkInv, [Next]_vars
  PROVE  DownInv'
<1>1. ~server' => queue' = <<>> /\ waiter' = NoLoop
  BY StepPlaces DEF PlacesInv, QueueType
<1>2. DownInv
  BY CallsParts DEF LinkInv
<1>3. ~server' => box' = <<>> /\ link' = NoLink
  BY <1>2, StepKinds DEF DownInv, QuietStep, PostsSession, HandlesSession,
     Stops, PostsUpdate,
     PostsRegister, PostsUnregister, Cuts, HandlesUpdate, HandlesRegister,
     HandlesUnregister
<1> QED BY <1>1, <1>3 DEF DownInv

LEMMA InitSessions == Init => LinkInv
<1> SUFFICES ASSUME Init PROVE LinkInv
  OBVIOUS
<1>1. /\ box = <<>> /\ Len(box) = 0 /\ server = TRUE /\ queue = <<>>
      /\ waiter = NoLoop /\ loop = [l \in Loops |-> "none"]
      /\ link = NoLink /\ balance = 0 /\ cut = {} /\ deserted = {}
  BY DEF Init
<1>2. /\ ses \in [Sessions -> Session]
      /\ \A s \in Sessions :
           /\ ses[s].native = "none" /\ ses[s].at = "none" /\ ses[s].parent = "none"
           /\ ses[s].ctrl = "none" /\ ses[s].mail = <<>> /\ ses[s].input = "none"
           /\ ses[s].frames = 0
  <2> DEFINE new(d) == [side |-> d, native |-> "none", at |-> "none",
                        parent |-> "none", ctrl |-> "none", mail |-> <<>>,
                        input |-> "none", frames |-> 0]
  <2>1. \A d \in {"in", "out"} : new(d) \in Session
    <3>1. <<>> \in Seq({"complete", "close", "parent", "input"}) /\ 0 \in 0..MaxFrames
      BY SessionsAssumption
    <3> QED BY <3>1 DEF Session
  <2>2. ses \in [Sessions -> {new(d) : d \in {"in", "out"}}]
    BY DEF Init
  <2>3. \A s \in Sessions : \E d \in {"in", "out"} : ses[s] = new(d)
    BY <2>2
  <2>4. ses \in [Sessions -> Session]
    BY <2>1, <2>2, <2>3
  <2> QED BY <2>3, <2>4
<1>3. \A w, s : Places(w, s) = {} /\ ~Waits(w, s)
  BY <1>1 DEF Places, Waits
<1>4. TypeOK
  <2>1. /\ box \in Seq([what : Requests, from : Sessions \cup Loops])
        /\ queue \in Seq(Sessions) /\ Len(queue) <= 1
    BY <1>1
  <2>2. link \in [owner : Sessions \cup {NoSession}, frames : Nat]
    BY <1>1 DEF NoLink
  <2> QED BY <1>1, <1>2, <2>1, <2>2 DEF TypeOK
<1>5. RunningIsRegistered /\ OrderInv
  BY <1>1, <1>2 DEF RunningIsRegistered, OrderInv, Up
<1>6. LinkCountsOwnFrames
  <2>1. Cardinality({}) = 0
    BY FS_EmptySet
  <2>2. link.frames = 0
    BY <1>1 DEF NoLink
  <2>3. \A s \in Sessions : Cardinality(Places("update", s)) = 0 /\ ses[s].frames = 0
    BY <1>2, <1>3, <2>1
  <2> QED BY <2>2, <2>3 DEF LinkCountsOwnFrames
<1>7. OneConnected /\ \A s \in Sessions : ProcessInv(ses[s])
  <2>1. \A s \in Sessions : Len(ses[s].mail) = 0 /\ \A x : ~InMail(ses[s], x)
    BY <1>2, MailEmpty
  <2> QED BY <1>2, <2>1 DEF OneConnected, Connected, Has, ProcessInv, Up
<1>8. CallsInv
  BY <1>1, <1>2, <1>3 DEF CallsInv, At
<1>9. BalanceInv
  <2>1. link.owner = NoSession /\ link.frames = 0
    BY <1>1 DEF NoLink
  <2>2. Lost = {} /\ Cardinality(Lost) = 0
    <3>1. Lost = {}
      BY <1>1 DEF Lost
    <3> QED BY <3>1, FS_EmptySet
  <2> QED BY <1>1, <2>1, <2>2 DEF BalanceInv
<1>10. PlaceInv
  BY <1>1, <1>2, <1>3, LoopStates, OneQueued DEF PlaceInv
<1> QED BY <1>4, <1>5, <1>6, <1>7, <1>8, <1>9, <1>10 DEF LinkInv

LEMMA NextSessions == LinkInv /\ [Next]_vars => LinkInv'
<1> SUFFICES ASSUME LinkInv, [Next]_vars PROVE LinkInv'
  OBVIOUS
<1>1. TypeOK'
  BY StepSessions, StepServerType, StepPlaces
     DEF TypeOK, PlacesInv, QueueType, LoopType, Message
<1>2. RunningIsRegistered' /\ LinkCountsOwnFrames' /\ OneConnected' /\ OrderInv'
  BY StepRegistered, StepFrames, StepOneConnected, StepOrder
<1>3. CallsInv'
  BY CallsParts, StepBoxInv, StepDown, StepCalls
<1>4. BalanceInv'
  BY BalanceParts, StepOwner, StepBound
<1>5. PlaceInv'
  BY PlaceParts, StepPlaces DEF PlacesInv
<1>6. \A s \in Sessions : ProcessInv(ses'[s])
  BY StepOneConnected
<1> QED BY <1>1, <1>2, <1>3, <1>4, <1>5, <1>6 DEF LinkInv

\* For any finite number of sessions: a running controller has its own link
\* registered, the link counts the frames of that controller's session only,
\* one session is connected, and every session is in one place.
THEOREM LinksExact == Spec => []LinkInv
BY InitSessions, NextSessions, PTL DEF Spec

\* A dead controller stays registered only if it was killed or one of its calls
\* failed, and node_up and node_down events differ by no more than those
\* controllers and the one link that is up, or that was up when the server
\* terminated without announcing its end.
THEOREM StaleLinks == Spec => []StaleLinkOnlyAfterCut
<1>1. LinkInv => StaleLinkOnlyAfterCut
  <2> SUFFICES ASSUME LinkInv PROVE StaleLinkOnlyAfterCut
    OBVIOUS
  <2>0. TypeOK /\ BalanceInv
    BY DEF LinkInv
  <2>1. link.owner # NoSession /\ At(link.owner, "dead") => link.owner \in cut
    BY <2>0 DEF BalanceInv, At, Up
  <2>2. balance <= Cardinality(cut) + 1
    <3>1. Lost \subseteq cut /\ cut \subseteq Sessions
      BY <2>0 DEF Lost, TypeOK
    <3>2. /\ Cardinality(Lost) \in Nat /\ Cardinality(cut) \in Nat
          /\ Cardinality(Lost) <= Cardinality(cut)
      BY <3>1, LostFinite
    <3>3. balance \in Nat /\ balance <= Cardinality(Lost) + 1
      BY <2>0, <3>2 DEF BalanceInv, TypeOK
    <3> QED BY <3>2, <3>3
  <2>3. link = NoLink <=> link.owner = NoSession
    BY <2>0 DEF BalanceInv, TypeOK, NoLink
  <2> QED BY <2>0, <2>1, <2>2, <2>3 DEF BalanceInv, StaleLinkOnlyAfterCut
<1> QED BY <1>1, LinksExact, PTL

\* The first message of a mailbox that is not empty.
LEMMA FirstMail ==
  ASSUME NEW t \in Session, NEW x, InMail(t, x)
  PROVE  /\ t.mail # <<>> /\ Head(t.mail) \in Mails /\ InMail(t, Head(t.mail))
<1> DEFINE q == t.mail
<1>1. q \in Seq(Mails) /\ q # <<>>
  BY SessionShape, MailEmpty
<1>2. Len(q) \in Nat \ {0} /\ Head(q) = q[1] /\ q[1] \in Mails
  <2> HIDE DEF q
  <2> QED BY <1>1
<1> QED BY <1>1, <1>2 DEF InMail

\* A controller whose input process has ended has, as its next message, one that
\* ends the link.
THEOREM InputEnded == Spec => []InputEndEndsLink
<1>1. LinkInv => InputEndEndsLink
  <2> SUFFICES ASSUME LinkInv, NEW s \in Sessions, ses[s].ctrl = "running",
                      ses[s].input # "loop"
               PROVE  Gets(s, "close") \/ Gets(s, "parent") \/ Gets(s, "input")
    BY DEF InputEndEndsLink, At
  <2>1. ses[s] \in Session /\ ProcessInv(ses[s])
    BY DEF LinkInv, TypeOK
  <2>2. InMail(ses[s], "input") /\ ~InMail(ses[s], "complete")
    BY <2>1 DEF ProcessInv
  <2>3. /\ ses[s].mail # <<>> /\ Head(ses[s].mail) \in Mails
        /\ InMail(ses[s], Head(ses[s].mail))
    BY <2>1, <2>2, FirstMail
  <2> QED BY <2>2, <2>3 DEF Gets, Mails
<1> QED BY <1>1, LinksExact, PTL

\* When nothing is left to do, a connection that is open is the one in the queue,
\* or has both a handshake or tick process and a controller, or is that of a
\* do_accept whose accept loop died before it forwarded the session.
THEOREM NoOrphans == Spec => []NoOrphanSession
<1>1. LinkInv => NoOrphanSession
  <2> SUFFICES ASSUME LinkInv, Settled, NEW s \in Sessions, ses[s].native = "open"
               PROVE  \/ ses[s].at = "queued" /\ queue = <<s>>
                      \/ /\ ses[s].parent \in {"handshake", "completing", "up"}
                         /\ ses[s].ctrl \in {"waiting", "running"}
                      \/ ses[s].parent = "accepting" /\ s \in deserted
    BY DEF NoOrphanSession
  <2> DEFINE t == ses[s]
  <2>0. t \in Session /\ ProcessInv(t) /\ CallOf(s) /\ PlaceOf(s) /\ DownInv
    BY CallsParts, PlacesNow DEF LinkInv, TypeOK, PlacesInv
  <2>1. /\ box = <<>> /\ t.at # "kernel"
        /\ ~(server /\ t.side = "in" /\ t.at = "preface")
        /\ ~(t.parent = "handshake" /\ t.ctrl = "none")
        /\ t.ctrl = "dead" =>
             t.parent \in {"none", "accepting", "dead"} /\ t.input # "loop"
        /\ t.ctrl \notin {"spawned", "trapping"}
        /\ ~server => t.ctrl \notin {"registering", "unregistering"}
        /\ Referenced(t)
    BY <2>0 DEF Settled, DownInv
  <2>9. Held(s) => t.at # "loop" /\ t.parent # "accepting"
    BY DEF Settled, Held
  <2>2. ~Waits("incoming", s) /\ ~Waits("register", s) /\ ~Waits("unregister", s)
    <3>1. Len(box) = 0
      BY <2>1
    <3> QED BY <3>1 DEF Waits, Places
  <2>3. t.ctrl \notin {"registering", "unregistering", "spawned", "trapping"}
    BY <2>0, <2>1, <2>2 DEF CallOf
  <2>4. /\ t.at \notin {"preface", "posted", "loop", "kernel"}
        /\ t.parent = "accepting" => s \in deserted
    BY <2>0, <2>1, <2>2, <2>9 DEF PlaceOf
  <2>5. CASE t.at = "queued"
    BY <2>0, <2>5 DEF PlaceOf
  <2>6. CASE t.parent \in {"handshake", "completing", "up"}
    <3>1. t.ctrl \in {"waiting", "running"}
      BY <2>0, <2>1, <2>3, <2>6, SessionShape DEF ProcessInv
    <3> QED BY <2>6, <3>1
  <2>10. CASE t.parent = "accepting"
    BY <2>4, <2>10
  <2>7. CASE /\ t.parent \notin {"accepting", "handshake", "completing", "up"}
             /\ t.ctrl \notin {"none", "dead"}
    <3>1. t.parent = "dead" /\ t.ctrl \in {"waiting", "running"}
      BY <2>0, <2>3, <2>7, SessionShape DEF ProcessInv
    <3>2. InMail(t, "parent")
      BY <2>0, <3>1 DEF ProcessInv
    <3>3. t.mail # <<>> /\ Head(t.mail) \in Mails /\ InMail(t, Head(t.mail))
      BY <2>0, <3>2, FirstMail
    <3>4. CASE t.ctrl = "waiting"
      <4>1. Head(t.mail) \notin {"complete", "close", "parent"}
        BY <3>3, <3>4 DEF Settled, At, Gets
      <4>2. ~InMail(t, "input")
        BY <2>0, <3>4 DEF ProcessInv
      <4> QED BY <3>3, <4>1, <4>2 DEF Mails
    <3>5. CASE t.ctrl = "running"
      <4>1. Head(t.mail) \notin {"input", "close", "parent"}
        BY <3>3, <3>5 DEF Settled, At, Gets
      <4>2. ~InMail(t, "complete")
        BY <2>0, <3>5 DEF ProcessInv
      <4> QED BY <3>3, <4>1, <4>2 DEF Mails
    <3> QED BY <3>1, <3>4, <3>5
  <2>8. CASE t.ctrl \in {"none", "dead"} /\ t.input = "loop"
    BY <2>0, <2>1, <2>8 DEF ProcessInv
  <2> QED BY <2>1, <2>4, <2>5, <2>6, <2>7, <2>8, <2>10 DEF Referenced
<1> QED BY <1>1, LinksExact, PTL
==============================================================================
