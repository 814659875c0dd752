--------------------------- MODULE Redirect_proofs ---------------------------
(***************************************************************************)
(* What holds of the redirection links for any number of tuner inputs and  *)
(* ports.  TypeOK and TableMatches hold for any number of processes that   *)
(* write the attribute.  RedoHasBackLink, ChainsEnd and what the described *)
(* use promises hold for one at a time: a second one can link a port       *)
(* between the two halves of ddb_redirect.                                 *)
(*                                                                         *)
(* Then what becomes of the cells in the ring of an input, for rings of    *)
(* any size: they go to the output the input is linked to (RedirectPipe),  *)
(* the worker gives them to the demux (InputWork), or a process reads them *)
(* (TsRead).                                                               *)
(***************************************************************************)
EXTENDS Redirect, TLAPS

\* Nothing is linked and every variable has its type at the start.
LEMMA TypeInit == Init => TypeOK
  BY RedirectAssumption DEF RedirectAssumption, Init, TypeOK, Input, Idle

LinksTyped ==
  /\ redi \in [Input -> Input \cup {Null}] /\ redo \in [Input -> Port \cup {Null}]
  /\ outRedi \in [Port -> Input \cup {Null}] /\ table \in [Input -> Port \cup {Null}]

\* ddb_unredirect keeps the pointers pointers.
LEMMA UnlinkType ==
  ASSUME LinksTyped, NEW p \in Port, Unlink(p)
  PROVE  LinksTyped'
  <1>1. CASE outRedi[p] = Null
    BY <1>1 DEF Unlink, linkVars, LinksTyped
  <1>2. CASE outRedi[p] # Null
    <2>1. /\ outRedi[p] \in Input /\ p \in Input
          /\ redi[p] \in Input \cup {Null} /\ redo[p] \in Port \cup {Null}
      BY <1>2 DEF LinksTyped, Input
    <2>2. CASE redo[p] = Null
      BY <1>2, <2>1, <2>2 DEF Unlink, LinksTyped
    <2>3. CASE redo[p] # Null
      BY <1>2, <2>1, <2>3 DEF Unlink, LinksTyped, Input
    <2> QED BY <2>2, <2>3
  <1> QED BY <1>1, <1>2

\* So does the second half of ddb_redirect.
LEMMA LinkType ==
  ASSUME LinksTyped, NEW i \in Input, NEW p \in Port, Link(i, p)
  PROVE  LinksTyped'
  <1>1. p \in Input /\ redi[i] \in Input \cup {Null}
    BY DEF LinksTyped, Input
  <1> QED BY <1>1 DEF Link, LinksTyped

\* A pending request names an input and a port.
LEMMA RequestParts ==
  ASSUME TypeOK, NEW w \in Writer, request[w] # Idle
  PROVE  request[w].input \in Input /\ request[w].port \in Port
  BY DEF TypeOK, Idle

\* Every step keeps every variable in its set.
LEMMA TypeStep == TypeOK /\ [Next]_vars => TypeOK'
  <1> SUFFICES ASSUME TypeOK, [Next]_vars PROVE TypeOK'
    OBVIOUS
  <1> USE DEF TypeOK
  <1>0. LinksTyped
    BY DEF LinksTyped
  <1>a. described' \in BOOLEAN
    BY DEF Next, vars
  <1>1. ASSUME NEW w \in Writer, NEW i \in Input \cup {Null}, NEW p \in Port,
               StoreUnlink(w, i, p)
        PROVE  TypeOK'
    <2>1. LinksTyped'
      BY <1>0, <1>1, UnlinkType DEF StoreUnlink
    <2>2. request' \in [Writer -> {Idle} \cup [input : Input, port : Port]]
      BY <1>1 DEF StoreUnlink
    <2> QED BY <1>a, <1>1, <2>1, <2>2 DEF StoreUnlink, LinksTyped, runVars, userVars
  <1>2. ASSUME NEW w \in Writer, StoreLink(w) PROVE TypeOK'
    <2>1. request[w].input \in Input /\ request[w].port \in Port
      BY <1>2, RequestParts DEF StoreLink
    <2>2. LinksTyped'
      <3>1. CASE UNCHANGED linkVars
        BY <1>0, <3>1 DEF LinksTyped, linkVars
      <3>2. CASE Link(request[w].input, request[w].port)
        BY <1>0, <2>1, <3>2, LinkType
      <3> QED BY <1>2, <3>1, <3>2 DEF StoreLink
    <2> QED BY <1>a, <1>2, <2>2 DEF StoreLink, LinksTyped, runVars, userVars
  <1>3. ASSUME NEW t \in Tuner, StartFeed(t) \/ StopFeed(t) PROVE TypeOK'
    <2>1. users' \in [Tuner -> 0 .. MaxFeed]
      BY <1>3, RedirectAssumption DEF StartFeed, StopFeed, RedirectAssumption
    <2>2. inRun' \subseteq Input /\ outRun' \subseteq Port
      BY <1>3 DEF StartFeed, StopFeed, Chain, Input, runVars
    <2> QED BY <1>a, <1>3, <2>1, <2>2 DEF StartFeed, StopFeed, linkVars
  <1>4. ASSUME NEW p \in Port,
               \/ OpenReader(p) \/ StartReader(p) \/ CloseReader(p)
               \/ OpenWriter(p) \/ CloseWriter(p)
        PROVE  TypeOK'
    BY <1>a, <1>4 DEF OpenReader, StartReader, CloseReader, OpenWriter, CloseWriter, Input,
                linkVars, runVars
  <1>5. CASE UNCHANGED vars
    BY <1>5 DEF vars, linkVars, runVars, userVars
  <1> QED
    BY <1>1, <1>2, <1>3, <1>4, <1>5, RedirectAssumption DEF Next, Step, RedirectAssumption

\* Every variable of every reachable state has its type.
THEOREM LinksWellTyped == Spec => []TypeOK
  BY TypeInit, TypeStep, PTL DEF Spec
-----------------------------------------------------------------------------
\* A step rearranges links by Unlink, by Link of a pending request, or not at all.
LEMMA LinkSteps ==
  ASSUME TypeOK, [Next]_vars
  PROVE  \/ \E p \in Port : Unlink(p)
         \/ \E w \in Writer : request[w] # Idle /\ Link(request[w].input, request[w].port)
         \/ UNCHANGED linkVars
  <1>1. CASE \E w \in Writer, i \in Input \cup {Null}, p \in Port : StoreUnlink(w, i, p)
    BY <1>1 DEF StoreUnlink
  <1>2. CASE \E w \in Writer : StoreLink(w)
    BY <1>2 DEF StoreLink
  <1>3. CASE \E t \in Tuner : StartFeed(t) \/ StopFeed(t)
    BY <1>3 DEF StartFeed, StopFeed
  <1>4. CASE \E p \in Opened : \/ OpenReader(p) \/ StartReader(p) \/ CloseReader(p)
                               \/ OpenWriter(p) \/ CloseWriter(p)
    BY <1>4 DEF OpenReader, StartReader, CloseReader, OpenWriter, CloseWriter
  <1>5. CASE UNCHANGED vars
    BY <1>5 DEF vars
  <1> QED BY <1>1, <1>2, <1>3, <1>4, <1>5 DEF Next, Step

\* Both halves of ddb_redirect treat the table as they treat redo.
LEMMA TableStep == TypeOK /\ TableMatches /\ [Next]_vars => TableMatches'
  <1> SUFFICES ASSUME TypeOK, TableMatches, [Next]_vars PROVE TableMatches'
    OBVIOUS
  <1>1. ASSUME NEW p \in Port, Unlink(p) PROVE TableMatches'
    <2>1. CASE outRedi[p] = Null
      BY <1>1, <2>1 DEF Unlink, linkVars, TableMatches
    <2>2. CASE outRedi[p] # Null /\ redo[p] = Null
      BY <1>1, <2>2 DEF Unlink, TableMatches, TypeOK, Input
    <2>3. CASE outRedi[p] # Null /\ redo[p] # Null
      BY <1>1, <2>3 DEF Unlink, TableMatches, TypeOK, Input
    <2> QED BY <2>1, <2>2, <2>3
  <1>2. ASSUME NEW w \in Writer, Link(request[w].input, request[w].port)
        PROVE  TableMatches'
    BY <1>2 DEF Link, TableMatches
  <1>3. CASE UNCHANGED linkVars
    BY <1>3 DEF linkVars, TableMatches
  <1> QED BY <1>1, <1>2, <1>3, LinkSteps

\* An input engine always fills the buffers of the output it is linked to.
THEOREM TablesMatch == Spec => []TableMatches
  <1>1. Init => TableMatches
    BY DEF Init, TableMatches
  <1> QED BY <1>1, LinksWellTyped, TableStep, PTL DEF Spec
-----------------------------------------------------------------------------
(* With one writer of the attribute at a time, the port of a request is     *)
(* free from the unlink to the link.                                        *)
OneWriter == \A v, w \in Writer : v = w

PortFree == \A w \in Writer : request[w] # Idle => outRedi[request[w].port] = Null

LinkInv == OneWriter /\ TypeOK /\ RedoHasBackLink /\ PortFree

\* Taking a port out keeps the links of the others paired and frees the port.
LEMMA UnlinkKeeps ==
  ASSUME TypeOK, RedoHasBackLink, NEW p \in Port, Unlink(p)
  PROVE  RedoHasBackLink' /\ outRedi'[p] = Null
  <1>1. CASE outRedi[p] = Null
    BY <1>1 DEF Unlink, linkVars, RedoHasBackLink
  <1>2. CASE outRedi[p] # Null
    <2> DEFINE o == outRedi[p]
    <2>1. o \in Input /\ p \in Input /\ redo[p] \in Port \cup {Null}
      BY <1>2 DEF TypeOK, Input
    <2>2. redo' = [redo EXCEPT ![p] = Null, ![o] = Null]
      BY <1>2 DEF Unlink
    <2>3. ASSUME NEW i \in Input, redo'[i] # Null
          PROVE  i # p /\ i # o /\ redo'[i] = redo[i] /\ redo[i] \in Port
                 /\ outRedi[redo[i]] = i /\ redo[i] # p
      BY <2>1, <2>2, <2>3 DEF TypeOK, RedoHasBackLink
    <2>4. outRedi'[p] = Null
      BY <1>2 DEF Unlink, TypeOK
    <2>5. ASSUME NEW q \in Port, q # p, q # redo[p] PROVE outRedi'[q] = outRedi[q]
      BY <1>2, <2>5 DEF Unlink, TypeOK
    <2>6. ASSUME NEW i \in Input, redo'[i] # Null PROVE redo[i] # redo[p]
      BY <2>1, <2>3, <2>6 DEF RedoHasBackLink
    <2> QED BY <2>3, <2>4, <2>5, <2>6 DEF RedoHasBackLink
  <1> QED BY <1>1, <1>2

\* Linking a free port keeps the links paired.
LEMMA LinkKeeps ==
  ASSUME TypeOK, RedoHasBackLink, NEW i \in Input, NEW p \in Port, outRedi[p] = Null,
         Link(i, p)
  PROVE  RedoHasBackLink'
  <1>1. \A j \in Input : redo[j] # p
    BY RedirectAssumption DEF RedoHasBackLink, RedirectAssumption, Input
  <1>2. redo' = [redo EXCEPT ![i] = p] /\ outRedi' = [outRedi EXCEPT ![p] = i]
    BY DEF Link
  <1>3. ASSUME NEW j \in Input, redo'[j] # Null PROVE outRedi'[redo'[j]] = j
    <2>1. CASE j = i
      BY <1>2, <2>1 DEF TypeOK
    <2>2. CASE j # i
      BY <1>1, <1>2, <1>3, <2>2 DEF TypeOK, RedoHasBackLink
    <2> QED BY <2>1, <2>2
  <1> QED BY <1>3 DEF RedoHasBackLink

\* Every step keeps the links paired and the port of a request free.
LEMMA LinkInvStep == LinkInv /\ [Next]_vars => LinkInv'
  <1> SUFFICES ASSUME LinkInv, [Next]_vars PROVE LinkInv'
    OBVIOUS
  <1> USE DEF LinkInv
  <1>0. OneWriter' /\ TypeOK'
    BY TypeStep DEF OneWriter
  <1>1. ASSUME NEW w \in Writer, NEW i \in Input \cup {Null}, NEW p \in Port,
               StoreUnlink(w, i, p)
        PROVE  RedoHasBackLink' /\ PortFree'
    <2>1. RedoHasBackLink' /\ outRedi'[p] = Null
      BY <1>1, UnlinkKeeps DEF StoreUnlink
    <2>2. ASSUME NEW v \in Writer, request'[v] # Idle
          PROVE  outRedi'[request'[v].port] = Null
      <3>1. v = w /\ request[w] = Idle
        BY <1>1 DEF OneWriter, StoreUnlink
      <3>2. request'[v].port = p
        BY <1>1, <2>2, <3>1 DEF StoreUnlink, TypeOK
      <3> QED BY <2>1, <3>2
    <2> QED BY <2>1, <2>2 DEF PortFree
  <1>2. ASSUME NEW w \in Writer, StoreLink(w) PROVE RedoHasBackLink' /\ PortFree'
    <2>1. RedoHasBackLink'
      <3>1. /\ request[w].input \in Input /\ request[w].port \in Port
            /\ outRedi[request[w].port] = Null
        BY <1>2, RequestParts DEF StoreLink, PortFree
      <3>2. CASE UNCHANGED linkVars
        BY <3>2 DEF linkVars, RedoHasBackLink
      <3>3. CASE Link(request[w].input, request[w].port)
        BY <3>1, <3>3, LinkKeeps
      <3> QED BY <1>2, <3>2, <3>3 DEF StoreLink
    <2>2. \A v \in Writer : request'[v] = Idle
      BY <1>2 DEF StoreLink, OneWriter, TypeOK
    <2> QED BY <2>1, <2>2 DEF PortFree
  <1>3. ASSUME UNCHANGED <<linkVars, request>> PROVE RedoHasBackLink' /\ PortFree'
    BY <1>3 DEF linkVars, RedoHasBackLink, PortFree
  <1>4. ASSUME NEW t \in Tuner, StartFeed(t) \/ StopFeed(t)
        PROVE  UNCHANGED <<linkVars, request>>
    BY <1>4 DEF StartFeed, StopFeed
  <1>5. ASSUME NEW p \in Opened,
               \/ OpenReader(p) \/ StartReader(p) \/ CloseReader(p)
               \/ OpenWriter(p) \/ CloseWriter(p)
        PROVE  UNCHANGED <<linkVars, request>>
    BY <1>5 DEF OpenReader, StartReader, CloseReader, OpenWriter, CloseWriter
  <1>6. CASE UNCHANGED vars
    BY <1>0, <1>3, <1>6 DEF vars
  <1> QED BY <1>0, <1>1, <1>2, <1>3, <1>4, <1>5, <1>6 DEF Next, Step

\* With one writer the links stay paired and the port of its request free.
THEOREM LinkInvariant == OneWriter /\ Spec => []LinkInv
  <1>1. OneWriter /\ Init => LinkInv
    BY TypeInit DEF Init, LinkInv, RedoHasBackLink, PortFree
  <1> QED BY <1>1, LinkInvStep, PTL DEF Spec

\* With one writer, no two inputs ever fill the buffers of the same output.
THEOREM BothEndsAgree == OneWriter /\ Spec => []RedoHasBackLink
  BY LinkInvariant, PTL DEF LinkInv

\* With one writer the two ends of every link and the tables agree.
THEOREM LinksStayPaired == OneWriter /\ Spec => []LinksPaired
  BY BothEndsAgree, TablesMatch, PTL DEF LinksPaired
-----------------------------------------------------------------------------
\* Chain(i) contains what follows i and is closed under redo.
LEMMA ChainOnward ==
  ASSUME TypeOK, NEW i \in Input
  PROVE  /\ Chain(i) \subseteq Port /\ Onward(Chain(i))
         /\ redo[i] \in Chain(i) \cup {Null}
  BY DEF Chain, Onward, TypeOK, Input

\* Chain(i) is the smallest such set.
LEMMA ChainLeast ==
  ASSUME NEW i \in Input, NEW C \in SUBSET Port, redo[i] \in C \cup {Null}, Onward(C)
  PROVE  Chain(i) \subseteq C
  BY DEF Chain

\* Every port of a chain has an input before it, on the chain or its start.
LEMMA ChainBefore ==
  ASSUME TypeOK, NEW i \in Input, NEW p \in Chain(i)
  PROVE  \E j \in Chain(i) \cup {i} : redo[j] = p
  <1> SUFFICES ASSUME \A j \in Chain(i) \cup {i} : redo[j] # p PROVE FALSE
    OBVIOUS
  <1> DEFINE C == Chain(i) \ {p}
  <1>1. C \in SUBSET Port /\ redo[i] \in C \cup {Null} /\ Onward(C)
    BY ChainOnward DEF Onward
  <1>2. Chain(i) \subseteq C
    BY <1>1, ChainLeast
  <1> QED BY <1>2

\* A chain that starts with a tuner input never comes back to one of its ports.
LEMMA NoCycle == TypeOK /\ RedoHasBackLink => ChainsEnd
  <1> SUFFICES ASSUME TypeOK, RedoHasBackLink, NEW t \in Tuner
               PROVE  \A p \in Chain(t) : p \notin Chain(p)
    BY DEF ChainsEnd
  <1> DEFINE C == {p \in Chain(t) : p \notin Chain(p)}
  <1>1. t \in Input /\ t \notin Port /\ Port \subseteq Input /\ Null \notin Input
    BY RedirectAssumption DEF RedirectAssumption, Input
  <1>2. \A i, j \in Input : redo[i] = redo[j] /\ redo[i] # Null => i = j
    BY DEF RedoHasBackLink
  <1>3. C \in SUBSET Port
    BY DEF Chain
  <1>4. redo[t] \in C \cup {Null}
    <2> SUFFICES ASSUME redo[t] # Null, redo[t] \in Chain(redo[t]) PROVE FALSE
      BY <1>1, ChainOnward
    <2>1. redo[t] \in Port
      BY <1>1 DEF TypeOK
    <2>2. PICK j \in Chain(redo[t]) \cup {redo[t]} : redo[j] = redo[t]
      BY <1>1, <2>1, ChainBefore
    <2>3. j \in Port
      BY <2>1, <2>2 DEF Chain
    <2> QED BY <1>1, <1>2, <2>2, <2>3
  <1>5. Onward(C)
    <2> SUFFICES ASSUME NEW q \in C, redo[q] # Null, redo[q] \notin C PROVE FALSE
      BY DEF Onward
    <2> DEFINE r == redo[q]
    <2>1. q \in Port /\ r \in Port /\ r \in Chain(t)
      BY <1>1, ChainOnward DEF Onward
    <2>2. r \in Chain(r)
      BY <2>1
    <2>3. PICK j \in Chain(r) \cup {r} : redo[j] = r
      BY <1>1, <2>1, <2>2, ChainBefore
    <2>4. j = q
      BY <1>1, <1>2, <2>1, <2>3 DEF Chain
    <2>5. Chain(r) \subseteq Chain(q)
      <3>1. r \in Chain(q) /\ Onward(Chain(q)) /\ Chain(q) \in SUBSET Port
        BY <1>1, <2>1, ChainOnward
      <3> QED BY <1>1, <2>1, <3>1, ChainLeast DEF Onward
    <2>6. q \in Chain(q)
      BY <2>2, <2>3, <2>4, <2>5
    <2> QED BY <2>6
  <1> QED BY <1>1, <1>3, <1>4, <1>5, ChainLeast

\* With one writer, ddb_input_start_all and ddb_input_stop_all always terminate.
THEOREM StartAllEnds == OneWriter /\ Spec => []ChainsEnd
  BY LinkInvariant, NoCycle, PTL DEF LinkInv

-----------------------------------------------------------------------------
(* Chains that change.                                                      *)

(* An input and the ports that its stream is led through.                   *)
Along(i) == Chain(i) \cup {i}

\* ChainOnward and ChainLeast of the state after a step.
LEMMA ChainOnwardNext ==
  ASSUME TypeOK', NEW i \in Input
  PROVE  /\ Chain(i)' \subseteq Port /\ \A p \in Chain(i)' : redo'[p] \in Chain(i)' \cup {Null}
         /\ redo'[i] \in Chain(i)' \cup {Null}
  BY DEF Chain, Onward, TypeOK, Input

LEMMA ChainLeastNext ==
  ASSUME NEW i \in Input, NEW C \in SUBSET Port, redo'[i] \in C \cup {Null},
         \A p \in C : redo'[p] \in C \cup {Null}
  PROVE  Chain(i)' \subseteq C
  BY DEF Chain, Onward

\* A chain changes only where a link along it does.
LEMMA ChainStays ==
  ASSUME TypeOK, TypeOK', NEW i \in Input, \A j \in Along(i) : redo'[j] = redo[j]
  PROVE  Chain(i)' = Chain(i)
  <1>1. Chain(i)' \subseteq Chain(i)
    BY ChainOnward, ChainLeastNext DEF Onward, Along
  <1>2. Chain(i) \subseteq Chain(i)'
    <2> DEFINE C == Chain(i) \cap Chain(i)'
    <2>1. C \in SUBSET Port /\ redo[i] \in C \cup {Null} /\ Onward(C)
      BY ChainOnward, ChainOnwardNext DEF Onward, Along
    <2> QED BY <2>1, ChainLeast
  <1> QED BY <1>1, <1>2

\* Two tuner inputs share no port.
LEMMA ChainsApart ==
  ASSUME TypeOK, RedoHasBackLink, NEW t \in Tuner, NEW u \in Tuner, t # u
  PROVE  Along(t) \cap Along(u) = {}
  <1> DEFINE C == Chain(t) \ Chain(u)
  <1>1. /\ t \in Input /\ u \in Input /\ t \notin Port /\ u \notin Port
        /\ Port \subseteq Input /\ Null \notin Input
    BY RedirectAssumption DEF RedirectAssumption, Input
  <1>2. \A i, j \in Input : redo[i] = redo[j] /\ redo[i] # Null => i = j
    BY DEF RedoHasBackLink
  <1>3. ASSUME NEW j \in Along(t), redo[j] \in Chain(u) PROVE j \in Chain(u)
    <2>1. j \in Input /\ redo[j] \in Port
      BY <1>1, <1>3, ChainOnward DEF Along
    <2>2. PICK k \in Chain(u) \cup {u} : redo[k] = redo[j]
      BY <1>1, <1>3, ChainBefore
    <2>3. k = j
      BY <1>1, <1>2, <2>1, <2>2, ChainOnward
    <2>4. j # u
      BY <1>1, ChainOnward DEF Along
    <2> QED BY <2>2, <2>3, <2>4
  <1>4. C \in SUBSET Port /\ redo[t] \in C \cup {Null} /\ Onward(C)
    BY <1>1, <1>3, ChainOnward DEF Onward, Along
  <1>5. Chain(t) \subseteq C
    BY <1>1, <1>4, ChainLeast
  <1> QED BY <1>1, <1>5, ChainOnward DEF Along

\* Linking a loose port to the end of a chain makes the chain longer by it.
LEMMA ChainGrows ==
  ASSUME TypeOK, TypeOK', NEW t \in Tuner, NEW i \in Along(t), NEW p \in Port, i # p,
         redo[i] = Null, redo[p] = Null, redo' = [redo EXCEPT ![i] = p]
  PROVE  Chain(t)' = Chain(t) \cup {p}
  <1>1. t \in Input /\ i \in Input /\ Port \subseteq Input /\ Null \notin Input
    BY ChainOnward, RedirectAssumption DEF RedirectAssumption, Along, Input
  <1>2. redo'[i] = p /\ \A j \in Input : j # i => redo'[j] = redo[j]
    BY <1>1 DEF TypeOK
  <1>3. Chain(t)' \subseteq Chain(t) \cup {p}
    <2> DEFINE C == Chain(t) \cup {p}
    <2>1. /\ C \in SUBSET Port /\ redo'[t] \in C \cup {Null}
          /\ \A q \in C : redo'[q] \in C \cup {Null}
      BY <1>1, <1>2, ChainOnward DEF Onward
    <2> QED BY <1>1, <2>1, ChainLeastNext
  <1>4. Chain(t) \subseteq Chain(t)'
    <2> DEFINE C == Chain(t) \cap Chain(t)'
    <2>1. C \in SUBSET Port /\ redo[t] \in C \cup {Null} /\ Onward(C)
      BY <1>1, <1>2, ChainOnward, ChainOnwardNext DEF Onward
    <2> QED BY <1>1, <2>1, ChainLeast
  <1>5. p \in Chain(t)'
    BY <1>1, <1>2, <1>4, ChainOnwardNext DEF Along
  <1> QED BY <1>3, <1>4, <1>5

\* Taking the last port out makes the chain shorter by it.
LEMMA ChainShrinks ==
  ASSUME TypeOK, TypeOK', RedoHasBackLink, NEW t \in Tuner, NEW p \in Chain(t),
         NEW o \in Input, redo[o] = p, redo[p] = Null, redo' = [redo EXCEPT ![o] = Null]
  PROVE  Chain(t)' = Chain(t) \ {p} /\ o \in Along(t) \ {p}
  <1>1. t \in Input /\ p \in Port /\ Port \subseteq Input /\ Null \notin Input
    BY ChainOnward, RedirectAssumption DEF RedirectAssumption, Input
  <1>2. redo'[o] = Null /\ \A j \in Input : j # o => redo'[j] = redo[j]
    BY <1>1 DEF TypeOK
  <1>3. o \in Along(t) \ {p}
    <2>1. PICK j \in Chain(t) \cup {t} : redo[j] = p
      BY <1>1, ChainBefore
    <2>2. j = o
      BY <1>1, <2>1, ChainOnward DEF RedoHasBackLink
    <2> QED BY <1>1, <2>1, <2>2 DEF Along
  <1>4. \A j \in Input : redo[j] = p => j = o
    BY <1>1 DEF RedoHasBackLink
  <1>5. Chain(t)' \subseteq Chain(t) \ {p}
    <2> DEFINE C == Chain(t) \ {p}
    <2>1. /\ C \in SUBSET Port /\ redo'[t] \in C \cup {Null}
          /\ \A q \in C : redo'[q] \in C \cup {Null}
      BY <1>1, <1>2, <1>4, ChainOnward DEF Onward
    <2> HIDE DEF C
    <2>2. Chain(t)' \subseteq C
      BY <1>1, <2>1, ChainLeastNext
    <2> QED BY <2>2 DEF C
  <1>6. Chain(t) \subseteq Chain(t)' \cup {p}
    <2> DEFINE C == Chain(t)' \cup {p}
    <2>1. C \in SUBSET Port /\ redo[t] \in C \cup {Null} /\ Onward(C)
      BY <1>1, <1>2, ChainOnwardNext DEF Onward
    <2> QED BY <1>1, <2>1, ChainLeast
  <1> QED BY <1>3, <1>5, <1>6

-----------------------------------------------------------------------------
(* The use that docs/redirect describes, with one writer.                   *)

(* Only the last input of the chain of a tuner input delivers, to the demux *)
(* of that tuner input; ...                                                 *)
EndsMarked ==
  \A i \in Input :
    /\ redi[i] \in Tuner \cup {Null}
    /\ \A t \in Tuner : redi[i] = t => redo[i] = Null /\ i \in Along(t)

(* ... the last input of a chain always delivers; ...                       *)
LastMarked ==
  \A i \in Input : (i \in Tuner \/ outRedi[i] # Null) /\ redo[i] = Null => redi[i] # Null

(* ... a port of no chain has no link; a port of a chain is the one that    *)
(* the input before it is linked to; ...                                    *)
LooseClear == \A p \in Port : outRedi[p] = Null => redi[p] = Null /\ redo[p] = Null

BackLinkUsed == \A p \in Port : outRedi[p] # Null => redo[outRedi[p]] = p

Ends == EndsMarked /\ LastMarked /\ LooseClear /\ BackLinkUsed

(* ... and a request links a port to the end of a chain.                    *)
RequestAtEnd ==
  \A w \in Writer : request[w] # Idle =>
    redi[request[w].input] # Null /\ request[w].input # request[w].port

(* The last port p of the chain of t is taken out after o.                  *)
Taken(t, o, p) ==
  /\ p \in Chain(t) /\ outRedi[p] = o /\ redo[o] = p /\ redo[p] = Null /\ o # p
  /\ redi[p] = t
  /\ redo' = [redo EXCEPT ![o] = Null] /\ outRedi' = [outRedi EXCEPT ![p] = Null]
  /\ redi' = [redi EXCEPT ![o] = t, ![p] = Null] /\ table' = [table EXCEPT ![o] = Null]

(* The loose port p becomes the last of the chain of t, after i.            *)
Added(t, i, p) ==
  /\ i \in Along(t) /\ redi[i] = t /\ redo[i] = Null /\ i # p
  /\ outRedi[p] = Null /\ redo[p] = Null /\ redi[p] = Null
  /\ redo' = [redo EXCEPT ![i] = p] /\ outRedi' = [outRedi EXCEPT ![p] = i]
  /\ redi' = [redi EXCEPT ![p] = t, ![i] = Null] /\ table' = [table EXCEPT ![i] = p]

\* Of a port with nothing after it ddb_unredirect takes the end of a chain.
LEMMA UnlinkTakes ==
  ASSUME TypeOK, Ends, NEW p \in Port, redo[p] = Null, Unlink(p), outRedi[p] # Null
  PROVE  \E t \in Tuner, o \in Input : Taken(t, o, p)
  <1> DEFINE o == outRedi[p]
             t == redi[p]
  <1>1. p \in Input /\ o \in Input /\ o # Null /\ redo[o] = p /\ o # p
    BY RedirectAssumption DEF RedirectAssumption, TypeOK, Input, Ends, BackLinkUsed
  <1>2. t # Null /\ t \in Tuner /\ p \in Chain(t)
    BY <1>1, RedirectAssumption
       DEF RedirectAssumption, Ends, EndsMarked, LastMarked, Along
  <1>3. /\ outRedi' = [outRedi EXCEPT ![p] = Null]
        /\ redi' = [redi EXCEPT ![o] = t, ![p] = Null]
        /\ redo' = [redo EXCEPT ![p] = Null, ![o] = Null]
        /\ table' = [table EXCEPT ![p] = @, ![o] = Null]
    BY DEF Unlink
  <1>4. redo' = [redo EXCEPT ![o] = Null] /\ table' = [table EXCEPT ![o] = Null]
    BY <1>1, <1>3 DEF TypeOK
  <1> QED BY <1>1, <1>2, <1>3, <1>4 DEF Taken

\* ddb_redirect adds a loose port at the end of a chain.
LEMMA LinkAdds ==
  ASSUME TypeOK, Ends, NEW i \in Input, NEW p \in Port, redi[i] # Null, i # p,
         outRedi[p] = Null, Link(i, p)
  PROVE  \E t \in Tuner : Added(t, i, p)
  <1> DEFINE t == redi[i]
  <1>1. t \in Tuner /\ redo[i] = Null /\ i \in Along(t)
    BY DEF Ends, EndsMarked
  <1>2. redo[p] = Null /\ redi[p] = Null
    BY DEF Ends, LooseClear
  <1> QED BY <1>1, <1>2 DEF Link, Added

\* The other chains stay as they are when a port is taken out.
LEMMA TakenChains ==
  ASSUME TypeOK, TypeOK', RedoHasBackLink, NEW t \in Tuner, NEW o \in Input, NEW p \in Port,
         Taken(t, o, p)
  PROVE  /\ Chain(t)' = Chain(t) \ {p} /\ o \in Along(t)'
         /\ \A u \in Tuner : u # t => Chain(u)' = Chain(u) /\ o \notin Along(u) /\ p \notin Along(u)
  <1>1. Chain(t)' = Chain(t) \ {p} /\ o \in Along(t) \ {p}
    BY ChainShrinks DEF Taken
  <1>2. ASSUME NEW u \in Tuner, u # t
        PROVE  o \notin Along(u) /\ p \notin Along(u)
    BY <1>1, <1>2, ChainsApart DEF Along, Taken
  <1>3. ASSUME NEW u \in Tuner, u # t PROVE Chain(u)' = Chain(u)
    <2>1. u \in Input /\ \A j \in Along(u) : j \in Input
      BY ChainOnward DEF Along, Input
    <2>2. \A j \in Along(u) : redo'[j] = redo[j]
      BY <1>2, <1>3, <2>1 DEF Taken, TypeOK
    <2> QED BY <2>1, <2>2, ChainStays
  <1> QED BY <1>1, <1>2, <1>3 DEF Along

\* And when one is added.
LEMMA AddedChains ==
  ASSUME TypeOK, TypeOK', RedoHasBackLink, NEW t \in Tuner, NEW i \in Input, NEW p \in Port,
         Added(t, i, p)
  PROVE  /\ Chain(t)' = Chain(t) \cup {p}
         /\ \A u \in Tuner : /\ p \notin Along(u)
                             /\ u # t => Chain(u)' = Chain(u) /\ i \notin Along(u)
  <1>1. Chain(t)' = Chain(t) \cup {p}
    BY ChainGrows DEF Added
  <1>2. ASSUME NEW u \in Tuner PROVE p \notin Along(u)
    <2>1. \A j \in Input : redo[j] # p
      BY RedirectAssumption DEF RedirectAssumption, Added, RedoHasBackLink, Input
    <2>2. u \in Input /\ Chain(u) \subseteq Input /\ u # p
      BY RedirectAssumption, ChainOnward DEF RedirectAssumption, Input
    <2> QED BY <2>1, <2>2, ChainBefore DEF Along
  <1>3. ASSUME NEW u \in Tuner, u # t PROVE i \notin Along(u)
    BY <1>3, ChainsApart DEF Added
  <1>4. ASSUME NEW u \in Tuner, u # t PROVE Chain(u)' = Chain(u)
    <2>1. u \in Input /\ \A j \in Along(u) : j \in Input
      BY ChainOnward DEF Along, Input
    <2>2. \A j \in Along(u) : redo'[j] = redo[j]
      BY <1>3, <1>4, <2>1 DEF Added, TypeOK
    <2> QED BY <2>1, <2>2, ChainStays
  <1> QED BY <1>1, <1>2, <1>3, <1>4


\* Both changes leave every chain with one end, which delivers.
LEMMA TakenEnds ==
  ASSUME TypeOK, TypeOK', RedoHasBackLink, Ends, Delivered,
         NEW t \in Tuner, NEW o \in Input, NEW p \in Port, Taken(t, o, p)
  PROVE  Ends' /\ Delivered'
  <1>1. p \in Input /\ t \in Input /\ t # Null /\ o # Null /\ p # t /\ p # Null
    BY RedirectAssumption DEF RedirectAssumption, Input
  <1>2. /\ redi'[o] = t /\ redi'[p] = Null /\ \A i \in Input \ {o, p} : redi'[i] = redi[i]
        /\ redo'[o] = Null /\ redo'[p] = Null /\ \A i \in Input \ {o, p} : redo'[i] = redo[i]
        /\ outRedi'[p] = Null /\ \A q \in Port \ {p} : outRedi'[q] = outRedi[q]
    BY <1>1 DEF Taken, TypeOK
  <1>3. /\ Chain(t)' = Chain(t) \ {p} /\ o \in Along(t)'
        /\ \A u \in Tuner : u # t => Chain(u)' = Chain(u) /\ o \notin Along(u) /\ p \notin Along(u)
    BY TakenChains
  <1>4. ASSUME NEW i \in Input
        PROVE  /\ redi'[i] \in Tuner \cup {Null}
               /\ \A u \in Tuner : redi'[i] = u => redo'[i] = Null /\ i \in Chain(u)' \cup {u}
    <2>1. \A u \in Tuner : u # Null
      BY RedirectAssumption DEF RedirectAssumption, Input
    <2> QED BY <1>1, <1>2, <1>3, <2>1 DEF Ends, EndsMarked, Along
  <1>5. LastMarked'
    BY <1>1, <1>2, RedirectAssumption DEF Ends, LastMarked, Input, RedirectAssumption
  <1>6. LooseClear'
    <2>1. \A q \in Port : outRedi'[q] = Null /\ q # p => q # o
      BY <1>1, <1>2 DEF Ends, LooseClear, Taken
    <2> QED BY <1>1, <1>2, <2>1 DEF Ends, LooseClear, Input
  <1>7. BackLinkUsed'
    <2>1. ASSUME NEW q \in Port, outRedi'[q] # Null PROVE redo'[outRedi'[q]] = q
      <3>1. q # p /\ outRedi'[q] = outRedi[q] /\ redo[outRedi[q]] = q /\ outRedi[q] \in Input
        BY <1>2, <2>1 DEF Ends, BackLinkUsed, TypeOK
      <3>2. outRedi[q] # o /\ outRedi[q] # p
        BY <3>1, <1>1, RedirectAssumption DEF Taken, RedirectAssumption, Input
      <3> QED BY <1>2, <3>1, <3>2
    <2> QED BY <2>1 DEF BackLinkUsed
  <1>8. Delivered'
    <2>1. ASSUME NEW u \in Tuner
          PROVE  \E i \in Chain(u)' \cup {u} : \A j \in Input : redi'[j] = u <=> j = i
      <3>1. PICK i \in Chain(u) \cup {u} : \A j \in Input : redi[j] = u <=> j = i
        BY DEF Delivered
      <3>2. CASE u = t
        <4>1. i = p
          BY <1>1, <3>1, <3>2 DEF Taken
        <4>2. \A j \in Input : redi'[j] = u <=> j = o
          BY <1>1, <1>2, <3>1, <3>2, <4>1
        <4> QED BY <1>3, <3>2, <4>2 DEF Along
      <3>3. CASE u # t
        <4>1. i \in Input /\ i # o /\ i # p /\ u # Null
          BY <1>3, <3>1, <3>3, ChainOnward, RedirectAssumption
             DEF Along, Input, RedirectAssumption
        <4>2. \A j \in Input : redi'[j] = u <=> j = i
          BY <1>1, <1>2, <3>1, <3>3, <4>1
        <4> QED BY <1>3, <3>1, <3>3, <4>2
      <3> QED BY <3>2, <3>3
    <2> QED BY <2>1 DEF Delivered
  <1>9. EndsMarked'
    BY <1>4 DEF EndsMarked, Along
  <1> QED BY <1>5, <1>6, <1>7, <1>8, <1>9 DEF Ends

LEMMA AddedEnds ==
  ASSUME TypeOK, TypeOK', RedoHasBackLink, Ends, Delivered,
         NEW t \in Tuner, NEW i \in Input, NEW p \in Port, Added(t, i, p)
  PROVE  Ends' /\ Delivered'
  <1>1. p \in Input /\ t \in Input /\ t # Null /\ i # Null /\ p # t /\ p # Null
    BY RedirectAssumption DEF RedirectAssumption, Input
  <1>2. /\ redi'[p] = t /\ redi'[i] = Null /\ \A j \in Input \ {i, p} : redi'[j] = redi[j]
        /\ redo'[i] = p /\ redo'[p] = Null /\ \A j \in Input \ {i, p} : redo'[j] = redo[j]
        /\ outRedi'[p] = i /\ \A q \in Port \ {p} : outRedi'[q] = outRedi[q]
    BY <1>1 DEF Added, TypeOK
  <1>3. /\ Chain(t)' = Chain(t) \cup {p}
        /\ \A u \in Tuner : /\ p \notin Along(u)
                            /\ u # t => Chain(u)' = Chain(u) /\ i \notin Along(u)
    BY AddedChains
  <1>4. ASSUME NEW j \in Input
        PROVE  /\ redi'[j] \in Tuner \cup {Null}
               /\ \A u \in Tuner : redi'[j] = u => redo'[j] = Null /\ j \in Chain(u)' \cup {u}
    BY <1>1, <1>2, <1>3 DEF Ends, EndsMarked, Along
  <1>5. LastMarked'
    BY <1>1, <1>2 DEF Ends, LastMarked, Input
  <1>6. LooseClear'
    <2>1. \A q \in Port : outRedi'[q] = Null => q # p /\ outRedi[q] = Null
      BY <1>1, <1>2
    <2>2. \A q \in Port : outRedi[q] = Null => q # i
      BY <1>1 DEF Ends, LooseClear, Added
    <2> QED BY <1>1, <1>2, <2>1, <2>2 DEF Ends, LooseClear, Input
  <1>7. BackLinkUsed'
    <2>1. ASSUME NEW q \in Port, outRedi'[q] # Null PROVE redo'[outRedi'[q]] = q
      <3>1. CASE q = p
        BY <1>2, <3>1
      <3>2. CASE q # p
        <4>1. outRedi'[q] = outRedi[q] /\ redo[outRedi[q]] = q /\ outRedi[q] \in Input
          BY <1>2, <2>1, <3>2 DEF Ends, BackLinkUsed, TypeOK
        <4>2. outRedi[q] # i /\ outRedi[q] # p
          BY <4>1, <1>1, RedirectAssumption DEF Added, RedirectAssumption, Input
        <4> QED BY <1>2, <4>1, <4>2
      <3> QED BY <3>1, <3>2
    <2> QED BY <2>1 DEF BackLinkUsed
  <1>8. Delivered'
    <2>1. ASSUME NEW u \in Tuner
          PROVE  \E j \in Chain(u)' \cup {u} : \A k \in Input : redi'[k] = u <=> k = j
      <3>1. PICK j \in Chain(u) \cup {u} : \A k \in Input : redi[k] = u <=> k = j
        BY DEF Delivered
      <3>2. CASE u = t
        <4>1. i = j
          BY <1>1, <3>1, <3>2 DEF Added
        <4>2. \A k \in Input : redi'[k] = u <=> k = p
          BY <1>1, <1>2, <3>1, <3>2, <4>1
        <4> QED BY <1>3, <3>2, <4>2
      <3>3. CASE u # t
        <4>1. j \in Input /\ j # i /\ j # p /\ u # Null
          BY <1>3, <3>1, <3>3, ChainOnward, RedirectAssumption
             DEF Along, Input, RedirectAssumption
        <4>2. \A k \in Input : redi'[k] = u <=> k = j
          BY <1>1, <1>2, <3>1, <3>3, <4>1
        <4> QED BY <1>3, <3>1, <3>3, <4>2
      <3> QED BY <3>2, <3>3
    <2> QED BY <2>1 DEF Delivered
  <1>9. EndsMarked'
    BY <1>4 DEF EndsMarked, Along
  <1> QED BY <1>5, <1>6, <1>7, <1>8, <1>9 DEF Ends


(* A chain runs while its tuner input has feeds, and only then.             *)
ChainsRun ==
  \A t \in Tuner : users[t] > 0 => Chain(t) \subseteq outRun /\ Along(t) \subseteq inRun

OnlyChainsRun ==
  /\ \A p \in outRun : \E t \in Tuner : users[t] > 0 /\ p \in Chain(t)
  /\ \A i \in inRun : \E t \in Tuner : users[t] > 0 /\ i \in Along(t)

Runs == ChainsRun /\ OnlyChainsRun

\* A step that changes neither the chains with feeds nor what runs.
LEMMA RunsStay ==
  ASSUME Runs, UNCHANGED <<runVars, users>>,
         \A t \in Tuner : users[t] > 0 => Chain(t)' = Chain(t)
  PROVE  Runs'
  BY DEF Runs, ChainsRun, OnlyChainsRun, Along, runVars

\* A chain with feeds is not the one that a port is taken out of or added to.
LEMMA TakenRuns ==
  ASSUME TypeOK, TypeOK', RedoHasBackLink, Runs, UNCHANGED <<runVars, users>>,
         NEW t \in Tuner, NEW o \in Input, NEW p \in Port, Taken(t, o, p), p \notin outRun
  PROVE  Runs' /\ ChainKept
  <1>1. ~(users[t] > 0)
    BY DEF Runs, ChainsRun, Taken
  <1>2. \A u \in Tuner : u # t => Chain(u)' = Chain(u) /\ o \notin Along(u) /\ p \notin Along(u)
    BY TakenChains
  <1>3. Runs'
    BY <1>1, <1>2, RunsStay
  <1>4. ASSUME NEW u \in Tuner, users[u] > 0, NEW i \in Along(u)
        PROVE  redi'[i] = redi[i] /\ table'[i] = table[i]
    <2>1. i \in Input /\ i # o /\ i # p
      BY <1>1, <1>2, <1>4, ChainOnward DEF Along, Input
    <2> QED BY <2>1 DEF Taken, TypeOK
  <1> QED BY <1>1, <1>2, <1>3, <1>4 DEF ChainKept, Runs, ChainsRun, Along, runVars

LEMMA AddedRuns ==
  ASSUME TypeOK, TypeOK', RedoHasBackLink, Runs, UNCHANGED <<runVars, users>>,
         NEW t \in Tuner, NEW i \in Input, NEW p \in Port, Added(t, i, p), i \notin inRun
  PROVE  Runs' /\ ChainKept
  <1>1. ~(users[t] > 0)
    BY DEF Runs, ChainsRun, Added
  <1>2. \A u \in Tuner : u # t => Chain(u)' = Chain(u) /\ i \notin Along(u) /\ p \notin Along(u)
    BY AddedChains
  <1>3. Runs'
    BY <1>1, <1>2, RunsStay
  <1>4. ASSUME NEW u \in Tuner, users[u] > 0, NEW j \in Along(u)
        PROVE  redi'[j] = redi[j] /\ table'[j] = table[j]
    <2>1. j \in Input /\ j # i /\ j # p
      BY <1>1, <1>2, <1>4, ChainOnward DEF Along, Input
    <2> QED BY <2>1 DEF Added, TypeOK
  <1> QED BY <1>1, <1>2, <1>3, <1>4 DEF ChainKept, Runs, ChainsRun, Along, runVars

\* Chains depend on the links only.
LEMMA ChainByLinks ==
  ASSUME UNCHANGED linkVars
  PROVE  \A i \in Input : Chain(i)' = Chain(i) /\ Along(i)' = Along(i)
  BY DEF Chain, Onward, Along, linkVars

\* The first feed starts a whole chain, the last one stops it and no other.
LEMMA FeedRuns ==
  ASSUME TypeOK, TypeOK', RedoHasBackLink, Runs, NEW t \in Tuner, StartFeed(t) \/ StopFeed(t)
  PROVE  Runs' /\ ChainKept
  <1>1. \A u \in Tuner : u \in Input /\ users[u] \in Nat /\ Chain(u) \subseteq Port
    BY RedirectAssumption, ChainOnward DEF RedirectAssumption, TypeOK, Input
  <1>2. UNCHANGED linkVars /\ \A u \in Tuner : Chain(u)' = Chain(u)
    BY <1>1, ChainByLinks DEF StartFeed, StopFeed
  <1>3. \A u \in Tuner : u # t => users'[u] = users[u] /\ Along(t) \cap Along(u) = {}
    BY ChainsApart DEF StartFeed, StopFeed, TypeOK
  <1>4. CASE users'[t] > 0 /\ users[t] > 0
    <2>1. UNCHANGED runVars
      BY <1>1, <1>4 DEF StartFeed, StopFeed, TypeOK
    <2>2. \A u \in Tuner : users'[u] > 0 <=> users[u] > 0
      BY <1>3, <1>4
    <2>3. Runs'
      BY <1>2, <2>1, <2>2 DEF Runs, ChainsRun, OnlyChainsRun, Along, runVars
    <2> QED BY <1>2, <2>1, <2>3 DEF ChainKept, Runs, ChainsRun, Along, linkVars, runVars
  <1>5. CASE users'[t] > 0 /\ ~(users[t] > 0)
    <2>1. /\ outRun' = outRun \cup Chain(t) /\ inRun' = inRun \cup Along(t)
          /\ \A u \in Tuner : users'[u] > 0 <=> users[u] > 0 \/ u = t
      BY <1>1, <1>3, <1>5 DEF StartFeed, StopFeed, TypeOK, Along
    <2>2. Runs'
      BY <1>2, <2>1 DEF Runs, ChainsRun, OnlyChainsRun, Along
    <2>3. ChainKept
      BY <1>2, <2>1 DEF ChainKept, Runs, ChainsRun, Along, linkVars
    <2> QED BY <2>2, <2>3
  <1>6. CASE ~(users'[t] > 0)
    <2>1. /\ outRun' = outRun \ Chain(t) /\ inRun' = inRun \ Along(t)
          /\ \A u \in Tuner : users'[u] > 0 <=> users[u] > 0 /\ u # t
      BY <1>1, <1>3, <1>6 DEF StartFeed, StopFeed, TypeOK, Along
    <2>2. ChainsRun'
      BY <1>2, <1>3, <2>1 DEF Runs, ChainsRun, Along
    <2>3. OnlyChainsRun'
      BY <1>2, <1>3, <2>1 DEF Runs, OnlyChainsRun, Along
    <2>4. ChainKept
      BY <1>2, <1>3, <2>1 DEF ChainKept, Runs, ChainsRun, Along, linkVars
    <2> QED BY <2>2, <2>3, <2>4 DEF Runs
  <1> QED BY <1>4, <1>5, <1>6


LEMMA EndsStay ==
  ASSUME Ends, Delivered, UNCHANGED linkVars
  PROVE  Ends' /\ Delivered'
  <1>1. \A t \in Tuner : Chain(t)' = Chain(t) /\ Along(t)' = Along(t)
    BY ChainByLinks DEF Input
  <1>2. Ends'
    BY <1>1 DEF Ends, EndsMarked, LastMarked, LooseClear, BackLinkUsed, linkVars
  <1>3. Delivered'
    BY <1>1 DEF Delivered, linkVars
  <1> QED BY <1>2, <1>3

(* What holds as long as the ports are used as described.                   *)
AsUsed == Ends /\ Delivered /\ RequestAtEnd /\ Runs

\* The first half of ddb_redirect.
LEMMA UsedUnlink ==
  ASSUME LinkInv, TypeOK', AsUsed, NEW w \in Writer, NEW i \in Input \cup {Null}, NEW p \in Port,
         AsDescribed(i, p), StoreUnlink(w, i, p)
  PROVE  AsUsed' /\ ChainKept
  <1>0. /\ TypeOK /\ RedoHasBackLink /\ Ends /\ Delivered /\ Runs /\ Null \notin Input
        /\ UNCHANGED <<runVars, users>> /\ p \notin outRun /\ redo[p] = Null
    BY RedirectAssumption
       DEF RedirectAssumption, LinkInv, AsUsed, StoreUnlink, AsDescribed, userVars
  <1>1. CASE UNCHANGED linkVars
    <2>1. Ends' /\ Delivered'
      BY <1>0, <1>1, EndsStay
    <2>2. \A t \in Tuner : Chain(t)' = Chain(t)
      BY <1>1, ChainByLinks DEF Input
    <2>3. Runs'
      BY <1>0, <2>2, RunsStay
    <2>4. ChainKept
      BY <1>0, <1>1, <2>2, <2>3
         DEF ChainKept, Runs, ChainsRun, Along, linkVars, runVars
    <2>5. RequestAtEnd'
      BY <1>1 DEF AsUsed, RequestAtEnd, LinkInv, TypeOK, StoreUnlink, AsDescribed, linkVars, Idle
    <2> QED BY <2>1, <2>3, <2>4, <2>5 DEF AsUsed
  <1>2. CASE ~UNCHANGED linkVars
    <2>1. PICK t \in Tuner, o \in Input : Taken(t, o, p)
      BY <1>0, <1>2, UnlinkTakes DEF StoreUnlink, Unlink
    <2>2. Ends' /\ Delivered' /\ Runs' /\ ChainKept
      BY <1>0, <2>1, TakenEnds, TakenRuns
    <2>3. \A v \in Writer : request[v] = Idle
      BY DEF LinkInv, OneWriter, StoreUnlink
    <2>4. i # Null => i \in Input /\ i # p /\ redi'[i] # Null
      <3>1. t # Null /\ \A j \in Input : j # p /\ redi[j] # Null => redi'[j] # Null
        BY <1>0, <2>1 DEF Taken, TypeOK, Input
      <3> QED BY <3>1 DEF AsDescribed
    <2>5. RequestAtEnd'
      <3>1. ASSUME NEW v \in Writer, request'[v] # Idle
            PROVE  i # Null /\ request'[v].input = i /\ request'[v].port = p
        BY <1>0, <2>3, <3>1 DEF StoreUnlink, TypeOK
      <3> QED BY <2>4, <3>1 DEF RequestAtEnd
    <2> QED BY <2>2, <2>5 DEF AsUsed
  <1> QED BY <1>1, <1>2

\* The second half.
LEMMA UsedLink ==
  ASSUME LinkInv, TypeOK', AsUsed, NEW w \in Writer, StoreLink(w)
  PROVE  AsUsed' /\ ChainKept
  <1> DEFINE i == request[w].input
             p == request[w].port
  <1>0. /\ TypeOK /\ RedoHasBackLink /\ Ends /\ Delivered /\ Runs
        /\ UNCHANGED <<runVars, users>>
    BY DEF LinkInv, AsUsed, StoreLink, userVars
  <1>1. \A v \in Writer : request'[v] = Idle
    BY DEF LinkInv, OneWriter, TypeOK, StoreLink
  <1>2. RequestAtEnd'
    BY <1>1 DEF RequestAtEnd
  <1>3. CASE UNCHANGED linkVars
    <2>1. Ends' /\ Delivered'
      BY <1>0, <1>3, EndsStay
    <2>2. \A t \in Tuner : Chain(t)' = Chain(t)
      BY <1>3, ChainByLinks DEF Input
    <2>3. Runs'
      BY <1>0, <2>2, RunsStay
    <2>4. ChainKept
      BY <1>0, <1>3, <2>2, <2>3
         DEF ChainKept, Runs, ChainsRun, Along, linkVars, runVars
    <2> QED BY <1>2, <2>1, <2>3, <2>4 DEF AsUsed
  <1>4. CASE i \notin inRun /\ Link(i, p)
    <2>1. i \in Input /\ p \in Port
      BY <1>0, RequestParts DEF StoreLink
    <2>2. redi[i] # Null /\ i # p /\ outRedi[p] = Null
      BY DEF LinkInv, PortFree, AsUsed, RequestAtEnd, StoreLink
    <2>3. PICK t \in Tuner : Added(t, i, p)
      BY <1>0, <1>4, <2>1, <2>2, LinkAdds
    <2>4. PICK j \in Input, q \in Port : j = i /\ q = p
      BY <2>1
    <2>5. Ends' /\ Delivered' /\ Runs' /\ ChainKept
      BY <1>0, <1>4, <2>3, <2>4, AddedEnds, AddedRuns
    <2> QED BY <1>2, <2>5 DEF AsUsed
  <1> QED BY <1>3, <1>4 DEF StoreLink

LEMMA UsedStep ==
  ASSUME LinkInv, TypeOK', AsUsed, SetupNext
  PROVE  AsUsed' /\ ChainKept
  <1>1. ASSUME NEW t \in Tuner, StartFeed(t) \/ StopFeed(t) PROVE AsUsed' /\ ChainKept
    <2>1. Runs' /\ ChainKept
      BY <1>1, FeedRuns DEF LinkInv, AsUsed
    <2>2. UNCHANGED <<linkVars, request>>
      BY <1>1 DEF StartFeed, StopFeed
    <2>3. Ends' /\ Delivered'
      BY <2>2, EndsStay DEF AsUsed
    <2>4. RequestAtEnd'
      BY <2>2 DEF AsUsed, RequestAtEnd, linkVars
    <2> QED BY <2>1, <2>3, <2>4 DEF AsUsed
  <1> QED BY <1>1, UsedUnlink, UsedLink DEF SetupNext

LEMMA UsedInit == Init => AsUsed
  <1> SUFFICES ASSUME Init PROVE AsUsed
    OBVIOUS
  <1>1. /\ \A i \in Input : redo[i] = Null /\ redi[i] = IF i \in Tuner THEN i ELSE Null
        /\ \A p \in Port : outRedi[p] = Null
    BY DEF Init
  <1>2. \A t \in Tuner : t \in Input /\ t # Null /\ ~(users[t] > 0)
    <2>1. users = [t \in Tuner |-> 0]
      BY DEF Init
    <2>2. \A t \in Tuner : users[t] = 0
      BY <2>1
    <2>3. \A t \in Tuner : t \in Input /\ t # Null
      BY RedirectAssumption DEF RedirectAssumption, Input
    <2>4. ~(0 > 0)
      OBVIOUS
    <2> QED BY <2>2, <2>3, <2>4
  <1>3. \A p \in Port : p \in Input /\ p \notin Tuner
    BY RedirectAssumption DEF RedirectAssumption, Input
  <1>4. Ends
    <2>1. EndsMarked
      BY <1>1, <1>2 DEF EndsMarked, Along
    <2>2. LastMarked /\ LooseClear /\ BackLinkUsed
      BY <1>1, <1>2, <1>3 DEF LastMarked, LooseClear, BackLinkUsed, Input
    <2> QED BY <2>1, <2>2 DEF Ends
  <1>5. Delivered
    <2>1. ASSUME NEW t \in Tuner PROVE \A j \in Input : redi[j] = t <=> j = t
      BY <1>1, <1>2
    <2> QED BY <2>1 DEF Delivered
  <1>6. RequestAtEnd /\ Runs
    BY <1>2 DEF Init, RequestAtEnd, Runs, ChainsRun, OnlyChainsRun
  <1> QED BY <1>4, <1>5, <1>6 DEF AsUsed

UseInv == LinkInv /\ (described => AsUsed)

LEMMA UseInvHolds == OneWriter /\ Spec => []UseInv
  <1>1. OneWriter /\ Init => UseInv
    BY TypeInit, UsedInit DEF Init, UseInv, LinkInv, RedoHasBackLink, PortFree
  <1>2. UseInv /\ [Next]_vars => UseInv'
    <2> SUFFICES ASSUME UseInv, [Next]_vars PROVE UseInv'
      OBVIOUS
    <2>1. LinkInv /\ LinkInv' /\ TypeOK'
      BY LinkInvStep DEF UseInv, LinkInv
    <2>2. CASE Next
      <3>1. described' => described /\ SetupNext
        BY <2>2 DEF Next
      <3> QED BY <2>1, <3>1, UsedStep DEF UseInv
    <2>3. CASE UNCHANGED vars
      <3>1. AsUsed => Ends' /\ Delivered'
        BY <2>3, EndsStay DEF AsUsed, vars
      <3>2. \A t \in Tuner : Chain(t)' = Chain(t)
        BY <2>3, ChainByLinks DEF Input, vars
      <3>3. AsUsed => RequestAtEnd' /\ Runs'
        BY <2>3, <3>2, RunsStay DEF AsUsed, RequestAtEnd, vars, linkVars, userVars
      <3> QED BY <2>1, <2>3, <3>1, <3>3 DEF UseInv, AsUsed, vars
    <2> QED BY <2>2, <2>3
  <1> QED BY <1>1, <1>2, PTL DEF Spec

\* Used as docs/redirect describes and with one writer of the attribute at a
\* time, every stream shows up once in the demux of its tuner, behind all the
\* ports it is led through, however many, and when the last feed is gone
\* ddb_input_stop_all has stopped every channel that ddb_input_start_all has
\* started.
THEOREM DescribedUseWorks == OneWriter /\ Spec => []DescribedComplete
  <1>1. UseInv => DescribedComplete
    <2> SUFFICES ASSUME UseInv, described PROVE Delivered /\ EndsAtDemux /\ AllStopped
      BY DEF DescribedComplete
    <2>1. Delivered /\ EndsAtDemux /\ Runs
      BY DEF UseInv, AsUsed, Ends, EndsMarked, EndsAtDemux
    <2>2. AllStopped
      BY <2>1 DEF AllStopped, Runs, OnlyChainsRun
    <2> QED BY <2>1, <2>2
  <1> QED BY <1>1, UseInvHolds, PTL

\* Nor does the attribute rewire a chain that runs: the tests of dma->running
\* before the two halves of ddb_redirect are enough, although a first feed may
\* come between them.
THEOREM DescribedUseKeepsChains == OneWriter /\ Spec => DescribedChainKept
  <1>1. UseInv /\ UseInv' /\ [Next]_vars => [described' => ChainKept]_vars
    <2> SUFFICES ASSUME LinkInv, TypeOK', described => AsUsed, Next, described'
                 PROVE  ChainKept
      BY DEF UseInv, LinkInv
    <2>1. described /\ SetupNext
      BY DEF Next
    <2> QED BY <2>1, UsedStep
  <1> QED BY <1>1, UseInvHolds, PTL DEF Spec, DescribedChainKept

-----------------------------------------------------------------------------
(* Captured data.  The ring of an input has Num buffers of Size cells.      *)
CONSTANTS Num, Size, MaxCell, MaxFeeds, Width, MaxCount
VARIABLES gap, hwRun, pos, ack, ovf, irq, mem, arrived, dropped,
          stat, running, pc, base, last,
          oRun, oPos, oAck, oIrq, oCbuf, oCoff, oStat, oRunning, sent,
          cbuf, ctrl, packetLoss, feeds, work, taken, lost,
          coff, left, snap, nonblock, woken, ppc, psnap, resync

Pipe == INSTANCE RedirectPipe
Work == INSTANCE InputWork WITH users <- feeds
Read == INSTANCE TsRead

Sizes == Num \in Nat \ {0, 1} /\ Size \in Nat \ {0} /\ MaxCell \in Nat

Cells    == Num * Size
Position == [idx : 0 .. Num - 1, off : 0 .. Size - 1]
Place(p) == p.idx * Size + p.off
After(p) == IF p.off + 1 = Size THEN [idx |-> (p.idx + 1) % Num, off |-> 0]
                                ELSE [idx |-> p.idx, off |-> p.off + 1]

\* The number of cells from a to b going round the ring.
Ahead(a, b) == IF Place(b) >= Place(a) THEN Place(b) - Place(a)
                                       ELSE Place(b) - Place(a) + Cells

\* A buffer that lies before another one ends before the other one begins.
LEMMA Apart ==
  ASSUME NEW s \in Nat, NEW i \in Nat, NEW j \in Nat, i < j
  PROVE  i * s + s <= j * s
  OBVIOUS

LEMMA OneMore ==
  ASSUME NEW s \in Nat, NEW i \in Nat
  PROVE  (i + 1) * s = i * s + s /\ i * s \in Nat
  OBVIOUS

LEMMA Wrap ==
  ASSUME NEW n \in Nat \ {0}, NEW x \in 0 .. n
  PROVE  x % n = IF x = n THEN 0 ELSE x
  OBVIOUS

LEMMA DivMod ==
  ASSUME NEW g \in Nat, g > 0, NEW x \in Nat, NEW q \in Int, q = x \div g,
         NEW r \in Int, r = x % g
  PROVE  x = q * g + r
  OBVIOUS

LEMMA CellCount ==
  ASSUME Sizes
  PROVE  Cells \in Nat /\ Cells >= 2 * Size
<1>1. 1 * Size + Size <= Num * Size /\ 1 * Size = Size /\ Num * Size \in Nat
  BY Apart, OneMore DEF Sizes
<1> QED
  BY <1>1 DEF Sizes, Cells

LEMMA PlaceFits ==
  ASSUME Sizes, NEW p \in Position
  PROVE  /\ p.idx * Size \in Nat /\ p.idx * Size + Size <= Cells
         /\ Place(p) \in 0 .. Cells - 1
<1>1. /\ p.idx \in Nat /\ p.idx < Num /\ p.off \in Nat /\ p.off < Size
      /\ Size \in Nat /\ Num \in Nat
  BY DEF Sizes, Position
<1>2. p.idx * Size \in Nat /\ p.idx * Size + Size <= Cells
  BY <1>1, Apart, OneMore DEF Cells
<1> DEFINE m == p.idx * Size
<1>3. m \in Nat /\ m + Size <= Cells /\ Place(p) = m + p.off
  BY <1>2 DEF Place
<1> HIDE DEF m
<1>4. Place(p) \in 0 .. Cells - 1
  BY <1>1, <1>3, CellCount
<1> QED
  BY <1>2, <1>4

LEMMA PlaceUnique ==
  ASSUME Sizes, NEW p \in Position, NEW q \in Position, Place(p) = Place(q)
  PROVE  p = q
<1>1. /\ p.idx \in Nat /\ q.idx \in Nat /\ p.off \in Nat /\ q.off \in Nat
      /\ p.off < Size /\ q.off < Size /\ Size \in Nat
  BY DEF Sizes, Position
<1> DEFINE m == p.idx * Size
           n == q.idx * Size
<1>2. m \in Nat /\ n \in Nat /\ m + p.off = n + q.off
  BY <1>1, OneMore DEF Place
<1>3. /\ p.idx < q.idx => m + Size <= n
      /\ q.idx < p.idx => n + Size <= m
      /\ p.idx = q.idx => m = n
  BY <1>1, Apart
<1> HIDE DEF m, n
<1>4. p.idx = q.idx /\ p.off = q.off
  BY <1>1, <1>2, <1>3
<1> QED
  BY <1>4 DEF Position

LEMMA PlaceAfter ==
  ASSUME Sizes, NEW p \in Position
  PROVE  /\ After(p) \in Position
         /\ Place(After(p)) = IF Place(p) + 1 = Cells THEN 0 ELSE Place(p) + 1
<1>1. /\ p.idx \in Nat /\ p.idx < Num /\ p.off \in Nat /\ p.off < Size
      /\ Size \in Nat \ {0} /\ Num \in Nat \ {0}
  BY DEF Sizes, Position
<1> DEFINE m == p.idx * Size
           j == p.idx + 1
<1>2. m \in Nat /\ m + Size <= Cells /\ Place(p) = m + p.off /\ Cells \in Nat
  BY PlaceFits, CellCount DEF Place
<1>3. j * Size = m + Size
  BY <1>1, OneMore
<1>4. j \in 0 .. Num
  BY <1>1
<1>5. j < Num => m + Size + Size <= Cells
  <2>1. j < Num => j * Size + Size <= Num * Size
    BY <1>1, <1>4, Apart
  <2> QED
    BY <2>1, <1>3 DEF Cells
<1>6. j = Num => m + Size = Cells
  BY <1>3 DEF Cells
<1>j. p.idx + 1 = j
  OBVIOUS
<1> HIDE DEF m, j
<1>7. j % Num = IF j = Num THEN 0 ELSE j
  BY <1>1, <1>4, Wrap
<1>8. CASE p.off + 1 # Size
  <2>1. After(p) = [idx |-> p.idx, off |-> p.off + 1]
    BY <1>8 DEF After
  <2>2. After(p) \in Position /\ After(p).idx = p.idx /\ After(p).off = p.off + 1
    BY <1>1, <1>8, <2>1 DEF Position
  <2>3. Place(After(p)) = m + p.off + 1
    BY <1>1, <1>2, <2>2 DEF Place, m
  <2> QED
    BY <1>1, <1>2, <1>8, <2>2, <2>3
<1>9. CASE p.off + 1 = Size /\ j = Num
  <2>1. After(p) = [idx |-> 0, off |-> 0]
    BY <1>7, <1>9, <1>j DEF After
  <2>2. After(p) \in Position /\ Place(After(p)) = 0
    BY <1>1, <2>1 DEF Position, Place
  <2> QED
    BY <1>1, <1>2, <1>6, <1>9, <2>2
<1>10. CASE p.off + 1 = Size /\ j # Num
  <2>1. After(p) = [idx |-> j, off |-> 0]
    BY <1>7, <1>10, <1>j DEF After
  <2>2. After(p) \in Position /\ Place(After(p)) = j * Size + 0
    BY <1>1, <1>4, <1>10, <2>1 DEF Position, Place
  <2>3. Place(After(p)) = m + Size
    BY <1>1, <1>2, <1>3, <2>2
  <2> QED
    BY <1>1, <1>2, <1>4, <1>5, <1>10, <2>2, <2>3
<1> QED
  BY <1>8, <1>9, <1>10

(* Distances round the ring.                                                *)
LEMMA AheadRange ==
  ASSUME Sizes, NEW a \in Position, NEW b \in Position
  PROVE  Ahead(a, b) \in 0 .. Cells - 1 /\ (Ahead(a, b) = 0 <=> a = b)
<1>1. /\ Place(a) \in 0 .. Cells - 1 /\ Place(b) \in 0 .. Cells - 1 /\ Cells \in Nat
      /\ Place(a) = Place(b) <=> a = b
  BY PlaceFits, PlaceUnique, CellCount
<1> QED
  BY <1>1 DEF Ahead

LEMMA AheadUnique ==
  ASSUME Sizes, NEW a \in Position, NEW b \in Position, NEW c \in Position,
         Ahead(a, b) = Ahead(a, c)
  PROVE  b = c
<1>1. /\ Place(a) \in 0 .. Cells - 1 /\ Place(b) \in 0 .. Cells - 1
      /\ Place(c) \in 0 .. Cells - 1 /\ Cells \in Nat
      /\ Place(b) = Place(c) => b = c
  BY PlaceFits, PlaceUnique, CellCount
<1> QED
  BY <1>1 DEF Ahead

\* The head goes on.
LEMMA HeadOn ==
  ASSUME Sizes, NEW a \in Position, NEW b \in Position
  PROVE  /\ After(b) \in Position
         /\ After(b) # a => Ahead(a, After(b)) = Ahead(a, b) + 1
         /\ After(b) = a => Ahead(a, b) = Cells - 1
<1>1. /\ Place(a) \in 0 .. Cells - 1 /\ Place(b) \in 0 .. Cells - 1 /\ Cells \in Nat
      /\ Cells >= 2 /\ After(b) \in Position
      /\ Place(After(b)) = IF Place(b) + 1 = Cells THEN 0 ELSE Place(b) + 1
      /\ Place(After(b)) = Place(a) <=> After(b) = a
  BY PlaceFits, PlaceUnique, PlaceAfter, CellCount DEF Sizes
<1> QED
  BY <1>1 DEF Ahead

\* The tail goes on.
LEMMA TailOn ==
  ASSUME Sizes, NEW a \in Position, NEW b \in Position, a # b
  PROVE  After(a) \in Position /\ Ahead(After(a), b) = Ahead(a, b) - 1
<1>1. /\ Place(a) \in 0 .. Cells - 1 /\ Place(b) \in 0 .. Cells - 1 /\ Cells \in Nat
      /\ Cells >= 2 /\ After(a) \in Position
      /\ Place(After(a)) = IF Place(a) + 1 = Cells THEN 0 ELSE Place(a) + 1
      /\ Place(a) # Place(b)
  BY PlaceFits, PlaceUnique, PlaceAfter, CellCount DEF Sizes
<1> QED
  BY <1>1 DEF Ahead

\* A way in two parts.
LEMMA AheadSum ==
  ASSUME Sizes, NEW a \in Position, NEW b \in Position, NEW c \in Position
  PROVE  Ahead(a, b) + Ahead(b, c) = IF Ahead(a, b) <= Ahead(a, c) THEN Ahead(a, c)
                                     ELSE Ahead(a, c) + Cells
<1>1. /\ Place(a) \in 0 .. Cells - 1 /\ Place(b) \in 0 .. Cells - 1
      /\ Place(c) \in 0 .. Cells - 1 /\ Cells \in Nat
  BY PlaceFits, CellCount
<1> QED
  BY <1>1 DEF Ahead

\* From a cell of a buffer the rest of it lies less than its length ahead.
LEMMA BufferCells ==
  ASSUME Sizes, NEW c \in 0 .. Num - 1, NEW o \in 0 .. Size - 1, NEW p \in Position,
         NEW a, a = [idx |-> c, off |-> o]
  PROVE  /\ a \in Position
         /\ p.idx = c /\ p.off >= o => Ahead(a, p) = p.off - o
         /\ p.idx # c => Ahead(a, p) >= Size - o
<1>1. /\ p.idx \in Nat /\ p.off \in Nat /\ p.off < Size /\ Size \in Nat \ {0} /\ c \in Nat
      /\ a \in Position /\ a.idx = c /\ a.off = o /\ o \in Nat /\ o < Size
  BY DEF Sizes, Position
<1> DEFINE m == p.idx * Size
           k == c * Size
<1>2. /\ m \in Nat /\ k \in Nat /\ m + Size <= Cells /\ k + Size <= Cells /\ Cells \in Nat
  BY <1>1, PlaceFits, CellCount
<1>3. Place(p) = m + p.off /\ Place(a) = k + o
  BY <1>1 DEF Place
<1>4. /\ p.idx < c => m + Size <= k
      /\ c < p.idx => k + Size <= m
      /\ p.idx = c => m = k
  BY <1>1, Apart
<1> HIDE DEF m, k
<1> QED
  BY <1>1, <1>2, <1>3, <1>4 DEF Ahead

\* n cells further on, in the buffer or at the start of the next one.
LEMMA ChunkEnd ==
  ASSUME Sizes, NEW c \in 0 .. Num - 1, NEW o \in 0 .. Size - 1,
         NEW n \in Nat \ {0}, o + n <= Size,
         NEW a, a = [idx |-> c, off |-> o], NEW l, l = [idx |-> c, off |-> o + n - 1],
         NEW b, b = IF o + n = Size THEN [idx |-> (c + 1) % Num, off |-> 0]
                                    ELSE [idx |-> c, off |-> o + n]
  PROVE  /\ a \in Position /\ l \in Position /\ b \in Position
         /\ Ahead(a, l) = n - 1 /\ Ahead(a, b) = n
<1>1. /\ Size \in Nat \ {0} /\ c \in Nat /\ o \in Nat /\ o + n - 1 \in 0 .. Size - 1
      /\ o + n - 1 >= o /\ (o + n - 1) + 1 = o + n /\ (o + n - 1) - o = n - 1
  BY DEF Sizes
<1>2. l \in Position /\ l.idx = c /\ l.off = o + n - 1
  BY <1>1 DEF Position
<1>3. After(l) = b
  BY <1>1 DEF After
<1>4. a \in Position /\ Ahead(a, l) = n - 1
  BY <1>1, <1>2, BufferCells
<1>5. b \in Position /\ (After(l) # a => Ahead(a, b) = Ahead(a, l) + 1)
      /\ (After(l) = a => Ahead(a, l) = Cells - 1)
  BY <1>2, <1>3, <1>4, HeadOn
<1>6. n - 1 < Cells - 1
  BY <1>1, CellCount
<1> QED
  BY <1>1, <1>2, <1>3, <1>4, <1>5, <1>6

\* The number of the next buffer is one.
LEMMA NextBuffer ==
  ASSUME Sizes, NEW c \in 0 .. Num - 1
  PROVE  (c + 1) % Num \in 0 .. Num - 1 /\ (c + 1 < Num => (c + 1) % Num = c + 1)
<1>1. Num \in Nat \ {0}
  BY DEF Sizes
<1> DEFINE x == c + 1
<1>2. x \in 0 .. Num
  BY <1>1
<1> HIDE DEF x
<1>3. x % Num = IF x = Num THEN 0 ELSE x
  BY <1>1, <1>2, Wrap
<1> QED
  BY <1>1, <1>2, <1>3 DEF x

\* Before the head there is a cell, unless the head is at a.
LEMMA LastBefore ==
  ASSUME Sizes, NEW a \in Position, NEW b \in Position, a # b
  PROVE  \E z \in Position : Ahead(a, z) = Ahead(a, b) - 1
<1>1. PICK z \in Position : After(z) = b
  <2>1. /\ b.idx \in 0 .. Num - 1 /\ b.off \in 0 .. Size - 1
        /\ Size \in Nat \ {0} /\ Num \in Nat \ {0, 1} /\ b = [idx |-> b.idx, off |-> b.off]
    BY DEF Sizes, Position
  <2>2. CASE b.off # 0
    <3> DEFINE z == [idx |-> b.idx, off |-> b.off - 1]
    <3>1. z \in Position /\ After(z) = b
      BY <2>1, <2>2 DEF Position, After
    <3> QED
      BY <3>1
  <2>3. CASE b.off = 0
    <3> DEFINE j == IF b.idx = 0 THEN Num - 1 ELSE b.idx - 1
               x == j + 1
    <3>1. j \in 0 .. Num - 1 /\ x \in 0 .. Num /\ b.idx = IF x = Num THEN 0 ELSE x
      BY <2>1
    <3> HIDE DEF x
    <3>2. x % Num = b.idx
      BY <2>1, <3>1, Wrap
    <3>3. (j + 1) % Num = b.idx
      BY <3>2 DEF x
    <3> HIDE DEF j
    <3> DEFINE z == [idx |-> j, off |-> Size - 1]
    <3>4. z \in Position /\ After(z) = b
      BY <2>1, <2>3, <3>1, <3>3 DEF Position, After
    <3> QED
      BY <3>4
  <2> QED
    BY <2>2, <2>3
<1>2. Ahead(a, b) = Ahead(a, z) + 1 /\ Ahead(a, z) \in 0 .. Cells - 1 /\ Cells \in Nat
  BY <1>1, HeadOn, AheadRange, CellCount
<1> QED
  BY <1>2

-----------------------------------------------------------------------------
(* What an engine has stored and the driver has not released, for an input  *)
(* that one process empties.                                                *)

RingTyped ==
  /\ Sizes /\ gap \in BOOLEAN /\ ovf \in BOOLEAN
  /\ pos \in Position /\ ack \in Position
  /\ mem \in [Position -> 0 .. MaxCell] /\ arrived \in 0 .. MaxCell
  /\ base \in 0 .. MaxCell /\ taken \in Nat /\ last \in 0 .. MaxCell

\* A full ring of an engine that keeps no cell free looks empty.
Stock == IF ovf /\ ~gap THEN Cells ELSE Ahead(ack, pos)

InStock(p) == Ahead(ack, p) < Stock

\* What is stored is newer than what was taken, and in order ...
StockNewer ==
  /\ last <= arrived
  /\ \A p \in Position : InStock(p) => last < mem[p] /\ mem[p] <= arrived
  /\ \A p, q \in Position : InStock(q) /\ Ahead(ack, p) <= Ahead(ack, q)
       => mem[q] - mem[p] >= Ahead(ack, q) - Ahead(ack, p)

\* ... and while nothing was dropped it lacks no cell.
StockComplete ==
  ~dropped =>
    /\ last = base + taken /\ arrived = last + Stock
    /\ \A p \in Position : InStock(p) => mem[p] = last + 1 + Ahead(ack, p)

StockRight == StockNewer /\ StockComplete

LEMMA StockRange ==
  ASSUME RingTyped
  PROVE  Stock \in 0 .. Cells /\ Ahead(ack, pos) \in 0 .. Cells - 1 /\ Ahead(ack, pos) <= Stock
         /\ Cells \in Nat
<1>1. Sizes /\ ack \in Position /\ pos \in Position /\ Cells \in Nat
  BY CellCount DEF RingTyped
<1> QED
  BY <1>1, AheadRange DEF Stock

\* Whatever leaves the engine and the data alone.
LEMMA StockStays ==
  ASSUME UNCHANGED <<gap, pos, ack, ovf, mem, arrived, dropped, base, taken, last>>
  PROVE  /\ Stock' = Stock /\ \A p : Ahead(ack, p)' = Ahead(ack, p)
         /\ StockRight' = StockRight
<1>1. Stock' = Stock /\ \A p : Ahead(ack, p)' = Ahead(ack, p) /\ InStock(p)' = InStock(p)
  BY DEF Stock, InStock, Ahead, Place, Cells
<1> QED
  BY <1>1 DEF StockRight, StockNewer, StockComplete

\* An engine that is started has an empty ring.
LEMMA StockEmpty ==
  ASSUME Sizes, arrived \in Nat, ~ovf', pos' = ack', ack' \in Position,
         arrived' = arrived, base' = arrived, taken' = 0, last' = arrived
  PROVE  Stock' = 0 /\ StockRight'
<1>1. /\ Ahead(ack', ack') = 0 /\ Cells \in Nat
      /\ \A p \in Position : Ahead(ack', p) \in 0 .. Cells - 1
  BY AheadRange, CellCount
<1>2. Stock' = 0 /\ \A p : Ahead(ack, p)' = Ahead(ack', p)
  BY <1>1 DEF Stock, Ahead, Place, Cells
<1>3. \A p \in Position : ~InStock(p)'
  BY <1>1, <1>2 DEF InStock
<1> QED
  BY <1>2, <1>3 DEF StockRight, StockNewer, StockComplete

\* A cell is stored at the head.
LEMMA StockStore ==
  ASSUME RingTyped, StockRight, ~ovf, ~(gap /\ After(pos) = ack),
         arrived' = arrived + 1, mem' = [mem EXCEPT ![pos] = arrived + 1],
         pos' = After(pos), ovf' <=> ~gap /\ After(pos) = ack,
         UNCHANGED <<gap, ack, dropped, base, taken, last>>
  PROVE  /\ Stock' = Stock + 1 /\ \A p : Ahead(ack, p)' = Ahead(ack, p)
         /\ StockRight'
<1>1. /\ Sizes /\ pos \in Position /\ ack \in Position
      /\ mem \in [Position -> 0 .. MaxCell] /\ arrived \in 0 .. MaxCell
      /\ base \in 0 .. MaxCell /\ taken \in Nat /\ last \in 0 .. MaxCell /\ Cells \in Nat
  BY StockRange DEF RingTyped
<1> DEFINE d == Ahead(ack, pos)
<1>2. d \in 0 .. Cells - 1 /\ Stock = d
  BY StockRange DEF Stock
<1>3. Stock' = d + 1 /\ \A p : Ahead(ack, p)' = Ahead(ack, p)
  <2>1. \A p : Ahead(ack, p)' = Ahead(ack, p)
    BY DEF Ahead, Place, Cells
  <2>2. Stock' = IF After(pos) = ack THEN Cells ELSE Ahead(ack, After(pos))
    BY DEF Stock, Ahead, Place, Cells
  <2>3. /\ After(pos) = ack => d = Cells - 1
        /\ After(pos) # ack => Ahead(ack, After(pos)) = d + 1
    BY <1>1, HeadOn
  <2> QED
    BY <1>1, <1>2, <2>1, <2>2, <2>3
<1>4. ASSUME NEW p \in Position, Ahead(ack, p) < d + 1
      PROVE  \/ p = pos /\ mem'[p] = arrived + 1 /\ Ahead(ack, p) = d
             \/ p # pos /\ mem'[p] = mem[p] /\ InStock(p) /\ Ahead(ack, p) < d
  <2>1. Ahead(ack, p) \in 0 .. Cells - 1
    BY <1>1, AheadRange
  <2>2. CASE p = pos
    BY <1>1, <2>2
  <2>3. CASE p # pos
    <3>1. Ahead(ack, p) # d
      BY <1>1, <2>3, AheadUnique
    <3> QED
      BY <1>1, <1>2, <1>4, <2>1, <2>3, <3>1 DEF InStock
  <2> QED
    BY <2>2, <2>3
<1>5. \A p \in Position : InStock(p)' <=> Ahead(ack, p) < d + 1
  BY <1>3 DEF InStock
<1>6. /\ last <= arrived
      /\ \A p \in Position : InStock(p) => last < mem[p] /\ mem[p] <= arrived
      /\ \A p, q \in Position : InStock(q) /\ Ahead(ack, p) <= Ahead(ack, q)
           => mem[q] - mem[p] >= Ahead(ack, q) - Ahead(ack, p)
      /\ ~dropped => /\ last = base + taken /\ arrived = last + Stock
                     /\ \A p \in Position : InStock(p) => mem[p] = last + 1 + Ahead(ack, p)
  BY DEF StockRight, StockNewer, StockComplete
<1> HIDE DEF d
<1>7. StockNewer'
  <2>1. last' <= arrived'
    BY <1>1, <1>6
  <2>2. ASSUME NEW p \in Position, InStock(p)' PROVE last' < mem'[p] /\ mem'[p] <= arrived'
    BY <1>1, <1>4, <1>5, <1>6, <2>2
  <2>3. ASSUME NEW p \in Position, NEW q \in Position, InStock(q)',
               Ahead(ack, p)' <= Ahead(ack, q)'
        PROVE  mem'[q] - mem'[p] >= Ahead(ack, q)' - Ahead(ack, p)'
    <3>1. /\ Ahead(ack, p) \in 0 .. Cells - 1 /\ Ahead(ack, q) \in 0 .. Cells - 1
          /\ Ahead(ack, p) <= Ahead(ack, q) /\ Ahead(ack, q) < d + 1
          /\ Ahead(ack, p)' = Ahead(ack, p) /\ Ahead(ack, q)' = Ahead(ack, q)
      BY <1>1, <1>3, <1>5, <2>3, AheadRange
    <3>2. Ahead(ack, p) < d + 1
      BY <1>2, <3>1
    <3>3. CASE q # pos
      <4>1. mem'[q] = mem[q] /\ InStock(q) /\ Ahead(ack, q) < d
        BY <1>4, <3>1, <3>3
      <4>2. mem'[p] = mem[p]
        BY <1>2, <1>4, <3>1, <3>2, <4>1
      <4> QED
        BY <1>6, <3>1, <4>1, <4>2
    <3>4. CASE q = pos /\ p # pos
      \* The cell stored last is newer than all others, by their distance.
      <4>1. mem'[q] = arrived + 1 /\ Ahead(ack, q) = d
        BY <1>4, <3>1, <3>4
      <4>2. mem'[p] = mem[p] /\ InStock(p) /\ Ahead(ack, p) < d
        BY <1>4, <3>2, <3>4
      <4>3. d > 0
        BY <1>2, <3>1, <4>2
      <4>4. PICK z \in Position : Ahead(ack, z) = d - 1
        BY <1>1, <1>2, <4>3, LastBefore, AheadRange DEF d
      <4>5. InStock(z) /\ Ahead(ack, p) <= Ahead(ack, z)
        BY <1>2, <3>1, <4>2, <4>4 DEF InStock
      <4>6. mem[z] - mem[p] >= Ahead(ack, z) - Ahead(ack, p) /\ mem[z] <= arrived
        BY <1>6, <4>5
      <4>7. mem[z] \in Nat /\ mem[p] \in Nat
        BY <1>1
      <4> QED
        BY <1>1, <1>2, <3>1, <4>1, <4>2, <4>4, <4>6, <4>7
    <3>5. CASE q = pos /\ p = pos
      BY <1>1, <3>1, <3>5
    <3> QED
      BY <3>3, <3>4, <3>5
  <2> QED
    BY <2>1, <2>2, <2>3 DEF StockNewer
<1>8. StockComplete'
  <2> SUFFICES ASSUME ~dropped
               PROVE  /\ last' = base' + taken' /\ arrived' = last' + Stock'
                      /\ \A p \in Position : InStock(p)' => mem'[p] = last' + 1 + Ahead(ack, p)'
    BY DEF StockComplete
  <2>1. last' = base' + taken' /\ arrived' = last' + Stock'
    BY <1>1, <1>2, <1>3, <1>6
  <2>2. ASSUME NEW p \in Position, InStock(p)' PROVE mem'[p] = last' + 1 + Ahead(ack, p)'
    <3>1. Ahead(ack, p)' = Ahead(ack, p) /\ Ahead(ack, p) \in 0 .. Cells - 1
      BY <1>1, <1>3, AheadRange
    <3> QED
      BY <1>1, <1>2, <1>4, <1>5, <1>6, <2>2, <3>1
  <2> QED
    BY <2>1, <2>2
<1> QED
  BY <1>2, <1>3, <1>7, <1>8 DEF StockRight

\* A cell is dropped.
LEMMA StockDrop ==
  ASSUME RingTyped, StockRight, gap \/ ovf, arrived' = arrived + 1, dropped', ovf',
         UNCHANGED <<gap, pos, ack, mem, last>>
  PROVE  /\ Stock' = Stock /\ \A p : Ahead(ack, p)' = Ahead(ack, p)
         /\ StockRight'
<1>1. /\ mem \in [Position -> 0 .. MaxCell] /\ arrived \in 0 .. MaxCell
      /\ last \in 0 .. MaxCell /\ gap \in BOOLEAN /\ ovf \in BOOLEAN
  BY DEF RingTyped
<1>2. Stock' = Stock /\ \A p : Ahead(ack, p)' = Ahead(ack, p) /\ (InStock(p)' <=> InStock(p))
  BY <1>1 DEF Stock, InStock, Ahead, Place, Cells
<1> QED
  BY <1>1, <1>2 DEF StockRight, StockNewer, StockComplete

\* The n cells from ack to l are taken and released.
LEMMA StockRelease ==
  ASSUME RingTyped, StockRight, ovf /\ ~gap => pos = ack,
         NEW n \in Nat \ {0}, n <= Stock, NEW b \in Position, NEW l \in Position,
         Ahead(ack, b) = n, Ahead(ack, l) = n - 1,
         ~ovf', ack' = b, last' = mem[l], taken' = taken + n,
         UNCHANGED <<gap, pos, mem, arrived, dropped, base>>
  PROVE  /\ Stock' = Stock - n /\ StockRight'
         /\ \A p \in Position : Ahead(ack, p) >= n => Ahead(ack, p)' = Ahead(ack, p) - n
<1>1. /\ Sizes /\ pos \in Position /\ ack \in Position
      /\ mem \in [Position -> 0 .. MaxCell] /\ arrived \in 0 .. MaxCell
      /\ base \in 0 .. MaxCell /\ taken \in Nat /\ last \in 0 .. MaxCell /\ Cells \in Nat
      /\ Stock \in 0 .. Cells
  BY StockRange DEF RingTyped
<1>2. /\ last <= arrived
      /\ \A p \in Position : InStock(p) => last < mem[p] /\ mem[p] <= arrived
      /\ \A p, q \in Position : InStock(q) /\ Ahead(ack, p) <= Ahead(ack, q)
           => mem[q] - mem[p] >= Ahead(ack, q) - Ahead(ack, p)
      /\ ~dropped => /\ last = base + taken /\ arrived = last + Stock
                     /\ \A p \in Position : InStock(p) => mem[p] = last + 1 + Ahead(ack, p)
  BY DEF StockRight, StockNewer, StockComplete
<1>3. InStock(l) /\ mem[l] \in 0 .. MaxCell /\ last < mem[l] /\ mem[l] <= arrived
  BY <1>1, <1>2 DEF InStock
<1>4. Stock' = Stock - n /\ \A p : Ahead(ack, p)' = Ahead(b, p)
  <2>1. \A p : Ahead(ack, p)' = Ahead(b, p)
    BY DEF Ahead, Place, Cells
  <2>2. Stock' = Ahead(b, pos)
    BY DEF Stock, Ahead, Place, Cells
  <2>3. Ahead(b, pos) \in 0 .. Cells - 1 /\ Ahead(ack, ack) = 0
    BY <1>1, AheadRange
  <2>4. CASE ovf /\ ~gap
    <3>1. pos = ack /\ Stock = Cells
      BY <2>4 DEF Stock
    <3>2. Ahead(ack, b) + Ahead(b, ack) = Cells
      BY <1>1, <2>3, AheadSum
    <3> QED
      BY <1>1, <2>1, <2>2, <2>3, <3>1, <3>2
  <2>5. CASE ~(ovf /\ ~gap)
    <3>1. Stock = Ahead(ack, pos)
      BY <2>5 DEF Stock
    <3>2. Ahead(ack, b) + Ahead(b, pos) = Ahead(ack, pos)
      BY <1>1, <3>1, AheadSum
    <3> QED
      BY <1>1, <2>1, <2>2, <2>3, <3>1, <3>2
  <2> QED
    BY <2>4, <2>5
<1>5. ASSUME NEW p \in Position, Ahead(b, p) < Stock - n
       PROVE  /\ Ahead(ack, p) = Ahead(b, p) + n /\ InStock(p) /\ Ahead(b, p) \in Nat
  <2>1. Ahead(b, p) \in 0 .. Cells - 1 /\ Ahead(ack, p) \in 0 .. Cells - 1
    BY <1>1, AheadRange
  <2>2. \/ Ahead(ack, b) + Ahead(b, p) = Ahead(ack, p)
        \/ Ahead(ack, b) + Ahead(b, p) = Ahead(ack, p) + Cells
    BY <1>1, AheadSum
  <2>3. Ahead(ack, p) = Ahead(b, p) + n
    BY <1>1, <1>5, <2>1, <2>2
  <2> QED
    BY <1>1, <1>5, <2>1, <2>3 DEF InStock
<1>6. \A p \in Position : InStock(p)' <=> Ahead(b, p) < Stock - n
  BY <1>4 DEF InStock
<1>7. StockNewer'
  <2>1. last' <= arrived'
    BY <1>3
  <2>2. ASSUME NEW p \in Position, InStock(p)' PROVE last' < mem'[p] /\ mem'[p] <= arrived'
    <3>1. InStock(p) /\ Ahead(ack, p) = Ahead(b, p) + n /\ Ahead(b, p) \in Nat
      BY <1>5, <1>6, <2>2
    <3>2. Ahead(ack, l) <= Ahead(ack, p)
      BY <1>1, <3>1
    <3>3. mem[p] - mem[l] >= Ahead(ack, p) - Ahead(ack, l)
      BY <1>2, <3>1, <3>2
    <3>4. mem[p] \in Nat /\ mem[l] \in Nat
      BY <1>1
    <3> QED
      BY <1>1, <1>2, <3>1, <3>3, <3>4
  <2>3. ASSUME NEW p \in Position, NEW q \in Position, InStock(q)',
               Ahead(ack, p)' <= Ahead(ack, q)'
        PROVE  mem'[q] - mem'[p] >= Ahead(ack, q)' - Ahead(ack, p)'
    <3>1. /\ Ahead(b, p) \in 0 .. Cells - 1 /\ Ahead(b, q) \in 0 .. Cells - 1
          /\ Ahead(b, p) <= Ahead(b, q) /\ Ahead(b, q) < Stock - n
      BY <1>1, <1>4, <1>6, <2>3, AheadRange
    <3>2. Ahead(b, p) < Stock - n
      BY <1>1, <3>1
    <3>3. /\ Ahead(ack, p) = Ahead(b, p) + n
          /\ Ahead(ack, q) = Ahead(b, q) + n /\ InStock(q)
      BY <1>5, <3>1, <3>2
    <3>4. mem[q] - mem[p] >= Ahead(ack, q) - Ahead(ack, p)
      BY <1>1, <1>2, <3>1, <3>3
    <3> QED
      BY <1>1, <1>4, <3>1, <3>3, <3>4
  <2> QED
    BY <2>1, <2>2, <2>3 DEF StockNewer
<1>8. ~dropped => /\ last' = base' + taken' /\ arrived' = last' + Stock'
                   /\ \A p \in Position : InStock(p)' => mem'[p] = last' + 1 + Ahead(ack, p)'
  <2> SUFFICES ASSUME ~dropped
               PROVE  /\ last' = base' + taken' /\ arrived' = last' + Stock'
                      /\ \A p \in Position : InStock(p)' => mem'[p] = last' + 1 + Ahead(ack, p)'
    OBVIOUS
  <2>1. last' = last + n
    BY <1>1, <1>2, <1>3
  <2>2. last' = base' + taken' /\ arrived' = last' + Stock'
    BY <1>1, <1>2, <1>4, <2>1
  <2>3. ASSUME NEW p \in Position, InStock(p)' PROVE mem'[p] = last' + 1 + Ahead(ack, p)'
    BY <1>1, <1>2, <1>4, <1>5, <1>6, <2>1, <2>3
  <2> QED
    BY <2>2, <2>3
<1>9. ASSUME NEW p \in Position, Ahead(ack, p) >= n
       PROVE  Ahead(ack, p)' = Ahead(ack, p) - n
  <2>1. Ahead(b, p) \in 0 .. Cells - 1 /\ Ahead(ack, p) \in 0 .. Cells - 1
    BY <1>1, AheadRange
  <2>2. Ahead(ack, b) + Ahead(b, p) = Ahead(ack, p)
    BY <1>1, <1>9, AheadSum
  <2> QED
    BY <1>4, <2>1, <2>2
<1> QED
  BY <1>4, <1>7, <1>8, <1>9 DEF StockRight, StockComplete

\* They are newer than what was taken before, and in order.
LEMMA StockInOrder ==
  ASSUME RingTyped, StockRight, NEW l \in Position, InStock(l)
  PROVE  /\ mem[l] \in Nat /\ mem[l] > last + Ahead(ack, l)
         /\ ~dropped => mem[l] = base + taken + 1 + Ahead(ack, l)
<1>1. /\ Sizes /\ ack \in Position /\ mem \in [Position -> 0 .. MaxCell]
      /\ base \in 0 .. MaxCell /\ taken \in Nat /\ last \in 0 .. MaxCell
  BY DEF RingTyped
<1>2. /\ Ahead(ack, ack) = 0 /\ Ahead(ack, l) \in 0 .. Cells - 1 /\ Cells \in Nat
      /\ mem[l] \in Nat /\ mem[ack] \in Nat /\ Stock \in 0 .. Cells
  BY <1>1, AheadRange, StockRange
<1>3. InStock(ack) /\ Ahead(ack, ack) <= Ahead(ack, l)
  BY <1>2 DEF InStock
<1>4. last < mem[ack] /\ mem[l] - mem[ack] >= Ahead(ack, l) - Ahead(ack, ack)
  BY <1>1, <1>3 DEF StockRight, StockNewer
<1>5. ~dropped => last = base + taken /\ mem[l] = last + 1 + Ahead(ack, l)
  BY DEF StockRight, StockComplete
<1> QED
  BY <1>1, <1>2, <1>4, <1>5

-----------------------------------------------------------------------------
(* One redirected hop: RedirectPipe.                                        *)

\* Its positions are those above.
LEMMA PipeRing ==
  /\ Pipe!Position = Position
  /\ \A p : Pipe!Step(p) = After(p)
  /\ Sizes => Pipe!Origin \in Position /\ Ahead(Pipe!Origin, Pipe!Origin) = 0
<1>1. Pipe!Position = Position
  BY DEF Pipe!Position, Position
<1>2. ASSUME NEW p PROVE Pipe!Step(p) = After(p)
  BY DEF Pipe!Step, Pipe!At, Pipe!NextBuf, After
<1>3. Sizes => Pipe!Origin \in Position
  BY DEF Sizes, Position, Pipe!Origin, Pipe!At
<1>4. Sizes => Ahead(Pipe!Origin, Pipe!Origin) = 0
  BY <1>3, AheadRange
<1> QED
  BY <1>1, <1>2, <1>3, <1>4

\* What runs in which step of ddb_input_start_all and ddb_input_stop_all.
PipePhases ==
  /\ gap
  /\ running = (pc = "started") /\ hwRun = (pc = "started")
  /\ oRunning = (pc # "stopped") /\ oRun = (pc # "stopped")
  /\ pc = "starting" => oPos = Pipe!Origin /\ oAck = Pipe!Origin

Flowing == pc \in {"started", "stopping"}

\* What the input has released, the output's engine and what the output may
\* send follow each other round the ring, and the input's engine is ahead.
PipeBetween ==
  Flowing => /\ Ahead(oPos, oAck) <= Ahead(oPos, pos)
             /\ Ahead(ack, oPos) <= Ahead(ack, pos)

Unsent(p) == Ahead(oPos, p) < Ahead(oPos, pos)

\* What is still to be sent is newer than what was sent, and in order ...
PipeNewer ==
  Flowing =>
    /\ last <= arrived
    /\ \A p \in Position : Unsent(p) => last < mem[p] /\ mem[p] <= arrived
    /\ \A p, q \in Position :
         Unsent(q) /\ Ahead(oPos, p) < Ahead(oPos, q) => mem[p] < mem[q]

\* ... and while nothing was dropped it lacks no cell.
PipeComplete ==
  Flowing /\ ~dropped =>
    /\ last = base + sent /\ arrived = last + Ahead(oPos, pos)
    /\ \A p \in Position : Unsent(p) => mem[p] = last + 1 + Ahead(oPos, p)

PipeInv == Sizes /\ Pipe!TypeOK /\ PipePhases /\ PipeBetween /\ PipeNewer /\ PipeComplete

LEMMA PipeTypes ==
  ASSUME Pipe!TypeOK
  PROVE  /\ pos \in Position /\ ack \in Position /\ oPos \in Position /\ oAck \in Position
         /\ stat \in Position /\ oStat \in Position
         /\ mem \in [Position -> 0 .. MaxCell] /\ arrived \in 0 .. MaxCell
         /\ base \in 0 .. MaxCell /\ sent \in Nat /\ last \in 0 .. MaxCell
BY PipeRing DEF Pipe!TypeOK, Pipe!HwTypeOK

LEMMA PipeInit == ASSUME Sizes PROVE Pipe!Init => PipeInv
<1> SUFFICES ASSUME Pipe!Init PROVE PipeInv
  OBVIOUS
<1>1. pc = "stopped" /\ ~Flowing
  BY DEF Pipe!Init, Flowing
<1>2. PipePhases
  BY <1>1 DEF Pipe!Init, Pipe!HwInit, PipePhases
<1>3. Pipe!TypeOK
  <2>1. Pipe!Origin \in Pipe!Position /\ 0 \in 0 .. MaxCell /\ 0 \in 0 .. Num - 1
        /\ 0 \in 0 .. Size - 1
    BY PipeRing DEF Sizes
  <2> QED
    BY <2>1 DEF Pipe!Init, Pipe!HwInit, Pipe!TypeOK, Pipe!HwTypeOK
<1> QED
  BY <1>1, <1>2, <1>3 DEF PipeInv, PipeBetween, PipeNewer, PipeComplete

LEMMA PipeTypeNext ==
  ASSUME Sizes, Pipe!TypeOK, [Pipe!Next]_(Pipe!vars)
  PROVE  Pipe!TypeOK'
<1>1. /\ \A p \in Pipe!Position : /\ Pipe!Step(p) \in Pipe!Position
                                 /\ p.idx \in 0 .. Num - 1 /\ p.off \in 0 .. Size - 1
      /\ Pipe!Origin \in Pipe!Position /\ 0 \in 0 .. Num - 1 /\ 0 \in 0 .. Size - 1
      /\ 0 \in 0 .. MaxCell
  BY PipeRing, PlaceAfter DEF Sizes, Position
<1>2. CASE Pipe!Arrival
  <2>1. arrived + 1 \in 0 .. MaxCell
    BY <1>2 DEF Sizes, Pipe!Arrival, Pipe!HwStore, Pipe!HwDrop, Pipe!TypeOK, Pipe!HwTypeOK
  <2> QED
    BY <1>1, <1>2, <2>1
       DEF Pipe!Arrival, Pipe!HwStore, Pipe!HwDrop, Pipe!TypeOK, Pipe!HwTypeOK,
           Pipe!inVars, Pipe!outVars, Pipe!history
<1>3. CASE Pipe!Send
  BY <1>1, <1>3 DEF Pipe!Send, Pipe!TypeOK, Pipe!HwTypeOK, Pipe!hwVars, Pipe!inVars
<1>4. CASE Pipe!InputHandler
  BY <1>1, <1>4 DEF Pipe!InputHandler, Pipe!Forwarded, Pipe!TypeOK, Pipe!HwTypeOK, Pipe!history
<1>5. CASE Pipe!OutputHandler
  BY <1>1, <1>5 DEF Pipe!OutputHandler, Pipe!WriteAck, Pipe!TypeOK, Pipe!HwTypeOK,
                    Pipe!inVars, Pipe!history
<1>6. CASE Pipe!StartOutput
  BY <1>1, <1>6 DEF Pipe!StartOutput, Pipe!ResetOutput, Pipe!TypeOK, Pipe!HwTypeOK,
                    Pipe!hwVars, Pipe!inVars, Pipe!history
<1>7. CASE Pipe!StartInput
  BY <1>1, <1>7 DEF Pipe!StartInput, Pipe!HwStart, Pipe!TypeOK, Pipe!HwTypeOK, Pipe!outVars
<1>8. CASE Pipe!StopInput
  BY <1>8 DEF Pipe!StopInput, Pipe!HwStop, Pipe!TypeOK, Pipe!HwTypeOK, Pipe!outVars,
              Pipe!history
<1>9. CASE Pipe!StopOutput
  BY <1>9 DEF Pipe!StopOutput, Pipe!TypeOK, Pipe!HwTypeOK, Pipe!hwVars, Pipe!inVars,
              Pipe!history
<1>10. CASE UNCHANGED Pipe!vars
  BY <1>10 DEF Pipe!vars, Pipe!TypeOK, Pipe!HwTypeOK, Pipe!hwVars, Pipe!inVars,
              Pipe!outVars, Pipe!history
<1> QED
  BY <1>2, <1>3, <1>4, <1>5, <1>6, <1>7, <1>8, <1>9, <1>10 DEF Pipe!Next

LEMMA PipePhasesNext ==
  ASSUME PipePhases, [Pipe!Next]_(Pipe!vars)
  PROVE  PipePhases'
<1>1. CASE Pipe!Arrival
  BY <1>1 DEF Pipe!Arrival, Pipe!HwStore, Pipe!HwDrop, PipePhases, Pipe!inVars, Pipe!outVars,
              Pipe!Origin, Pipe!At
<1>2. CASE Pipe!Send
  BY <1>2 DEF Pipe!Send, PipePhases, Pipe!hwVars, Pipe!inVars
<1>3. CASE Pipe!InputHandler
  BY <1>3 DEF Pipe!InputHandler, PipePhases
<1>4. CASE Pipe!OutputHandler
  BY <1>4 DEF Pipe!OutputHandler, PipePhases, Pipe!inVars
<1>5. CASE Pipe!StartOutput
  BY <1>5 DEF Pipe!StartOutput, Pipe!ResetOutput, PipePhases, Pipe!hwVars, Pipe!inVars
<1>6. CASE Pipe!StartInput
  BY <1>6 DEF Pipe!StartInput, Pipe!HwStart, PipePhases, Pipe!outVars
<1>7. CASE Pipe!StopInput
  BY <1>7 DEF Pipe!StopInput, Pipe!HwStop, PipePhases, Pipe!outVars
<1>8. CASE Pipe!StopOutput
  BY <1>8 DEF Pipe!StopOutput, PipePhases, Pipe!hwVars, Pipe!inVars
<1>9. CASE UNCHANGED Pipe!vars
  BY <1>9 DEF Pipe!vars, PipePhases, Pipe!hwVars, Pipe!inVars, Pipe!outVars
<1> QED
  BY <1>1, <1>2, <1>3, <1>4, <1>5, <1>6, <1>7, <1>8, <1>9 DEF Pipe!Next

PipeData == PipeBetween /\ PipeNewer /\ PipeComplete

\* Whatever leaves the engines where they are and the data alone.
LEMMA PipeDataStays ==
  ASSUME PipeData, Flowing' => Flowing,
         UNCHANGED <<pos, mem, arrived, dropped, base, sent, last>>,
         Flowing' => /\ oPos' = oPos
                     /\ Ahead(oPos, oAck') <= Ahead(oPos, pos)
                     /\ Ahead(ack', oPos) <= Ahead(ack', pos)
  PROVE  PipeData'
<1>1. CASE ~Flowing'
  BY <1>1 DEF PipeData, PipeBetween, PipeNewer, PipeComplete
<1>2. CASE Flowing'
  <2>1. /\ Ahead(oPos, oAck)' = Ahead(oPos, oAck') /\ Ahead(oPos, pos)' = Ahead(oPos, pos)
        /\ Ahead(ack, oPos)' = Ahead(ack', oPos) /\ Ahead(ack, pos)' = Ahead(ack', pos)
        /\ \A p : Ahead(oPos, p)' = Ahead(oPos, p)
    BY <1>2 DEF Ahead, Place, Cells
  <2>2. PipeBetween'
    BY <1>2, <2>1 DEF PipeBetween
  <2>3. \A p : Unsent(p)' <=> Unsent(p)
    BY <2>1 DEF Unsent
  <2>4. PipeNewer'
    BY <1>2, <2>1, <2>3 DEF PipeData, PipeNewer
  <2>5. PipeComplete'
    BY <1>2, <2>1, <2>3 DEF PipeData, PipeComplete
  <2> QED
    BY <2>2, <2>4, <2>5 DEF PipeData
<1> QED
  BY <1>1, <1>2

\* Whatever leaves all positions alone.
LEMMA PipePlacesStay ==
  ASSUME UNCHANGED <<pos, ack, oPos, oAck>>
  PROVE  /\ UNCHANGED <<Ahead(oPos, oAck), Ahead(oPos, pos), Ahead(ack, oPos), Ahead(ack, pos)>>
         /\ \A p : Ahead(oPos, p)' = Ahead(oPos, p)
  BY DEF Ahead, Place, Cells

LEMMA PipeStore ==
  ASSUME PipeInv, Pipe!HwStore, Pipe!Arrival
  PROVE  PipeData'
<1>1. /\ pos \in Position /\ ack \in Position /\ oPos \in Position /\ oAck \in Position
      /\ mem \in [Position -> 0 .. MaxCell] /\ arrived \in 0 .. MaxCell
      /\ base \in 0 .. MaxCell /\ sent \in Nat /\ last \in 0 .. MaxCell /\ Cells \in Nat /\ Sizes
  BY PipeTypes, CellCount DEF PipeInv
<1>2. /\ hwRun /\ gap /\ After(pos) # ack /\ pc = "started" /\ pc' = pc
      /\ arrived' = arrived + 1 /\ mem' = [mem EXCEPT ![pos] = arrived + 1]
      /\ pos' = After(pos)
      /\ UNCHANGED <<ack, oPos, oAck, dropped, base, sent, last>>
  BY PipeRing DEF PipeInv, PipePhases, Pipe!Arrival, Pipe!HwStore, Pipe!Full, Pipe!outVars,
                  Pipe!history
<1>3. Flowing /\ Flowing'
  BY <1>2 DEF Flowing
<1> DEFINE d == Ahead(oPos, pos)
           e == Ahead(ack, pos)
<1>4. /\ d \in 0 .. Cells - 1 /\ e \in 0 .. Cells - 1
      /\ Ahead(ack, oPos) \in 0 .. Cells - 1 /\ Ahead(oPos, oAck) \in 0 .. Cells - 1
      /\ Ahead(ack, oPos) + d = e /\ Ahead(oPos, oAck) <= d
  BY <1>1, <1>3, AheadRange, AheadSum DEF PipeInv, PipeBetween
<1>5. Ahead(ack, After(pos)) = e + 1 /\ After(pos) \in Position
  BY <1>1, <1>2, HeadOn
<1>6. Ahead(oPos, After(pos)) = d + 1
  <2>1. CASE After(pos) # oPos
    BY <1>1, <2>1, HeadOn
  <2>2. CASE After(pos) = oPos
    <3>1. d = Cells - 1 /\ Ahead(ack, oPos) = e + 1
      BY <1>1, <1>5, <2>2, HeadOn
    <3> QED
      BY <1>4, <3>1
  <2> QED
    BY <2>1, <2>2
<1>7. /\ Ahead(oPos, pos)' = d + 1 /\ Ahead(ack, pos)' = e + 1
      /\ Ahead(ack, oPos)' = Ahead(ack, oPos) /\ Ahead(oPos, oAck)' = Ahead(oPos, oAck)
      /\ \A p : Ahead(oPos, p)' = Ahead(oPos, p)
  BY <1>2, <1>5, <1>6 DEF Ahead, Place, Cells
<1>8. PipeBetween'
  BY <1>4, <1>7 DEF PipeBetween
<1>9. ASSUME NEW p \in Position, Ahead(oPos, p) < d + 1
      PROVE  \/ p = pos /\ mem'[p] = arrived + 1 /\ Ahead(oPos, p) = d
             \/ p # pos /\ mem'[p] = mem[p] /\ Unsent(p)
  <2>1. Ahead(oPos, p) \in 0 .. Cells - 1
    BY <1>1, AheadRange
  <2>2. CASE p = pos
    BY <1>1, <1>2, <2>2
  <2>3. CASE p # pos
    <3>1. Ahead(oPos, p) # d
      BY <1>1, <2>3, AheadUnique
    <3> QED
      BY <1>1, <1>2, <1>4, <1>9, <2>1, <2>3, <3>1 DEF Unsent
  <2> QED
    BY <2>2, <2>3
<1>10. \A p \in Position : Unsent(p)' <=> Ahead(oPos, p) < d + 1
  BY <1>7 DEF Unsent
<1> HIDE DEF d, e
<1>11. PipeNewer'
  <2>1. /\ last <= arrived
        /\ \A p \in Position : Unsent(p) => last < mem[p] /\ mem[p] <= arrived
        /\ \A p, q \in Position :
             Unsent(q) /\ Ahead(oPos, p) < Ahead(oPos, q) => mem[p] < mem[q]
    BY <1>3 DEF PipeInv, PipeNewer
  <2>2. last' <= arrived'
    BY <1>1, <1>2, <2>1
  <2>3. ASSUME NEW p \in Position, Unsent(p)' PROVE last' < mem'[p] /\ mem'[p] <= arrived'
    BY <1>1, <1>2, <1>9, <1>10, <2>1, <2>3
  <2>4. ASSUME NEW p \in Position, NEW q \in Position, Unsent(q)',
               Ahead(oPos, p)' < Ahead(oPos, q)'
        PROVE  mem'[p] < mem'[q]
    <3>1. /\ Ahead(oPos, p) \in 0 .. Cells - 1 /\ Ahead(oPos, q) \in 0 .. Cells - 1
          /\ Ahead(oPos, p) < Ahead(oPos, q) /\ Ahead(oPos, q) < d + 1
          /\ d \in 0 .. Cells - 1
      BY <1>1, <1>4, <1>7, <1>10, <2>4, AheadRange
    <3>2. Ahead(oPos, p) < d + 1 /\ Ahead(oPos, p) < d
      BY <3>1, <1>1
    <3>3. p # pos /\ mem'[p] = mem[p] /\ Unsent(p)
      BY <1>9, <3>1, <3>2
    <3>4. CASE q = pos /\ mem'[q] = arrived + 1
      BY <1>1, <2>1, <3>3, <3>4
    <3>5. CASE mem'[q] = mem[q] /\ Unsent(q)
      BY <2>1, <3>1, <3>3, <3>5
    <3> QED
      BY <1>9, <3>1, <3>4, <3>5
  <2> QED
    BY <2>2, <2>3, <2>4 DEF PipeNewer
<1>12. PipeComplete'
  <2> SUFFICES ASSUME ~dropped
               PROVE  /\ last' = base' + sent' /\ arrived' = last' + Ahead(oPos, pos)'
                      /\ \A p \in Position : Unsent(p)' => mem'[p] = last' + 1 + Ahead(oPos, p)'
    BY <1>2 DEF PipeComplete
  <2>1. /\ last = base + sent /\ arrived = last + d
        /\ \A p \in Position : Unsent(p) => mem[p] = last + 1 + Ahead(oPos, p)
    BY <1>3 DEF PipeInv, PipeComplete, d
  <2>2. arrived' = last' + Ahead(oPos, pos)'
    BY <1>1, <1>2, <1>4, <1>7, <2>1
  <2>3. ASSUME NEW p \in Position, Unsent(p)' PROVE mem'[p] = last' + 1 + Ahead(oPos, p)'
    BY <1>1, <1>2, <1>4, <1>7, <1>9, <1>10, <2>1, <2>3
  <2> QED
    BY <1>2, <2>1, <2>2, <2>3
<1> QED
  BY <1>8, <1>11, <1>12 DEF PipeData

LEMMA PipeDrop ==
  ASSUME PipeInv, Pipe!HwDrop, Pipe!Arrival
  PROVE  PipeData'
<1>1. /\ mem \in [Position -> 0 .. MaxCell] /\ arrived \in 0 .. MaxCell
      /\ last \in 0 .. MaxCell
  BY PipeTypes DEF PipeInv
<1>2. /\ arrived' = arrived + 1 /\ dropped' /\ pc' = pc
      /\ UNCHANGED <<pos, ack, oPos, oAck, mem, last>>
  BY DEF Pipe!Arrival, Pipe!HwDrop, Pipe!outVars, Pipe!history
<1>3. Flowing' <=> Flowing
  BY <1>2 DEF Flowing
<1>4. PipeBetween'
  BY <1>2, <1>3, PipePlacesStay DEF PipeInv, PipeBetween
<1>5. PipeNewer'
  <2>1. \A p : Unsent(p)' <=> Unsent(p)
    BY <1>2, PipePlacesStay DEF Unsent
  <2> QED
    BY <1>1, <1>2, <1>3, <2>1, PipePlacesStay DEF PipeInv, PipeNewer
<1> QED
  BY <1>2, <1>4, <1>5 DEF PipeData, PipeComplete

LEMMA PipeSend ==
  ASSUME PipeInv, Pipe!Send
  PROVE  /\ PipeData'
         /\ last' > last /\ (~dropped => last' = base + sent')
<1>1. /\ pos \in Position /\ ack \in Position /\ oPos \in Position /\ oAck \in Position
      /\ mem \in [Position -> 0 .. MaxCell] /\ arrived \in 0 .. MaxCell
      /\ base \in 0 .. MaxCell /\ sent \in Nat /\ last \in 0 .. MaxCell /\ Cells \in Nat /\ Sizes
  BY PipeTypes, CellCount DEF PipeInv
<1>2. /\ oRun /\ oPos # oAck /\ sent' = sent + 1 /\ last' = mem[oPos] /\ oPos' = After(oPos)
      /\ UNCHANGED <<pos, ack, oAck, mem, arrived, dropped, base, pc>>
  BY PipeRing DEF Pipe!Send, Pipe!hwVars
<1>3. Flowing /\ Flowing'
  BY <1>2 DEF PipeInv, PipePhases, Pipe!TypeOK, Flowing
<1> DEFINE d == Ahead(oPos, pos)
           k == Ahead(oPos, oAck)
<1>4. /\ d \in 0 .. Cells - 1 /\ k \in 0 .. Cells - 1 /\ k # 0 /\ k <= d
      /\ Ahead(ack, oPos) \in 0 .. Cells - 1 /\ Ahead(ack, pos) \in 0 .. Cells - 1
      /\ Ahead(ack, oPos) + d = Ahead(ack, pos) /\ Ahead(oPos, oPos) = 0
  BY <1>1, <1>2, <1>3, AheadRange, AheadSum DEF PipeInv, PipeBetween
<1>5. oPos # pos
  BY <1>1, <1>4, AheadRange
<1>6. /\ Ahead(After(oPos), pos) = d - 1 /\ Ahead(After(oPos), oAck) = k - 1
      /\ \A p \in Position : p # oPos => Ahead(After(oPos), p) = Ahead(oPos, p) - 1
      /\ After(oPos) \in Position
  BY <1>1, <1>2, <1>5, TailOn
<1>7. Ahead(ack, After(oPos)) <= Ahead(ack, pos)
  <2>1. CASE After(oPos) = ack
    BY <1>1, <1>4, <2>1, AheadRange
  <2>2. CASE After(oPos) # ack
    <3>1. Ahead(ack, After(oPos)) = Ahead(ack, oPos) + 1
      BY <1>1, <2>2, HeadOn
    <3> QED
      BY <1>1, <1>4, <3>1
  <2> QED
    BY <2>1, <2>2
<1>8. /\ Ahead(oPos, pos)' = d - 1 /\ Ahead(oPos, oAck)' = k - 1
      /\ Ahead(ack, oPos)' = Ahead(ack, After(oPos)) /\ Ahead(ack, pos)' = Ahead(ack, pos)
      /\ \A p : Ahead(oPos, p)' = Ahead(After(oPos), p)
  BY <1>2, <1>6 DEF Ahead, Place, Cells
<1>9. PipeBetween'
  BY <1>1, <1>4, <1>7, <1>8 DEF PipeBetween
<1>10. ASSUME NEW p \in Position, Unsent(p)'
       PROVE  /\ p # oPos /\ Unsent(p) /\ Ahead(oPos, p) > 0
              /\ Ahead(oPos, p)' = Ahead(oPos, p) - 1
  <2>1. /\ Ahead(oPos, p) \in 0 .. Cells - 1 /\ Ahead(After(oPos), p) \in 0 .. Cells - 1
        /\ Ahead(After(oPos), p) < d - 1
    BY <1>1, <1>6, <1>8, <1>10, AheadRange DEF Unsent
  <2>2. p # oPos
    <3> SUFFICES ASSUME p = oPos PROVE FALSE
      OBVIOUS
    <3>1. Ahead(After(oPos), oPos) = Cells - 1
      <4>1. After(oPos) # oPos /\ Ahead(After(oPos), oPos) + Ahead(oPos, After(oPos)) = Cells
        <5>1. Cells >= 2
          BY <1>1, CellCount DEF Sizes
        <5>2. After(oPos) # oPos
          BY <1>1, <1>4, <5>1, HeadOn
        <5>3. Ahead(After(oPos), oPos) # 0 /\ Ahead(After(oPos), After(oPos)) = 0
              /\ Ahead(After(oPos), oPos) \in 0 .. Cells - 1
          BY <1>1, <1>6, <5>2, AheadRange
        <5> QED
          BY <1>1, <1>6, <5>2, <5>3, AheadSum
      <4>2. Ahead(oPos, After(oPos)) = 1
        BY <1>1, <1>4, <4>1, HeadOn
      <4>3. Ahead(After(oPos), oPos) \in 0 .. Cells - 1
        BY <1>1, <1>6, AheadRange
      <4> QED
        BY <1>1, <4>1, <4>2, <4>3
    <3> QED
      BY <1>1, <1>4, <2>1, <3>1
  <2>3. Ahead(oPos, p) # 0
    BY <1>1, <2>2, AheadRange
  <2> QED
    BY <1>1, <1>4, <1>6, <1>8, <2>1, <2>2, <2>3 DEF Unsent
<1>11. Unsent(oPos)
  BY <1>4 DEF Unsent
<1>12. /\ last < mem[oPos] /\ mem[oPos] <= arrived /\ mem[oPos] \in 0 .. MaxCell
       /\ \A p \in Position : Unsent(p) => last < mem[p] /\ mem[p] <= arrived
       /\ \A p, q \in Position :
             Unsent(q) /\ Ahead(oPos, p) < Ahead(oPos, q) => mem[p] < mem[q]
  BY <1>1, <1>3, <1>11 DEF PipeInv, PipeNewer
<1>13. PipeNewer'
  <2>1. last' <= arrived'
    BY <1>2, <1>12
  <2>2. ASSUME NEW p \in Position, Unsent(p)' PROVE last' < mem'[p] /\ mem'[p] <= arrived'
    <3>1. Unsent(p) /\ Ahead(oPos, oPos) < Ahead(oPos, p)
      BY <1>4, <1>10, <2>2
    <3> QED
      BY <1>1, <1>2, <1>12, <3>1
  <2>3. ASSUME NEW p \in Position, NEW q \in Position, Unsent(q)',
               Ahead(oPos, p)' < Ahead(oPos, q)'
        PROVE  mem'[p] < mem'[q]
    <3>1. /\ Ahead(oPos, p) \in 0 .. Cells - 1 /\ Ahead(oPos, q) \in 0 .. Cells - 1
          /\ Ahead(oPos, p)' \in 0 .. Cells - 1 /\ Ahead(oPos, q)' \in 0 .. Cells - 1
          /\ Ahead(oPos, pos)' = d - 1
      BY <1>1, <1>6, <1>8, AheadRange
    <3>2. Unsent(p)'
      BY <1>1, <1>4, <1>8, <2>3, <3>1 DEF Unsent
    <3>3. Unsent(q) /\ Ahead(oPos, p) < Ahead(oPos, q)
      BY <1>1, <1>10, <2>3, <3>1, <3>2
    <3> QED
      BY <1>2, <1>12, <3>3
  <2> QED
    BY <2>1, <2>2, <2>3 DEF PipeNewer
<1>14. ~dropped => /\ last' = base' + sent' /\ arrived' = last' + Ahead(oPos, pos)'
                   /\ \A p \in Position : Unsent(p)' => mem'[p] = last' + 1 + Ahead(oPos, p)'
  <2> SUFFICES ASSUME ~dropped
               PROVE  /\ last' = base' + sent' /\ arrived' = last' + Ahead(oPos, pos)'
                      /\ \A p \in Position : Unsent(p)' => mem'[p] = last' + 1 + Ahead(oPos, p)'
    OBVIOUS
  <2>1. /\ last = base + sent /\ arrived = last + d
        /\ \A p \in Position : Unsent(p) => mem[p] = last + 1 + Ahead(oPos, p)
    BY <1>3 DEF PipeInv, PipeComplete
  <2>2. last' = last + 1
    BY <1>1, <1>2, <1>4, <1>11, <2>1
  <2>3. last' = base' + sent' /\ arrived' = last' + Ahead(oPos, pos)'
    BY <1>1, <1>2, <1>4, <1>8, <2>1, <2>2
  <2>4. ASSUME NEW p \in Position, Unsent(p)' PROVE mem'[p] = last' + 1 + Ahead(oPos, p)'
    <3>1. Ahead(oPos, p) \in 0 .. Cells - 1
      BY <1>1, AheadRange
    <3> QED
      BY <1>1, <1>2, <1>10, <2>1, <2>2, <2>4, <3>1
  <2> QED
    BY <2>3, <2>4
<1> QED
  BY <1>1, <1>2, <1>9, <1>12, <1>13, <1>14 DEF PipeData, PipeComplete

LEMMA PipeDataNext ==
  ASSUME PipeInv, PipePhases', [Pipe!Next]_(Pipe!vars)
  PROVE  PipeData'
<1>1. /\ PipeData /\ PipeBetween
      /\ pos \in Position /\ ack \in Position /\ oPos \in Position /\ oAck \in Position
      /\ arrived \in 0 .. MaxCell /\ Cells \in Nat /\ Sizes
      /\ Ahead(oPos, oPos) = 0 /\ Ahead(oPos, pos) \in 0 .. Cells - 1
  BY PipeTypes, CellCount, AheadRange DEF PipeInv, PipeData
<1>2. CASE Pipe!Arrival
  BY <1>2, PipeStore, PipeDrop DEF Pipe!Arrival
<1>3. CASE Pipe!Send
  BY <1>3, PipeSend
<1>4. CASE Pipe!InputHandler
  <2>1. /\ oAck' = oAck \/ oAck' = pos
        /\ UNCHANGED <<pos, ack, mem, arrived, dropped, pc, oPos, base, sent, last>>
    BY <1>4 DEF Pipe!InputHandler, Pipe!Forwarded, Pipe!history
  <2>2. Flowing' <=> Flowing
    BY <2>1 DEF Flowing
  <2>3. Flowing => Ahead(oPos, oAck') <= Ahead(oPos, pos)
    BY <1>1, <2>1 DEF PipeBetween
  <2> QED
    BY <1>1, <2>1, <2>2, <2>3, PipeDataStays DEF PipeBetween
<1>5. CASE Pipe!OutputHandler
  <2>1. /\ ack' = ack \/ ack' = oPos
        /\ UNCHANGED <<pos, mem, arrived, dropped, pc, oPos, oAck, base, sent, last>>
    BY <1>5 DEF Pipe!OutputHandler, Pipe!WriteAck, Pipe!history
  <2>2. Flowing' <=> Flowing
    BY <2>1 DEF Flowing
  <2>3. Flowing => Ahead(ack', oPos) <= Ahead(ack', pos)
    BY <1>1, <2>1 DEF PipeBetween
  <2> QED
    BY <1>1, <2>1, <2>2, <2>3, PipeDataStays DEF PipeBetween
<1>6. CASE Pipe!StartOutput
  <2>1. pc' = "starting"
    BY <1>6 DEF Pipe!StartOutput
  <2> QED
    BY <2>1 DEF PipeData, PipeBetween, PipeNewer, PipeComplete, Flowing
<1>7. CASE Pipe!StartInput
  <2>1. /\ oPos = Pipe!Origin /\ oAck = Pipe!Origin /\ pos' = Pipe!Origin
        /\ ack' = Pipe!Origin /\ oPos' = oPos /\ oAck' = oAck
        /\ arrived' = arrived /\ base' = arrived /\ sent' = 0 /\ last' = arrived
    BY <1>7 DEF Pipe!StartInput, Pipe!HwStart, Pipe!outVars, PipeInv, PipePhases
  <2>2. Ahead(oPos, pos)' = 0 /\ Ahead(ack, oPos)' = 0 /\ Ahead(oPos, oAck)' = 0
        /\ Ahead(ack, pos)' = 0 /\ \A p : Ahead(oPos, p)' = Ahead(oPos, p)
    <3>1. Ahead(Pipe!Origin, Pipe!Origin) = 0
      BY <1>1, PipeRing
    <3>2. \A p : Ahead(oPos, p)' = Ahead(oPos, p)
      BY <2>1 DEF Ahead, Place, Cells
    <3>3. /\ Ahead(oPos, pos)' = Ahead(Pipe!Origin, Pipe!Origin)
          /\ Ahead(ack, oPos)' = Ahead(Pipe!Origin, Pipe!Origin)
          /\ Ahead(oPos, oAck)' = Ahead(Pipe!Origin, Pipe!Origin)
          /\ Ahead(ack, pos)' = Ahead(Pipe!Origin, Pipe!Origin)
      BY <2>1 DEF Ahead, Place, Cells
    <3> QED
      BY <3>1, <3>2, <3>3
  <2>3. ASSUME NEW p \in Position PROVE ~Unsent(p)'
    <3>1. Ahead(oPos, p) \in 0 .. Cells - 1
      BY <1>1, AheadRange
    <3> QED
      BY <2>2, <3>1 DEF Unsent
  <2> QED
    BY <1>1, <2>1, <2>2, <2>3 DEF PipeData, PipeBetween, PipeNewer, PipeComplete
<1>8. CASE Pipe!StopInput
  <2>1. /\ pc = "started"
        /\ UNCHANGED <<pos, ack, mem, arrived, dropped, oPos, oAck, base, sent, last>>
    BY <1>8 DEF Pipe!StopInput, Pipe!HwStop, Pipe!outVars, Pipe!history
  <2> QED
    BY <1>1, <2>1, PipeDataStays DEF PipeBetween, Flowing
<1>9. CASE Pipe!StopOutput
  <2>1. pc' = "stopped"
    BY <1>9 DEF Pipe!StopOutput
  <2> QED
    BY <2>1 DEF PipeData, PipeBetween, PipeNewer, PipeComplete, Flowing
<1>10. CASE UNCHANGED Pipe!vars
  <2>1. UNCHANGED <<pos, ack, mem, arrived, dropped, pc, oPos, oAck, base, sent, last>>
    BY <1>10 DEF Pipe!vars, Pipe!hwVars, Pipe!outVars, Pipe!history
  <2>2. Flowing' <=> Flowing
    BY <2>1 DEF Flowing
  <2> QED
    BY <1>1, <2>1, <2>2, PipeDataStays DEF PipeBetween
<1> QED
  BY <1>2, <1>3, <1>4, <1>5, <1>6, <1>7, <1>8, <1>9, <1>10 DEF Pipe!Next

(* Whatever the interrupts do, the two engines follow each other round the  *)
(* ring, and what lies between them is in order.                            *)
THEOREM PipeInvariant == Sizes /\ Pipe!Spec => []PipeInv
<1>1. Sizes /\ Pipe!Init => PipeInv
  BY PipeInit
<1>2. PipeInv /\ [Pipe!Next]_(Pipe!vars) => PipeInv'
  BY PipeTypeNext, PipePhasesNext, PipeDataNext DEF PipeInv, PipeData
<1> QED
  BY <1>1, <1>2, PTL DEF Pipe!Spec

(* Nothing is lost, repeated or reordered between the tuner input and the   *)
(* device while the ring does not overflow, and nothing old is ever sent.   *)
THEOREM PipeKeepsOrder == Sizes /\ Pipe!Spec => Pipe!InOrder
<1>1. ASSUME PipeInv, [Pipe!Next]_(Pipe!vars), sent' = sent + 1
      PROVE  last' > last /\ (~dropped => last' = base + sent')
  <2>1. sent \in Nat
    BY <1>1, PipeTypes DEF PipeInv
  <2>2. Pipe!Send \/ sent' = sent \/ sent' = 0
    BY <1>1 DEF Pipe!Next, Pipe!Arrival, Pipe!InputHandler, Pipe!OutputHandler,
                Pipe!StartOutput, Pipe!StartInput, Pipe!StopInput, Pipe!StopOutput,
                Pipe!history, Pipe!vars
  <2> QED
    BY <1>1, <2>1, <2>2, PipeSend
<1>2. PipeInv /\ [Pipe!Next]_(Pipe!vars)
        => [sent' = sent + 1 => /\ last' > last
                                /\ ~dropped => last' = base + sent']_(Pipe!vars)
  BY <1>1
<1> QED
  BY <1>2, PipeInvariant, PTL DEF Pipe!Spec, Pipe!InOrder

(* The input's engine never stores into what the output has still to send.  *)
THEOREM PipeKeepsUnsent == Sizes /\ Pipe!Spec => Pipe!NoOverwriteUnsent
<1>1. ASSUME PipeInv, [Pipe!Next]_(Pipe!vars),
             arrived' = arrived + 1, mem' # mem, oPos # oAck
      PROVE  mem'[oPos] = mem[oPos]
  <2>1. /\ pos \in Position /\ oPos \in Position /\ oAck \in Position
        /\ mem \in [Position -> 0 .. MaxCell] /\ arrived \in 0 .. MaxCell /\ Sizes
    BY <1>1, PipeTypes DEF PipeInv
  <2>2. Pipe!HwStore
    BY <1>1 DEF Pipe!Next, Pipe!Arrival, Pipe!HwDrop, Pipe!Send, Pipe!InputHandler,
                Pipe!OutputHandler, Pipe!StartOutput, Pipe!StartInput, Pipe!HwStart,
                Pipe!StopInput, Pipe!HwStop, Pipe!StopOutput, Pipe!vars, Pipe!hwVars
  <2>3. Flowing /\ mem' = [mem EXCEPT ![pos] = arrived + 1]
    BY <1>1, <2>2 DEF Pipe!HwStore, PipeInv, PipePhases, Flowing
  <2>4. Ahead(oPos, oAck) <= Ahead(oPos, pos)
    BY <1>1, <2>3 DEF PipeInv, PipeBetween
  <2>5. pos # oPos
    BY <1>1, <2>1, <2>4, AheadRange, CellCount
  <2> QED
    BY <2>1, <2>3, <2>5
<1>2. PipeInv /\ [Pipe!Next]_(Pipe!vars)
        => [arrived' = arrived + 1 /\ mem' # mem /\ oPos # oAck
              => mem'[oPos] = mem[oPos]]_(Pipe!vars)
  BY <1>1
<1> QED
  BY <1>2, PipeInvariant, PTL DEF Pipe!Spec, Pipe!NoOverwriteUnsent

-----------------------------------------------------------------------------
(* An input that is not redirected: InputWork.                              *)

LEMMA WorkRing ==
  /\ Work!Position = Position
  /\ \A p : Work!Step(p) = After(p)
  /\ \A i, o : Work!At(i, o) = [idx |-> i, off |-> o]
  /\ \A i : Work!NextBuf(i) = (i + 1) % Num
  /\ Sizes => Work!Origin \in Position
<1>1. Work!Position = Position
  BY DEF Work!Position, Position
<1>2. ASSUME NEW p PROVE Work!Step(p) = After(p)
  BY DEF Work!Step, Work!At, Work!NextBuf, After
<1>3. Sizes => Work!Origin \in Position
  BY DEF Sizes, Position, Work!Origin, Work!At
<1>4. \A i : Work!NextBuf(i) = (i + 1) % Num
  BY DEF Work!NextBuf
<1>5. \A i, o : Work!At(i, o) = [idx |-> i, off |-> o]
  BY DEF Work!At
<1> QED
  BY <1>1, <1>2, <1>3, <1>4, <1>5

\* Which parts run, what the worker has seen of an overflow, and where the
\* engine stands after one.
WorkPhases ==
  /\ (running <=> feeds > 0) /\ (hwRun <=> running)
  /\ pc # "idle" => running
  /\ running => ack = Work!At(cbuf, 0)
  /\ running /\ ovf => IF gap THEN After(pos) = ack ELSE pos = ack
  /\ pc \in {"loss", "test", "filter"} /\ ctrl => ovf
  /\ pc = "filter" => Work!Ready

\* The worker's copy of the engine's position is old, but not too old.
WorkSeen == pc \notin {"idle", "stat"} => Ahead(ack, stat) <= Stock

WorkLoss == packetLoss <= lost

WorkSizes == Sizes /\ MaxFeeds \in Nat \ {0} /\ Width \in Nat \ {0, 1}

WorkData == WorkSeen /\ (running => StockRight)

WorkInv == WorkSizes /\ Work!TypeOK /\ WorkPhases /\ WorkData /\ WorkLoss

LEMMA WorkTypes ==
  ASSUME WorkSizes, Work!TypeOK
  PROVE  /\ Sizes /\ gap \in BOOLEAN /\ ovf \in BOOLEAN /\ ctrl \in BOOLEAN
         /\ pos \in Position /\ ack \in Position /\ stat \in Position
         /\ cbuf \in 0 .. Num - 1 /\ mem \in [Position -> 0 .. MaxCell]
         /\ arrived \in 0 .. MaxCell /\ base \in 0 .. MaxCell /\ taken \in Nat
         /\ last \in 0 .. MaxCell /\ lost \in Nat /\ packetLoss \in Nat
         /\ feeds \in Nat /\ Cells \in Nat /\ Cells >= 2 * Size /\ Size \in Nat \ {0}
<1>1. Cells \in Nat /\ Cells >= 2 * Size /\ Size \in Nat \ {0}
  BY CellCount DEF WorkSizes, Sizes
<1> QED
  BY <1>1, WorkRing DEF WorkSizes, Work!TypeOK, Work!HwTypeOK

\* The extended loss counter never runs ahead, and is right when it is not
\* more than one turn of the hardware counter behind.
LEMMA ExtendedCount ==
  ASSUME WorkSizes, NEW old \in Nat, NEW new \in Nat, old <= new
  PROVE  /\ Work!Extended(old, new % Width) \in Nat
         /\ Work!Extended(old, new % Width) <= new
         /\ new - old < Width => Work!Extended(old, new % Width) = new
<1>1. Width \in Nat \ {0} /\ Width > 0
  BY DEF WorkSizes
<1>2. /\ old % Width \in 0 .. Width - 1 /\ new % Width \in 0 .. Width - 1
      /\ old \div Width \in Nat /\ new \div Width \in Nat
  BY <1>1
<1>3. PICK j \in Nat, r \in 0 .. Width - 1 : j = old \div Width /\ r = old % Width
  BY <1>2
<1>4. PICK k \in Nat, s \in 0 .. Width - 1 : k = new \div Width /\ s = new % Width
  BY <1>2
<1>5. old = j * Width + r /\ new = k * Width + s
  BY <1>1, <1>3, <1>4, DivMod
<1> DEFINE x == j * Width
           y == k * Width
<1>6. x \in Nat /\ y \in Nat /\ old = x + r /\ new = y + s
  BY <1>1, <1>3, <1>4, <1>5, OneMore
<1>7. /\ j < k => x + Width <= y
      /\ k < j => y + Width <= x
      /\ j = k => x = y
  BY <1>1, <1>3, <1>4, Apart
<1>8. j + 1 < k => x + Width + Width <= y
  <2>1. (j + 1) * Width = x + Width /\ j + 1 \in Nat
    BY <1>1, <1>3, OneMore
  <2>2. j + 1 < k => (j + 1) * Width + Width <= y
    BY <1>1, <1>3, <1>4, <2>1, Apart
  <2> QED
    BY <2>1, <2>2
<1>9. j + 1 = k => y = x + Width
  BY <1>1, <1>3, OneMore
<1>10. Work!Extended(old, new % Width) = (old - r) + s + (IF s < r THEN Width ELSE 0)
  BY <1>3, <1>4 DEF Work!Extended
<1> HIDE DEF x, y
<1> QED
  BY <1>1, <1>3, <1>4, <1>6, <1>7, <1>8, <1>9, <1>10

LEMMA WorkInit == ASSUME WorkSizes PROVE Work!Init => WorkInv
<1> SUFFICES ASSUME Work!Init PROVE WorkInv
  OBVIOUS
<1>1. pc = "idle" /\ ~running /\ feeds = 0 /\ ~hwRun /\ packetLoss = 0 /\ lost = 0
  BY DEF Work!Init, Work!HwInit
<1>2. WorkPhases /\ WorkData /\ WorkLoss
  BY <1>1 DEF Work!Init, Work!HwInit, WorkPhases, WorkData, WorkSeen, WorkLoss
<1>3. Work!TypeOK
  <2>1. Work!Origin \in Work!Position /\ 0 \in 0 .. MaxCell /\ 0 \in 0 .. Num - 1
        /\ 0 \in 0 .. MaxFeeds
    BY WorkRing DEF WorkSizes, Sizes
  <2> QED
    BY <2>1 DEF Work!Init, Work!HwInit, Work!TypeOK, Work!HwTypeOK
<1> QED
  BY <1>2, <1>3 DEF WorkInv

\* UpdateLoss brings the counter up to date, or nearer to it.
LEMMA WorkLossUpdate ==
  ASSUME WorkInv, Work!UpdateLoss
  PROVE  /\ packetLoss' \in Nat /\ packetLoss' <= lost
         /\ lost - packetLoss < Width => packetLoss' = lost
<1>1. packetLoss \in Nat /\ lost \in Nat /\ packetLoss <= lost /\ WorkSizes
  BY WorkTypes DEF WorkInv, WorkLoss
<1> QED
  BY <1>1, ExtendedCount DEF Work!UpdateLoss, Work!TsStat

LEMMA WorkLossNext ==
  ASSUME WorkInv, [Work!Next]_(Work!vars)
  PROVE  WorkLoss'
<1>1. packetLoss \in Nat /\ lost \in Nat /\ packetLoss <= lost
  BY WorkTypes DEF WorkInv, WorkLoss
<1>2. CASE Work!Arrival
  BY <1>1, <1>2 DEF Work!Arrival, Work!dmaVars, WorkLoss
<1>3. CASE Work!StartFeed
  BY <1>1, <1>3 DEF Work!StartFeed, Work!InputStart, Work!ResetDma, Work!dmaVars, Work!history,
                    WorkLoss
<1>4. CASE Work!StopFeed
  BY <1>1, <1>4, WorkLossUpdate DEF Work!StopFeed, Work!InputStop, Work!dmaVars, Work!history,
                    WorkLoss
<1>5. CASE Work!InputHandler
  BY <1>1, <1>5 DEF Work!InputHandler, Work!dmaVars, Work!history, WorkLoss
<1>6. CASE Work!ReadLoss
  BY <1>1, <1>6, WorkLossUpdate DEF Work!ReadLoss, Work!history, WorkLoss
<1>7. CASE \/ Work!InputProc \/ Work!ReadEntryCtrl \/ Work!Test \/ Work!Filter
           \/ Work!ReadStat \/ Work!ReadCtrl
  BY <1>1, <1>7 DEF Work!InputProc, Work!ReadEntryCtrl, Work!Test, Work!Filter,
                    Work!ReadStat, Work!ReadCtrl, Work!dmaVars, Work!history, WorkLoss
<1>8. CASE UNCHANGED Work!vars
  BY <1>1, <1>8 DEF Work!vars, Work!dmaVars, Work!history, WorkLoss
<1> QED
  BY <1>2, <1>3, <1>4, <1>5, <1>6, <1>7, <1>8 DEF Work!Next, Work!Worker

LEMMA WorkTypeNext ==
  ASSUME WorkInv, [Work!Next]_(Work!vars)
  PROVE  Work!TypeOK'
<1>1. /\ \A p \in Work!Position : Work!Step(p) \in Work!Position
      /\ Work!Origin \in Work!Position /\ 0 \in 0 .. Num - 1 /\ 0 \in 0 .. MaxCell
      /\ \A c \in 0 .. Num - 1 : /\ Work!NextBuf(c) \in 0 .. Num - 1
                                /\ Work!At(c, 0) \in Work!Position
                                /\ Work!At(c, Size - 1) \in Work!Position
      /\ Work!TypeOK
  <2>1. Sizes /\ Work!TypeOK
    BY DEF WorkInv, WorkSizes
  <2>2. \A p \in Work!Position : Work!Step(p) \in Work!Position
    BY <2>1, WorkRing, PlaceAfter
  <2>3. ASSUME NEW c \in 0 .. Num - 1
        PROVE  /\ Work!NextBuf(c) \in 0 .. Num - 1
               /\ Work!At(c, 0) \in Work!Position
               /\ Work!At(c, Size - 1) \in Work!Position
    <3>1. (c + 1) % Num \in 0 .. Num - 1
      BY <2>1, NextBuffer
    <3>2. 0 \in 0 .. Size - 1 /\ Size - 1 \in 0 .. Size - 1
      BY <2>1 DEF Sizes
    <3> QED
      BY <3>1, <3>2, WorkRing DEF Work!Position
  <2>4. Work!Origin \in Work!Position /\ 0 \in 0 .. Num - 1 /\ 0 \in 0 .. MaxCell
    BY <2>1, WorkRing DEF Sizes
  <2> QED
    BY <2>1, <2>2, <2>3, <2>4
<1>2. CASE Work!Arrival
  <2>1. arrived + 1 \in 0 .. MaxCell
    BY <1>1, <1>2 DEF WorkInv, WorkSizes, Sizes, Work!Arrival, Work!HwStore, Work!HwDrop,
                      Work!TypeOK, Work!HwTypeOK
  <2>2. lost' \in Nat
    BY <1>1, <1>2 DEF Work!Arrival, Work!TypeOK
  <2>3. Work!HwTypeOK'
    BY <1>1, <1>2, <2>1
       DEF Work!Arrival, Work!HwStore, Work!HwDrop, Work!TypeOK, Work!HwTypeOK
  <2> QED
    BY <1>1, <1>2, <2>2, <2>3 DEF Work!Arrival, Work!TypeOK, Work!dmaVars
<1>3. CASE Work!StartFeed
  <2>1. feeds' \in 0 .. MaxFeeds
    BY <1>1, <1>3 DEF WorkInv, WorkSizes, Work!StartFeed, Work!TypeOK
  <2>2. CASE Work!InputStart
    BY <1>1, <2>1, <2>2 DEF Work!InputStart, Work!ResetDma, Work!HwStart, Work!TypeOK,
       Work!HwTypeOK
  <2>3. CASE UNCHANGED <<Work!hwVars, Work!dmaVars, work, pc, Work!history>>
    BY <1>1, <2>1, <2>3 DEF Work!hwVars, Work!dmaVars, Work!history, Work!TypeOK, Work!HwTypeOK
  <2> QED
    BY <1>3, <2>2, <2>3 DEF Work!StartFeed
<1>4. CASE Work!StopFeed
  <2>1. feeds' \in 0 .. MaxFeeds
    BY <1>1, <1>4 DEF WorkInv, WorkSizes, Work!StopFeed, Work!TypeOK
  <2>2. CASE Work!InputStop
    BY <1>1, <2>1, <2>2, WorkLossUpdate DEF Work!InputStop, Work!HwStop, Work!history,
       Work!TypeOK, Work!HwTypeOK
  <2>3. CASE UNCHANGED <<Work!hwVars, Work!dmaVars, work, pc, Work!history>>
    BY <1>1, <2>1, <2>3 DEF Work!hwVars, Work!dmaVars, Work!history, Work!TypeOK, Work!HwTypeOK
  <2> QED
    BY <1>4, <2>2, <2>3 DEF Work!StopFeed
<1>5. CASE Work!InputHandler
  BY <1>1, <1>5 DEF Work!InputHandler, Work!dmaVars, Work!history, Work!TypeOK, Work!HwTypeOK
<1>6. CASE Work!InputProc \/ Work!ReadEntryCtrl \/ Work!ReadLoss
  BY <1>1, <1>6, WorkLossUpdate DEF Work!InputProc, Work!ReadEntryCtrl, Work!ReadLoss,
     Work!hwVars, Work!history, Work!TypeOK, Work!HwTypeOK
<1>7. CASE Work!Test
  BY <1>1, <1>7 DEF Work!Test, Work!hwVars, Work!dmaVars, Work!history, Work!TypeOK,
     Work!HwTypeOK
<1>8. CASE Work!Filter
  <2>1. mem[Work!At(cbuf, Size - 1)] \in 0 .. MaxCell /\ taken + Size \in Nat
        /\ cbuf' \in 0 .. Num - 1
    BY <1>1, <1>8 DEF Work!Filter, Work!TypeOK, Work!HwTypeOK, WorkInv, WorkSizes, Sizes
  <2>2. ack' \in Work!Position
    BY <1>1, <1>8, <2>1 DEF Work!Filter, Work!WriteAck, Work!Released
  <2> QED
    BY <1>1, <1>8, <2>1, <2>2 DEF Work!Filter, Work!WriteAck, Work!TypeOK, Work!HwTypeOK
<1>9. CASE Work!ReadStat \/ Work!ReadCtrl
  BY <1>1, <1>9 DEF Work!ReadStat, Work!ReadCtrl, Work!hwVars, Work!history, Work!TypeOK,
     Work!HwTypeOK
<1>10. CASE UNCHANGED Work!vars
  BY <1>1, <1>10 DEF Work!vars, Work!hwVars, Work!dmaVars, Work!history, Work!TypeOK,
     Work!HwTypeOK
<1> QED
  BY <1>2, <1>3, <1>4, <1>5, <1>6, <1>7, <1>8, <1>9, <1>10 DEF Work!Next, Work!Worker

LEMMA WorkPhasesNext ==
  ASSUME WorkInv, [Work!Next]_(Work!vars)
  PROVE  WorkPhases'
<1>1. WorkPhases /\ feeds \in Nat /\ gap \in BOOLEAN /\ ovf \in BOOLEAN
  BY WorkTypes DEF WorkInv
<1>2. CASE Work!Arrival
  <2>1. Work!HwStore => ~(pc \in {"loss", "test", "filter"} /\ ctrl)
    BY <1>1 DEF Work!HwStore, Work!Full, WorkPhases
  <2> QED
    BY <1>1, <1>2, <2>1, WorkRing
       DEF Work!Arrival, Work!HwStore, Work!HwDrop, Work!Full, Work!dmaVars, Work!Ready,
           Work!At, WorkPhases
<1>3. CASE Work!StartFeed
  BY <1>1, <1>3 DEF Work!StartFeed, Work!InputStart, Work!ResetDma, Work!HwStart, Work!Origin,
     Work!At, Work!Ready, Work!hwVars, Work!dmaVars, WorkPhases
<1>4. CASE Work!StopFeed
  BY <1>1, <1>4 DEF Work!StopFeed, Work!InputStop, Work!HwStop, Work!At, Work!Ready,
     Work!hwVars, Work!dmaVars, WorkPhases
<1>5. CASE Work!InputHandler
  BY <1>1, <1>5 DEF Work!InputHandler, Work!At, Work!Ready, Work!dmaVars, WorkPhases
<1>6. CASE Work!InputProc \/ Work!ReadEntryCtrl \/ Work!ReadLoss
  BY <1>1, <1>6 DEF Work!InputProc, Work!ReadEntryCtrl, Work!ReadLoss, Work!At, Work!Ready,
     Work!hwVars, WorkPhases
<1>7. CASE Work!Test
  BY <1>1, <1>7 DEF Work!Test, Work!At, Work!Ready, Work!hwVars, Work!dmaVars, WorkPhases
<1>8. CASE Work!Filter
  BY <1>1, <1>8 DEF Work!Filter, Work!WriteAck, Work!Released, Work!At, WorkPhases
<1>9. CASE Work!ReadStat
  BY <1>1, <1>9 DEF Work!ReadStat, Work!At, Work!hwVars, WorkPhases
<1>10. CASE Work!ReadCtrl
  BY <1>1, <1>10 DEF Work!ReadCtrl, Work!At, Work!hwVars, WorkPhases
<1>11. CASE UNCHANGED Work!vars
  BY <1>1, <1>11 DEF Work!vars, Work!hwVars, Work!dmaVars, Work!At, Work!Ready, WorkPhases
<1> QED
  BY <1>2, <1>3, <1>4, <1>5, <1>6, <1>7, <1>8, <1>9, <1>10, <1>11 DEF Work!Next, Work!Worker

\* Whatever leaves the engine and the data alone.
LEMMA WorkDataStays ==
  ASSUME WorkData, running' => running,
         UNCHANGED <<gap, pos, ack, ovf, mem, arrived, dropped, base, taken, last>>,
         pc' \notin {"idle", "stat"} => Ahead(ack, stat') <= Stock
  PROVE  WorkData'
<1>1. Ahead(ack, stat)' = Ahead(ack, stat')
  BY DEF Ahead, Place, Cells
<1> QED
  BY <1>1, StockStays DEF WorkData, WorkSeen

LEMMA WorkTyped == WorkInv => RingTyped
  BY WorkTypes DEF WorkInv, RingTyped

LEMMA WorkArrival ==
  ASSUME WorkInv, Work!Arrival
  PROVE  WorkData'
<1>1. Sizes /\ RingTyped /\ ack \in Position /\ stat \in Position /\ Stock \in 0 .. Cells
      /\ Cells \in Nat
  BY WorkTypes, WorkTyped, StockRange DEF WorkInv
<1>2. running /\ StockRight
  BY DEF WorkInv, WorkPhases, WorkData, Work!Arrival, Work!HwStore, Work!HwDrop
<1>3. UNCHANGED <<stat, base, taken, last, pc, running>>
  BY DEF Work!Arrival, Work!dmaVars
<1>4. /\ Stock' \in {Stock, Stock + 1} /\ \A p : Ahead(ack, p)' = Ahead(ack, p)
      /\ StockRight'
  <2>1. CASE Work!HwStore
    <3>1. /\ ~ovf /\ ~(gap /\ After(pos) = ack) /\ arrived' = arrived + 1
          /\ mem' = [mem EXCEPT ![pos] = arrived + 1] /\ pos' = After(pos)
          /\ (ovf' <=> ~gap /\ After(pos) = ack) /\ UNCHANGED <<gap, ack, dropped>>
      BY <2>1, WorkRing DEF Work!HwStore, Work!Full
    <3> QED
      BY <1>1, <1>2, <1>3, <3>1, StockStore
  <2>2. CASE Work!HwDrop
    <3>1. /\ gap \/ ovf
          /\ arrived' = arrived + 1 /\ dropped' /\ ovf' /\ UNCHANGED <<gap, pos, ack, mem>>
      BY <2>2 DEF Work!HwDrop, Work!Full
    <3> QED
      BY <1>1, <1>2, <1>3, <3>1, StockDrop
  <2> QED
    BY <2>1, <2>2 DEF Work!Arrival
<1>5. Ahead(ack, stat)' = Ahead(ack, stat) /\ Ahead(ack, stat) \in 0 .. Cells - 1
  <2>1. Ahead(ack, stat)' = Ahead(ack, stat)
    BY <1>3, <1>4 DEF Ahead, Place, Cells
  <2> QED
    BY <1>1, <2>1, AheadRange
<1>6. WorkSeen'
  BY <1>1, <1>3, <1>4, <1>5 DEF WorkInv, WorkData, WorkSeen
<1> QED
  BY <1>4, <1>6 DEF WorkData

\* A buffer the worker goes through is stored as a whole.
LEMMA BufferStored ==
  ASSUME WorkInv, pc = "filter"
  PROVE  /\ ack = Work!At(cbuf, 0) /\ ack = [idx |-> cbuf, off |-> 0] /\ running
         /\ Stock >= Size
         /\ ~Work!Full => \A p \in Position : p.idx = cbuf => p # pos
<1>1. /\ Sizes /\ pos \in Position /\ ack \in Position /\ stat \in Position
      /\ cbuf \in 0 .. Num - 1 /\ Cells \in Nat /\ Cells >= 2 * Size /\ Size \in Nat \ {0}
      /\ gap \in BOOLEAN /\ ovf \in BOOLEAN /\ Stock \in 0 .. Cells
  BY WorkTypes, WorkTyped, StockRange DEF WorkInv
<1>2. /\ running /\ ack = Work!At(cbuf, 0) /\ (cbuf # stat.idx \/ ovf)
      /\ ovf => IF gap THEN After(pos) = ack ELSE pos = ack
  BY DEF WorkInv, WorkPhases, Work!Ready
<1>3. ack = [idx |-> cbuf, off |-> 0] /\ Ahead(ack, stat) <= Stock
  BY <1>2, WorkRing DEF WorkInv, WorkData, WorkSeen
<1>4. CASE ovf
  <2>1. gap => Ahead(ack, pos) = Cells - 1
    BY <1>1, <1>2, <1>4, HeadOn
  <2>2. Stock >= Size
    BY <1>1, <1>4, <2>1 DEF Stock
  <2> QED
    BY <1>2, <1>3, <1>4, <2>2 DEF Work!Full
<1>5. CASE ~ovf
  <2>1. Ahead(ack, stat) >= Size
    BY <1>1, <1>2, <1>3, <1>5, BufferCells
  <2>2. Ahead(ack, stat) \in 0 .. Cells - 1
    BY <1>1, AheadRange
  <2>3. Stock >= Size /\ Stock = Ahead(ack, pos)
    BY <1>1, <1>3, <1>5, <2>1, <2>2 DEF Stock
  <2>4. pos.off \in Nat /\ pos.off < Size /\ 0 \in 0 .. Size - 1
    BY <1>1 DEF Position
  <2>5. pos.idx = cbuf => Ahead(ack, pos) = pos.off
    BY <1>1, <1>3, <2>4, BufferCells
  <2>6. pos.idx # cbuf
    BY <1>1, <2>3, <2>5, <2>4
  <2> QED
    BY <1>2, <1>3, <2>3, <2>6
<1> QED
  BY <1>1, <1>4, <1>5

LEMMA WorkFilter ==
  ASSUME WorkInv, Work!Filter
  PROVE  /\ WorkData'
         /\ ~dropped => last' = base + taken'
         /\ mem[Work!At(cbuf, 0)] > last
         /\ \A o \in 0 .. Size - 1 : mem[Work!At(cbuf, o)] >= mem[Work!At(cbuf, 0)] + o
<1>1. /\ Sizes /\ RingTyped /\ cbuf \in 0 .. Num - 1 /\ Size \in Nat \ {0}
      /\ 0 \in 0 .. Size - 1 /\ mem \in [Position -> 0 .. MaxCell] /\ ack \in Position
      /\ last \in 0 .. MaxCell /\ base \in 0 .. MaxCell /\ taken \in Nat
      /\ Stock \in 0 .. Cells /\ Cells \in Nat
  BY WorkTypes, WorkTyped, StockRange DEF WorkInv
<1> DEFINE b == [idx |-> (cbuf + 1) % Num, off |-> 0]
           l == [idx |-> cbuf, off |-> Size - 1]
<1>2. /\ pc = "filter" /\ pc' = "stat" /\ ~ovf' /\ ack' = b /\ last' = mem[l]
      /\ taken' = taken + Size
      /\ UNCHANGED <<gap, pos, mem, arrived, dropped, base, running>>
  <2>1. Work!At(cbuf', 0) = b /\ Work!At(cbuf, Size - 1) = l
    BY WorkRing DEF Work!Filter
  <2> QED
    BY <2>1 DEF Work!Filter, Work!WriteAck, Work!Released
<1>3. /\ ack = Work!At(cbuf, 0) /\ ack = [idx |-> cbuf, off |-> 0] /\ running /\ Stock >= Size
      /\ StockRight /\ (ovf /\ ~gap => pos = ack)
  BY <1>2, BufferStored DEF WorkInv, WorkData, WorkPhases
<1>4. b \in Position /\ l \in Position /\ Ahead(ack, b) = Size /\ Ahead(ack, l) = Size - 1
  BY <1>1, <1>3, ChunkEnd
<1> HIDE DEF b, l
<1>5. StockRight'
  BY <1>1, <1>2, <1>3, <1>4, StockRelease
<1>6. WorkData'
  BY <1>2, <1>5 DEF WorkData, WorkSeen
<1>7. InStock(l)
  BY <1>1, <1>3, <1>4 DEF InStock
<1>8. ~dropped => last' = base + taken'
  BY <1>1, <1>2, <1>3, <1>4, <1>7, StockInOrder
<1>9. ASSUME NEW o \in 0 .. Size - 1
      PROVE  /\ Work!At(cbuf, o) \in Position /\ Ahead(ack, Work!At(cbuf, o)) = o
             /\ InStock(Work!At(cbuf, o))
  <2> DEFINE c == [idx |-> cbuf, off |-> o]
  <2>1. c \in Position /\ c.idx = cbuf /\ c.off = o
    BY <1>1 DEF Position
  <2>2. Ahead(ack, c) = o
    BY <1>1, <1>3, <2>1, BufferCells
  <2> QED
    BY <1>1, <1>3, <2>1, <2>2, WorkRing DEF InStock
<1>10. mem[Work!At(cbuf, 0)] > last
  BY <1>1, <1>3, <1>9, StockInOrder
<1>11. ASSUME NEW o \in 0 .. Size - 1
       PROVE  mem[Work!At(cbuf, o)] >= mem[Work!At(cbuf, 0)] + o
  <2>1. mem[Work!At(cbuf, o)] - mem[Work!At(cbuf, 0)] >= o - 0
    BY <1>1, <1>3, <1>9 DEF StockRight, StockNewer
  <2>2. mem[Work!At(cbuf, o)] \in Nat /\ mem[Work!At(cbuf, 0)] \in Nat
    BY <1>1, <1>9
  <2> QED
    BY <2>1, <2>2
<1> QED
  BY <1>6, <1>8, <1>10, <1>11

LEMMA WorkStart ==
  ASSUME WorkInv, Work!InputStart
  PROVE  WorkData'
<1>1. /\ pc' = "idle" /\ ~ovf' /\ pos' = Work!Origin /\ ack' = Work!Origin
      /\ arrived' = arrived /\ base' = arrived /\ taken' = 0 /\ last' = arrived
  BY DEF Work!InputStart, Work!HwStart
<1>2. Sizes /\ Work!Origin \in Position /\ arrived \in Nat
  BY WorkTypes, WorkRing DEF WorkInv
<1>3. StockRight'
  BY <1>1, <1>2, StockEmpty
<1> QED
  BY <1>1, <1>3 DEF WorkData, WorkSeen

LEMMA WorkDataNext ==
  ASSUME WorkInv, [Work!Next]_(Work!vars)
  PROVE  WorkData'
<1>1. /\ WorkData /\ WorkPhases /\ Sizes /\ Stock \in 0 .. Cells /\ Cells \in Nat
      /\ pc \notin {"idle", "stat"} => Ahead(ack, stat) <= Stock
      /\ Ahead(ack, pos) <= Stock
  <2>1. Ahead(ack, pos) <= Stock
    BY StockRange, WorkTyped
  <2> QED
    BY <2>1, StockRange, WorkTyped, WorkTypes DEF WorkInv, WorkData, WorkSeen
<1>2. CASE Work!Arrival
  BY <1>2, WorkArrival
<1>3. CASE Work!StartFeed
  <2>1. CASE UNCHANGED <<Work!hwVars, Work!dmaVars, work, pc, Work!history>>
    BY <1>1, <2>1, WorkDataStays DEF Work!hwVars, Work!dmaVars, Work!history
  <2> QED
    BY <1>3, <2>1, WorkStart DEF Work!StartFeed
<1>4. CASE Work!StopFeed
  <2>1. CASE UNCHANGED <<Work!hwVars, Work!dmaVars, work, pc, Work!history>>
    BY <1>1, <2>1, WorkDataStays DEF Work!hwVars, Work!dmaVars, Work!history
  <2>2. CASE Work!InputStop
    BY <2>2 DEF Work!InputStop, WorkData, WorkSeen
  <2> QED
    BY <1>4, <2>1, <2>2 DEF Work!StopFeed
<1>5. CASE Work!InputHandler
  BY <1>1, <1>5, WorkDataStays DEF Work!InputHandler, Work!dmaVars, Work!history
<1>6. CASE Work!InputProc
  <2>1. pc' \notin {"idle", "stat"} => Ahead(ack, stat') <= Stock
    BY <1>1, <1>6 DEF Work!InputProc
  <2> QED
    BY <1>1, <1>6, <2>1, WorkDataStays DEF Work!InputProc, Work!hwVars, Work!history
<1>7. CASE Work!Test
  BY <1>1, <1>7, WorkDataStays DEF Work!Test, Work!hwVars, Work!dmaVars, Work!history
<1>8. CASE Work!Filter
  BY <1>8, WorkFilter
<1>9. CASE Work!ReadStat
  <2>1. Ahead(ack, stat') <= Stock
    BY <1>1, <1>9 DEF Work!ReadStat
  <2> QED
    BY <1>1, <1>9, <2>1, WorkDataStays DEF Work!ReadStat, Work!hwVars, Work!history
<1>10. CASE Work!ReadEntryCtrl \/ Work!ReadLoss \/ Work!ReadCtrl
  BY <1>1, <1>10, WorkDataStays
     DEF Work!ReadEntryCtrl, Work!ReadLoss, Work!ReadCtrl, Work!hwVars, Work!history
<1>11. CASE UNCHANGED Work!vars
  BY <1>1, <1>11, WorkDataStays DEF Work!vars, Work!hwVars, Work!dmaVars, Work!history
<1> QED
  BY <1>2, <1>3, <1>4, <1>5, <1>6, <1>7, <1>8, <1>9, <1>10, <1>11 DEF Work!Next, Work!Worker

\* An input whose buffers a worker hands to the demux: what is stored in the
\* ring and not yet released is newer than what the demux got, lies in order,
\* and while nothing was dropped is all of what arrived.
THEOREM WorkInvariant == WorkSizes /\ Work!Spec => []WorkInv
<1>1. WorkSizes /\ Work!Init => WorkInv
  BY WorkInit
<1>2. WorkInv /\ [Work!Next]_(Work!vars) => WorkInv'
  <2> SUFFICES ASSUME WorkInv, [Work!Next]_(Work!vars) PROVE WorkInv'
    OBVIOUS
  <2>1. WorkSizes'
    BY DEF WorkInv, WorkSizes, Sizes
  <2> QED
    BY <2>1, WorkTypeNext, WorkPhasesNext, WorkDataNext, WorkLossNext DEF WorkInv
<1> QED
  BY <1>1, <1>2, PTL DEF Work!Spec

\* Every buffer handed to the demux is newer than the one before and in order,
\* overflow or not; without one nothing is left out (input_write_dvb).
THEOREM WorkKeepsOrder == WorkSizes /\ Work!Spec => Work!BuffersInOrder
<1>1. ASSUME WorkInv, [Work!Next]_(Work!vars), taken' > taken
      PROVE  Work!Filter
  <2>1. taken \in Nat
    BY <1>1, WorkTypes DEF WorkInv
  <2>2. ~(0 > taken) /\ ~(taken > taken)
    BY <2>1
  <2> QED
    BY <1>1, <2>2
       DEF Work!Next, Work!Worker, Work!Arrival, Work!StartFeed, Work!InputStart,
           Work!StopFeed, Work!InputStop, Work!InputHandler, Work!InputProc, Work!ReadEntryCtrl,
             Work!ReadLoss, Work!Test,
           Work!ReadStat, Work!ReadCtrl, Work!vars, Work!history
<1>2. WorkInv /\ [Work!Next]_(Work!vars)
        => [taken' > taken =>
              /\ ~dropped => last' = base + taken'
              /\ mem[Work!At(cbuf, 0)] > last
              /\ \A o \in 0 .. Size - 1 :
                   mem[Work!At(cbuf, o)] >= mem[Work!At(cbuf, 0)] + o]_(Work!vars)
  BY <1>1, WorkFilter
<1> QED
  BY <1>2, WorkInvariant, PTL DEF Work!Spec, Work!BuffersInOrder

\* The engine never stores into the buffer the demux is going through: it has
\* not been released, and a full ring takes no cell.
THEOREM WorkKeepsBuffer == WorkSizes /\ Work!Spec => Work!NoOverwriteDuringFilter
<1>1. ASSUME WorkInv, [Work!Next]_(Work!vars), pc = "filter",
             NEW p \in Work!Position, p.idx = cbuf
      PROVE  mem'[p] = mem[p]
  <2>1. CASE Work!HwStore /\ Work!Arrival
    <3>1. mem' = [mem EXCEPT ![pos] = arrived + 1] /\ ~Work!Full
      BY <2>1 DEF Work!HwStore
    <3>2. p # pos
      BY <1>1, <3>1, BufferStored, WorkRing
    <3>3. mem \in [Position -> 0 .. MaxCell] /\ p \in Position
      BY WorkTypes, WorkRing, <1>1 DEF WorkInv
    <3> QED
      BY <3>1, <3>2, <3>3
  <2>2. CASE ~(Work!HwStore /\ Work!Arrival)
    <3>1. mem' = mem
      BY <1>1, <2>2
         DEF Work!Next, Work!Worker, Work!Arrival, Work!HwDrop, Work!StartFeed,
             Work!InputStart, Work!HwStart, Work!StopFeed, Work!InputStop, Work!HwStop,
             Work!InputHandler, Work!InputProc, Work!ReadEntryCtrl,
             Work!ReadLoss, Work!Test, Work!Filter, Work!WriteAck,
             Work!ReadStat, Work!ReadCtrl, Work!vars, Work!hwVars
    <3> QED
      BY <3>1
  <2> QED
    BY <2>1, <2>2
<1>2. WorkInv /\ [Work!Next]_(Work!vars)
        => [pc = "filter" => \A p \in Work!Position : p.idx = cbuf => mem'[p] = mem[p]]_(Work!vars)
  BY <1>1
<1> QED
  BY <1>2, WorkInvariant, PTL DEF Work!Spec, Work!NoOverwriteDuringFilter

\* The loss counter of the driver, extended from the few bits of the hardware,
\* is exact when fewer than Width packets were lost since it was read
\* (update_loss).
THEOREM WorkCountsLoss == WorkSizes /\ Work!Spec => Work!LossExact
<1>1. ASSUME WorkInv, [Work!Next]_(Work!vars), pc = "loss", pc' = "test"
      PROVE  Work!UpdateLoss /\ lost' = lost
  BY <1>1 DEF Work!Next, Work!Worker, Work!Arrival, Work!StartFeed, Work!InputStart,
     Work!StopFeed, Work!InputStop, Work!InputHandler, Work!InputProc, Work!ReadEntryCtrl,
             Work!ReadLoss, Work!Test, Work!Filter,
     Work!ReadStat, Work!ReadCtrl, Work!vars, Work!history
<1>2. WorkInv /\ [Work!Next]_(Work!vars)
        => [pc = "loss" /\ pc' = "test" /\ lost - packetLoss < Width
              => packetLoss' = lost]_(Work!vars)
  BY <1>1, WorkLossUpdate
<1> QED
  BY <1>2, WorkInvariant, PTL DEF Work!Spec, Work!LossExact

-----------------------------------------------------------------------------
(* An input that a process reads through its ci/sec device: TsRead.         *)

LEMMA ReadRing ==
  /\ Read!Position = Position
  /\ \A p : Read!Step(p) = After(p)
  /\ \A i, o : Read!At(i, o) = [idx |-> i, off |-> o]
  /\ \A i : Read!NextBuf(i) = (i + 1) % Num
  /\ Sizes => Read!Origin \in Position /\ Read!Origin = [idx |-> 0, off |-> 0]
<1>1. Read!Position = Position
  BY DEF Read!Position, Position
<1>2. ASSUME NEW p PROVE Read!Step(p) = After(p)
  BY DEF Read!Step, Read!At, Read!NextBuf, After
<1>3. Sizes => Read!Origin \in Position /\ Read!Origin = [idx |-> 0, off |-> 0]
  BY DEF Sizes, Position, Read!Origin, Read!At
<1>4. \A i : Read!NextBuf(i) = (i + 1) % Num
  BY DEF Read!NextBuf
<1>5. \A i, o : Read!At(i, o) = [idx |-> i, off |-> o]
  BY DEF Read!At
<1> QED
  BY <1>1, <1>2, <1>3, <1>4, <1>5

\* Nobody has acknowledged an overflow over the reader's head.
Straight == running /\ ~resync

\* Where the engine stands after an overflow, and that it was told what the
\* reader has read.
ReadPhases ==
  /\ (running <=> pc # "closed") /\ (hwRun <=> running)
  /\ Straight => ack = Read!At(cbuf, coff)
  /\ Straight /\ ovf => IF gap THEN After(pos) = ack ELSE pos = ack

\* The driver's copy of the engine's position is old, the reader's copy of
\* that one older, unless the copy stands for a full ring.
ReadSeen ==
  Straight =>
    /\ Ahead(ack, stat) <= Stock
    /\ pc = "copy" => Ahead(ack, snap) <= Ahead(ack, stat) \/ (ovf /\ ~gap /\ stat = pos)

ReadData == Straight => StockRight

\* Stored(p): the engine has been at p in its first turn of the ring.
Stored(p) == p.idx < pos.idx \/ (p.idx = pos.idx /\ p.off < pos.off)

\* Either the whole ring was filled since the open, or nobody has come round
\* yet: reader, copies and engine follow each other from the first buffer on.
FirstTurn ==
  /\ cbuf <= stat.idx /\ stat.idx <= pos.idx
  /\ pc = "copy" => cbuf <= snap.idx /\ snap.idx <= stat.idx
  /\ \A p \in Position : Stored(p) => mem[p] > base

ReadFresh ==
  running => base <= arrived /\ ((\A p \in Position : mem[p] > base) \/ FirstTurn)

ReadSizes == Sizes /\ MaxCount \in Nat \ {0}

ReadInv == ReadSizes /\ Read!TypeOK /\ ReadPhases /\ ReadSeen /\ ReadData /\ ReadFresh

LEMMA ReadTypes ==
  ASSUME ReadInv
  PROVE  /\ RingTyped /\ Sizes /\ gap \in BOOLEAN /\ ovf \in BOOLEAN
         /\ pos \in Position /\ ack \in Position /\ stat \in Position /\ snap \in Position
         /\ psnap \in Position
         /\ cbuf \in 0 .. Num - 1 /\ coff \in 0 .. Size - 1 /\ left \in Nat
         /\ mem \in [Position -> 0 .. MaxCell] /\ arrived \in 0 .. MaxCell
         /\ base \in 0 .. MaxCell /\ taken \in Nat /\ last \in 0 .. MaxCell
         /\ Cells \in Nat /\ Cells >= 2 * Size /\ Size \in Nat \ {0}
         /\ Stock \in 0 .. Cells /\ Num \in Nat \ {0}
<1>1. /\ Sizes /\ gap \in BOOLEAN /\ ovf \in BOOLEAN
      /\ pos \in Position /\ ack \in Position /\ stat \in Position /\ snap \in Position
      /\ psnap \in Position
      /\ cbuf \in 0 .. Num - 1 /\ coff \in 0 .. Size - 1 /\ left \in Nat
      /\ mem \in [Position -> 0 .. MaxCell] /\ arrived \in 0 .. MaxCell
      /\ base \in 0 .. MaxCell /\ taken \in Nat /\ last \in 0 .. MaxCell
  BY ReadRing DEF ReadInv, ReadSizes, Read!TypeOK, Read!HwTypeOK
<1>2. RingTyped
  BY <1>1 DEF RingTyped
<1> QED
  BY <1>1, <1>2, CellCount, StockRange DEF Sizes

LEMMA ReadInit == ASSUME ReadSizes PROVE Read!Init => ReadInv
<1> SUFFICES ASSUME Read!Init PROVE ReadInv
  OBVIOUS
<1>1. pc = "closed" /\ ~running /\ ~hwRun
  BY DEF Read!Init, Read!HwInit
<1>2. ReadPhases /\ ReadSeen /\ ReadData /\ ReadFresh
  BY <1>1 DEF ReadPhases, ReadSeen, ReadData, ReadFresh, Straight
<1>3. Read!TypeOK
  <2>1. Read!Origin \in Read!Position /\ 0 \in 0 .. MaxCell /\ 0 \in 0 .. Num - 1
        /\ 0 \in 0 .. Size - 1 /\ 0 \in 0 .. MaxCount
    BY ReadRing DEF ReadSizes, Sizes
  <2> QED
    BY <2>1 DEF Read!Init, Read!HwInit, Read!TypeOK, Read!HwTypeOK
<1> QED
  BY <1>2, <1>3 DEF ReadInv

\* The chunk that is copied: its length, its last cell and where it ends.
LEMMA ReadChunk ==
  ASSUME ReadInv, Read!Copy, NEW n, n = Read!ChunkLen
  PROVE  /\ n \in Nat \ {0} /\ n <= left /\ coff + n <= Size
         /\ left' = left - n /\ taken' = taken + n
         /\ Read!At(cbuf, coff + n - 1) = [idx |-> cbuf, off |-> coff + n - 1]
         /\ [idx |-> cbuf, off |-> coff + n - 1] \in Position
         /\ last' = mem[[idx |-> cbuf, off |-> coff + n - 1]]
         /\ cbuf' \in 0 .. Num - 1 /\ coff' \in 0 .. Size - 1
         /\ cbuf' \in {cbuf, (cbuf + 1) % Num}
         /\ ack' = [idx |-> cbuf', off |-> coff'] /\ ~ovf' /\ ack' \in Position
         /\ ack' = IF coff + n = Size THEN [idx |-> (cbuf + 1) % Num, off |-> 0]
                                      ELSE [idx |-> cbuf, off |-> coff + n]
<1>1. /\ Sizes /\ cbuf \in 0 .. Num - 1 /\ coff \in 0 .. Size - 1 /\ left \in Nat
      /\ Size \in Nat \ {0} /\ left > 0
  BY ReadTypes DEF Read!Copy
<1>2. n \in Nat \ {0} /\ n <= left /\ coff + n <= Size
  BY <1>1 DEF Read!ChunkLen
<1>3. /\ left' = left - n /\ taken' = taken + n
      /\ last' = mem[Read!At(cbuf, coff + n - 1)]
      /\ Read!Advance(n) /\ ack' = Read!At(cbuf', coff') /\ ~ovf'
  BY DEF Read!Copy, Read!WriteAck, Read!Released
<1>4. (cbuf + 1) % Num \in 0 .. Num - 1
  BY <1>1, NextBuffer
<1>5. IF coff + n = Size THEN coff' = 0 /\ cbuf' = (cbuf + 1) % Num
                         ELSE coff' = coff + n /\ cbuf' = cbuf
  BY <1>3, ReadRing DEF Read!Advance
<1>6. cbuf' \in 0 .. Num - 1 /\ coff' \in 0 .. Size - 1 /\ cbuf' \in {cbuf, (cbuf + 1) % Num}
  BY <1>1, <1>2, <1>4, <1>5
<1>7. ack' = [idx |-> cbuf', off |-> coff'] /\ ack' \in Position
  BY <1>3, <1>6, ReadRing DEF Position
<1>8. ack' = IF coff + n = Size THEN [idx |-> (cbuf + 1) % Num, off |-> 0]
                                ELSE [idx |-> cbuf, off |-> coff + n]
  BY <1>5, <1>7
<1>9. /\ Read!At(cbuf, coff + n - 1) = [idx |-> cbuf, off |-> coff + n - 1]
      /\ coff + n - 1 \in 0 .. Size - 1
  BY <1>1, <1>2, ReadRing
<1> QED
  BY <1>1, <1>2, <1>3, <1>6, <1>7, <1>8, <1>9 DEF Position

LEMMA ReadTypeNext ==
  ASSUME ReadInv, [Read!Next]_(Read!vars)
  PROVE  Read!TypeOK'
<1>1. /\ \A p \in Read!Position : Read!Step(p) \in Read!Position
      /\ Read!Origin \in Read!Position /\ 0 \in 0 .. Num - 1 /\ 0 \in 0 .. Size - 1
      /\ 0 \in 0 .. MaxCell /\ 0 \in Nat /\ 0 \in 0 .. MaxCount
      /\ Read!TypeOK
  BY ReadRing, PlaceAfter DEF ReadInv, ReadSizes, Sizes
<1>2. CASE Read!Arrival
  <2>1. arrived + 1 \in 0 .. MaxCell
    BY <1>1, <1>2 DEF Read!Arrival, Read!HwStore, Read!HwDrop, Read!TypeOK, Read!HwTypeOK,
                      ReadInv, ReadSizes, Sizes
  <2>2. Read!HwTypeOK'
    BY <1>1, <1>2, <2>1
       DEF Read!Arrival, Read!HwStore, Read!HwDrop, Read!TypeOK, Read!HwTypeOK
  <2> QED
    BY <1>1, <1>2, <2>2 DEF Read!Arrival, Read!TypeOK, Read!dmaVars, Read!readerVars,
                            Read!pollVars, Read!history
<1>3. CASE Read!InputHandler
  <2>1. stat' \in Read!Position
    BY <1>1, <1>3 DEF Read!InputHandler, Read!InputProc, Read!TypeOK, Read!HwTypeOK
  <2>3. woken' \in BOOLEAN
    <3>1. CASE running
      <4>1. woken' = (pc \in Read!Waiting)
        BY <1>3, <3>1, Zenon DEF Read!InputHandler, Read!InputProc
      <4> DEFINE b == pc \in Read!Waiting
      <4>2. b \in BOOLEAN
        OBVIOUS
      <4> HIDE DEF b
      <4>3. woken' = b
        BY <4>1 DEF b
      <4> QED
        BY <4>2, <4>3
    <3>2. CASE ~running
      BY <1>1, <1>3, <3>2 DEF Read!InputHandler, Read!InputProc, Read!TypeOK
    <3> QED
      BY <3>1, <3>2
  <2>2. Read!HwTypeOK'
    BY <1>1, <1>3 DEF Read!InputHandler, Read!TypeOK, Read!HwTypeOK
  <2> QED
    BY <1>1, <1>3, <2>1, <2>2, <2>3
       DEF Read!InputHandler, Read!pollVars, Read!history, Read!TypeOK
<1>4. CASE Read!TsOpen
  BY <1>1, <1>4 DEF Read!TsOpen, Read!ResetDma, Read!HwStart, Read!pollVars,
                    Read!TypeOK, Read!HwTypeOK
<1>5. CASE Read!TsRelease
  BY <1>1, <1>5 DEF Read!TsRelease, Read!HwStop, Read!pollVars, Read!history,
                    Read!TypeOK, Read!HwTypeOK
<1>6. CASE Read!ReadCall \/ Read!LoadStat \/ Read!Enqueue \/ Read!WakeUp \/ Read!ReadBegin
           \/ Read!ReadEnd \/ Read!Signal \/ Read!CopyFault \/ Read!PollBegin
           \/ Read!CheckAvail \/ Read!WaitCheck \/ Read!PollEnd
  <2>0. UNCHANGED <<Read!hwVars, Read!dmaVars, Read!history>>
    BY <1>6 DEF Read!ReadCall, Read!LoadStat, Read!Enqueue, Read!WakeUp, Read!ReadBegin,
       Read!ReadEnd, Read!Signal, Read!CopyFault, Read!PollBegin, Read!CheckAvail,
       Read!WaitCheck, Read!PollEnd
  <2>1. Read!HwTypeOK'
    BY <1>1, <2>0 DEF Read!hwVars, Read!TypeOK, Read!HwTypeOK
  <2>2. CASE Read!LoadStat
    BY <1>1, <2>0, <2>1, <2>2
       DEF Read!LoadStat, Read!dmaVars, Read!pollVars, Read!history, Read!TypeOK
  <2>3. CASE Read!Enqueue
    BY <1>1, <2>0, <2>1, <2>3
       DEF Read!Enqueue, Read!dmaVars, Read!pollVars, Read!history, Read!TypeOK
  <2>4. CASE Read!WakeUp
    BY <1>1, <2>0, <2>1, <2>4
       DEF Read!WakeUp, Read!dmaVars, Read!pollVars, Read!history, Read!TypeOK
  <2>5. CASE Read!ReadBegin
    BY <1>1, <2>0, <2>1, <2>5
       DEF Read!ReadBegin, Read!dmaVars, Read!pollVars, Read!history, Read!TypeOK
  <2>6. CASE Read!ReadEnd
    BY <1>1, <2>0, <2>1, <2>6
       DEF Read!ReadEnd, Read!Return, Read!Goto, Read!dmaVars, Read!pollVars, Read!history,
           Read!TypeOK
  <2>7. CASE Read!Signal
    BY <1>1, <2>0, <2>1, <2>7
       DEF Read!Signal, Read!Return, Read!dmaVars, Read!pollVars, Read!history, Read!TypeOK
  <2>8. CASE Read!CopyFault
    BY <1>1, <2>0, <2>1, <2>8
       DEF Read!CopyFault, Read!Return, Read!dmaVars, Read!pollVars, Read!history, Read!TypeOK
  <2>9. CASE Read!PollBegin
    BY <1>1, <2>0, <2>1, <2>9
       DEF Read!PollBegin, Read!dmaVars, Read!readerVars, Read!history, Read!TypeOK
  <2>10. CASE Read!ReadCall
    <3>1. left' \in 0 .. MaxCount /\ nonblock' \in BOOLEAN
      BY <1>1, <2>10 DEF Read!ReadCall, ReadInv, ReadSizes
    <3> QED
      BY <1>1, <2>0, <2>1, <2>10, <3>1
         DEF Read!ReadCall, Read!dmaVars, Read!pollVars, Read!history, Read!TypeOK
  <2>11. CASE Read!CheckAvail \/ Read!WaitCheck
    BY <1>1, <2>0, <2>1, <2>11
       DEF Read!CheckAvail, Read!WaitCheck, Read!NothingYet, Read!Return, Read!Goto,
           Read!dmaVars, Read!pollVars, Read!history, Read!TypeOK
  <2>12. CASE Read!PollEnd
    BY <1>1, <2>0, <2>1, <2>12
       DEF Read!PollEnd, Read!dmaVars, Read!readerVars, Read!history, Read!TypeOK
  <2> QED
    BY <1>6, <2>2, <2>3, <2>4, <2>5, <2>6, <2>7, <2>8, <2>9, <2>10, <2>11, <2>12
<1>7. CASE Read!ReadAck \/ Read!PollAck
  <2>1. ack' \in Read!Position /\ ovf' \in BOOLEAN /\ resync' \in BOOLEAN
    BY <1>1, <1>7 DEF Read!ReadAck, Read!PollAck, Read!AckOverflow, Read!WriteAck,
       Read!TypeOK, Read!HwTypeOK
  <2>2. Read!HwTypeOK'
    BY <1>1, <1>7, <2>1 DEF Read!ReadAck, Read!PollAck, Read!TypeOK, Read!HwTypeOK
  <2>3. CASE Read!ReadAck
    BY <1>1, <2>1, <2>2, <2>3 DEF Read!ReadAck, Read!NothingYet, Read!Return, Read!Goto,
       Read!dmaVars, Read!pollVars, Read!TypeOK
  <2>4. CASE Read!PollAck
    BY <1>1, <2>1, <2>2, <2>4 DEF Read!PollAck, Read!dmaVars, Read!readerVars, Read!TypeOK
  <2> QED
    BY <1>7, <2>3, <2>4
<1>8. CASE Read!Copy
  <2>1. PICK n : n = Read!ChunkLen
    OBVIOUS
  <2>2. /\ taken' \in Nat /\ left' \in 0 .. MaxCount /\ last' \in 0 .. MaxCell
        /\ cbuf' \in 0 .. Num - 1 /\ coff' \in 0 .. Size - 1 /\ ack' \in Read!Position
        /\ ovf' \in BOOLEAN
    <3>1. left \in 0 .. MaxCount /\ MaxCount \in Nat /\ taken \in Nat
          /\ mem \in [Position -> 0 .. MaxCell]
      BY <1>1, ReadTypes DEF Read!TypeOK, ReadInv, ReadSizes
    <3> DEFINE l == [idx |-> cbuf, off |-> coff + n - 1]
    <3>2. /\ n \in Nat \ {0} /\ n <= left /\ left' = left - n /\ taken' = taken + n
          /\ l \in Position /\ last' = mem[l]
          /\ cbuf' \in 0 .. Num - 1 /\ coff' \in 0 .. Size - 1 /\ ack' \in Position /\ ~ovf'
      BY <1>8, <2>1, ReadChunk
    <3> HIDE DEF l
    <3>3. left' \in 0 .. MaxCount /\ taken' \in Nat /\ last' \in 0 .. MaxCell
      BY <3>1, <3>2
    <3>4. ovf' \in BOOLEAN
      BY <1>8 DEF Read!Copy, Read!WriteAck
    <3> QED
      BY <3>2, <3>3, <3>4, ReadRing
  <2> QED
    BY <1>1, <1>8, <2>2 DEF Read!Copy, Read!pollVars, Read!TypeOK, Read!HwTypeOK
<1>9. CASE UNCHANGED Read!vars
  BY <1>1, <1>9 DEF Read!vars, Read!hwVars, Read!dmaVars, Read!readerVars, Read!pollVars,
                     Read!history, Read!TypeOK, Read!HwTypeOK
<1> QED
  BY <1>2, <1>3, <1>4, <1>5, <1>6, <1>7, <1>8, <1>9 DEF Read!Next, Read!Reader

LEMMA ReadPhasesNext ==
  ASSUME ReadInv, [Read!Next]_(Read!vars)
  PROVE  ReadPhases'
<1>1. ReadPhases /\ gap \in BOOLEAN /\ ovf \in BOOLEAN /\ resync \in BOOLEAN
  BY ReadTypes DEF ReadInv, Read!TypeOK
<1>2. CASE Read!Arrival
  BY <1>1, <1>2, ReadRing DEF Read!Arrival, Read!HwStore, Read!HwDrop, Read!Full, Read!dmaVars,
     Read!readerVars, Read!history, Read!At, Straight, ReadPhases
<1>3. CASE Read!InputHandler
  BY <1>1, <1>3 DEF Read!InputHandler, Read!history, Read!At, Straight, ReadPhases
<1>4. CASE Read!TsOpen
  BY <1>1, <1>4 DEF Read!TsOpen, Read!ResetDma, Read!HwStart, Read!Origin, Read!At, Straight,
     ReadPhases
<1>5. CASE Read!TsRelease
  BY <1>1, <1>5 DEF Read!TsRelease, Read!HwStop, Read!At, Straight, ReadPhases
<1>6. CASE Read!ReadCall \/ Read!LoadStat \/ Read!Enqueue \/ Read!WakeUp \/ Read!ReadBegin
           \/ Read!ReadEnd \/ Read!Signal \/ Read!CopyFault \/ Read!PollBegin
           \/ Read!CheckAvail \/ Read!WaitCheck \/ Read!PollEnd
  BY <1>1, <1>6 DEF Read!ReadCall, Read!LoadStat, Read!Enqueue, Read!WakeUp, Read!ReadBegin,
     Read!ReadEnd, Read!Signal, Read!CopyFault, Read!PollBegin, Read!CheckAvail,
     Read!WaitCheck, Read!PollEnd, Read!NothingYet, Read!Return, Read!Goto, Read!hwVars,
     Read!dmaVars, Read!readerVars, Read!history, Read!At, Straight, ReadPhases
<1>7. CASE Read!ReadAck \/ Read!PollAck
  BY <1>1, <1>7 DEF Read!ReadAck, Read!PollAck, Read!NothingYet, Read!Return, Read!Goto,
     Read!AckOverflow, Read!WriteAck, Read!dmaVars, Read!readerVars, Read!At, Straight, ReadPhases
<1>8. CASE Read!Copy
  BY <1>1, <1>8 DEF Read!Copy, Read!WriteAck, Read!Released, Read!At, Straight, ReadPhases
<1>9. CASE UNCHANGED Read!vars
  BY <1>1, <1>9 DEF Read!vars, Read!hwVars, Read!dmaVars, Read!readerVars, Read!history,
     Read!At, Straight, ReadPhases
<1> QED
  BY <1>2, <1>3, <1>4, <1>5, <1>6, <1>7, <1>8, <1>9 DEF Read!Next, Read!Reader

\* Whatever leaves the data alone.
LEMMA ReadQuiet ==
  ASSUME ReadInv, running' => running, Straight' => Straight,
         UNCHANGED <<pos, mem, arrived, base, cbuf>>, stat' \in {stat, pos},
         pc' = "copy" => \/ pc = "copy" /\ snap' = snap
                         \/ snap' = stat /\ stat' = stat,
         Straight' => UNCHANGED <<gap, ack, ovf, dropped, taken, last>>
  PROVE  ReadSeen' /\ ReadData' /\ ReadFresh'
<1>1. /\ RingTyped /\ Stock \in 0 .. Cells /\ Ahead(ack, pos) <= Stock /\ Cells \in Nat
      /\ gap \in BOOLEAN /\ ovf \in BOOLEAN
      /\ Ahead(ack, stat) \in 0 .. Cells - 1 /\ Ahead(ack, pos) \in 0 .. Cells - 1
      /\ Ahead(ack, snap) \in 0 .. Cells - 1
  BY ReadTypes, AheadRange, StockRange
<1>2. ReadData'
  BY StockStays DEF ReadInv, ReadData
<1>3. ReadSeen'
  <2> SUFFICES ASSUME Straight'
               PROVE  /\ Ahead(ack, stat)' <= Stock'
                      /\ pc' = "copy" => \/ Ahead(ack, snap)' <= Ahead(ack, stat)'
                                         \/ (ovf' /\ ~gap' /\ stat' = pos')
    BY DEF ReadSeen
  <2>1. /\ Stock' = Stock /\ Ahead(ack, stat)' = Ahead(ack, stat')
        /\ Ahead(ack, snap)' = Ahead(ack, snap')
    BY StockStays DEF Ahead, Place, Cells
  <2>2. /\ Ahead(ack, stat) <= Stock
        /\ pc = "copy" => Ahead(ack, snap) <= Ahead(ack, stat) \/ (ovf /\ ~gap /\ stat = pos)
    BY DEF ReadInv, ReadSeen
  <2>3. CASE stat' = pos
    <3>1. ~(ovf /\ ~gap) => Stock = Ahead(ack, pos)
      BY DEF Stock
    <3> QED
      BY <1>1, <2>1, <2>2, <2>3, <3>1
  <2>4. CASE stat' = stat
    BY <1>1, <2>1, <2>2, <2>4
  <2> QED
    BY <2>3, <2>4
<1>4. ReadFresh'
  <2>1. running' => base' <= arrived' /\ ((\A p \in Position : mem[p] > base) \/ FirstTurn)
    BY DEF ReadInv, ReadFresh
  <2>2. /\ stat.idx \in Nat /\ pos.idx \in Nat /\ snap.idx \in Nat /\ cbuf \in Nat
    BY ReadTypes DEF Position
  <2>3. FirstTurn => FirstTurn'
    <3> SUFFICES ASSUME FirstTurn PROVE FirstTurn'
      OBVIOUS
    <3>1. cbuf' <= stat'.idx /\ stat'.idx <= pos'.idx
      BY <2>2 DEF FirstTurn
    <3>2. pc' = "copy" => cbuf' <= snap'.idx /\ snap'.idx <= stat'.idx
      BY <2>2 DEF FirstTurn
    <3>3. \A p \in Position : Stored(p)' => mem'[p] > base'
      BY DEF FirstTurn, Stored
    <3> QED
      BY <3>1, <3>2, <3>3 DEF FirstTurn
  <2>4. (\A p \in Position : mem[p] > base) => \A p \in Position : mem'[p] > base'
    OBVIOUS
  <2> QED
    BY <2>1, <2>3, <2>4 DEF ReadFresh
<1> QED
  BY <1>2, <1>3, <1>4

\* A cell that arrives, stored or not.
LEMMA ReadArrival ==
  ASSUME ReadInv, Read!Arrival
  PROVE  ReadSeen' /\ ReadData' /\ ReadFresh'
<1>1. /\ RingTyped /\ Sizes /\ gap \in BOOLEAN /\ ovf \in BOOLEAN
      /\ pos \in Position /\ ack \in Position /\ stat \in Position /\ snap \in Position
      /\ cbuf \in 0 .. Num - 1 /\ Stock \in 0 .. Cells /\ Cells \in Nat
      /\ mem \in [Position -> 0 .. MaxCell] /\ arrived \in 0 .. MaxCell /\ base \in 0 .. MaxCell
      /\ Num \in Nat \ {0} /\ Size \in Nat \ {0}
  BY ReadTypes
<1>2. /\ UNCHANGED <<cbuf, coff, stat, running, pc, snap, base, taken, last, resync>>
      /\ running /\ Straight' = Straight
  BY DEF Read!Arrival, Read!dmaVars, Read!readerVars, Read!history, Read!HwStore, Read!HwDrop,
         ReadInv, ReadPhases, Straight
<1>3. CASE Read!HwStore
  <2>1. /\ ~ovf /\ ~(gap /\ After(pos) = ack) /\ arrived' = arrived + 1
        /\ mem' = [mem EXCEPT ![pos] = arrived + 1] /\ pos' = After(pos)
        /\ (ovf' <=> ~gap /\ After(pos) = ack) /\ UNCHANGED <<gap, ack, dropped>>
    BY <1>3, ReadRing DEF Read!HwStore, Read!Full
  <2>2. Straight => /\ Stock' = Stock + 1 /\ \A p : Ahead(ack, p)' = Ahead(ack, p)
                    /\ StockRight'
    BY <1>1, <1>2, <2>1, StockStore DEF ReadInv, ReadData
  <2>3. ReadSeen'
    <3> SUFFICES ASSUME Straight
                 PROVE  /\ Ahead(ack, stat)' <= Stock'
                        /\ pc' = "copy" => Ahead(ack, snap)' <= Ahead(ack, stat)'
      BY <1>2 DEF ReadSeen
    <3>1. Ahead(ack, stat)' = Ahead(ack, stat) /\ Ahead(ack, snap)' = Ahead(ack, snap)
      BY <1>2, <2>1 DEF Ahead, Place, Cells
    <3>2. Ahead(ack, stat) \in 0 .. Cells - 1
      BY <1>1, AheadRange
    <3>3. Ahead(ack, stat) <= Stock /\ (pc = "copy" => Ahead(ack, snap) <= Ahead(ack, stat))
      BY <2>1 DEF ReadInv, ReadSeen
    <3> QED
      BY <1>1, <1>2, <2>2, <3>1, <3>2, <3>3
  <2>4. base' <= arrived' /\ mem'[pos] > base'
    BY <1>1, <1>2, <2>1 DEF ReadInv, ReadFresh
  <2>5. (\A p \in Position : mem[p] > base) => \A p \in Position : mem'[p] > base'
    BY <1>1, <1>2, <2>1, <2>4
  <2>6. FirstTurn => FirstTurn' \/ \A p \in Position : mem'[p] > base'
    <3> SUFFICES ASSUME FirstTurn PROVE FirstTurn' \/ \A p \in Position : mem'[p] > base'
      OBVIOUS
    <3>1. /\ pos.idx \in 0 .. Num - 1 /\ pos.off \in 0 .. Size - 1 /\ stat.idx \in 0 .. Num - 1
          /\ (pos.idx + 1 < Num => (pos.idx + 1) % Num = pos.idx + 1)
      BY <1>1, NextBuffer DEF Position
    <3>2. \A p \in Position : Stored(p) \/ p = pos => mem'[p] > base'
      BY <1>1, <1>2, <2>1, <2>4 DEF FirstTurn
    <3>3. \A p \in Position : /\ p.idx \in 0 .. Num - 1 /\ p.off \in 0 .. Size - 1
                              /\ (p.idx = pos.idx /\ p.off = pos.off => p = pos)
      BY <1>1 DEF Position
    <3>4. CASE pos.off + 1 = Size /\ pos.idx + 1 = Num
      <4>1. \A p \in Position : Stored(p) \/ p = pos
        BY <1>1, <3>1, <3>3, <3>4 DEF Stored
      <4> QED
        BY <3>2, <4>1
    <3>5. CASE ~(pos.off + 1 = Size /\ pos.idx + 1 = Num)
      <4>1. \/ pos'.idx = pos.idx + 1 /\ pos'.off = 0 /\ pos.off + 1 = Size
            \/ pos'.idx = pos.idx /\ pos'.off = pos.off + 1
        BY <1>1, <2>1, <3>1, <3>5 DEF After
      <4>2. \A p \in Position : Stored(p)' => Stored(p) \/ p = pos
        BY <1>1, <3>1, <3>3, <4>1 DEF Stored
      <4>3. stat'.idx <= pos'.idx
        BY <1>2, <3>1, <4>1 DEF FirstTurn
      <4> QED
        BY <1>2, <3>2, <4>2, <4>3 DEF FirstTurn
    <3> QED
      BY <3>4, <3>5
  <2>7. ReadFresh'
    BY <1>2, <2>4, <2>5, <2>6 DEF ReadInv, ReadFresh
  <2> QED
    BY <1>2, <2>2, <2>3, <2>7 DEF ReadData
<1>4. CASE Read!HwDrop
  <2>1. gap \/ ovf
    BY <1>4 DEF Read!HwDrop, Read!Full
  <2>2. arrived' = arrived + 1 /\ dropped' /\ ovf' /\ UNCHANGED <<gap, pos, ack, mem>>
    BY <1>4 DEF Read!HwDrop
  <2>3. Straight => /\ Stock' = Stock /\ \A p : Ahead(ack, p)' = Ahead(ack, p)
                    /\ StockRight'
    BY <1>1, <1>2, <2>1, <2>2, StockDrop DEF ReadInv, ReadData
  <2>4. ReadSeen'
    BY <1>2, <2>2, <2>3 DEF ReadInv, ReadSeen, Ahead, Place, Cells
  <2>5. ReadFresh'
    <3>1. base' <= arrived'
      BY <1>1, <1>2, <2>2 DEF ReadInv, ReadFresh
    <3>2. FirstTurn => FirstTurn'
      BY <1>2, <2>2 DEF FirstTurn, Stored
    <3> QED
      BY <1>2, <2>2, <3>1, <3>2 DEF ReadInv, ReadFresh
  <2> QED
    BY <1>2, <2>3, <2>4, <2>5 DEF ReadData
<1> QED
  BY <1>3, <1>4 DEF Read!Arrival

LEMMA ReadOpen ==
  ASSUME ReadInv, Read!TsOpen
  PROVE  ReadSeen' /\ ReadData' /\ ReadFresh'
<1>1. /\ pc' = "idle" /\ ~ovf' /\ pos' = Read!Origin /\ ack' = Read!Origin
      /\ stat' = Read!Origin /\ cbuf' = 0
      /\ arrived' = arrived /\ base' = arrived /\ taken' = 0 /\ last' = arrived
  BY DEF Read!TsOpen, Read!ResetDma, Read!HwStart
<1>2. Sizes /\ Read!Origin \in Position /\ Read!Origin = [idx |-> 0, off |-> 0] /\ arrived \in Nat
  BY ReadTypes, ReadRing
<1>3. Stock' = 0 /\ StockRight'
  BY <1>1, <1>2, StockEmpty
<1>4. Ahead(ack, stat)' = 0
  <2>1. Ahead(Read!Origin, Read!Origin) = 0
    BY <1>2, AheadRange
  <2> QED
    BY <1>1, <2>1 DEF Ahead, Place, Cells
<1>5. FirstTurn'
  <2>1. \A p \in Position : ~Stored(p)'
    BY <1>1, <1>2 DEF Stored, Position
  <2> QED
    BY <1>1, <1>2, <2>1 DEF FirstTurn
<1> QED
  BY <1>1, <1>2, <1>3, <1>4, <1>5 DEF ReadSeen, ReadData, ReadFresh

\* What is left of a buffer that can be copied is stored.
LEMMA ReadHeld ==
  ASSUME ReadInv, Straight, pc = "copy", cbuf # snap.idx
  PROVE  /\ ack = [idx |-> cbuf, off |-> coff]
         /\ Ahead(ack, snap) >= Size - coff /\ Stock >= Size - coff
         /\ ~Read!Full => \A p \in Position : p.idx = cbuf /\ p.off >= coff => p # pos
<1>1. /\ Sizes /\ gap \in BOOLEAN /\ ovf \in BOOLEAN
      /\ pos \in Position /\ ack \in Position /\ stat \in Position /\ snap \in Position
      /\ cbuf \in 0 .. Num - 1 /\ coff \in 0 .. Size - 1 /\ Stock \in 0 .. Cells /\ Cells \in Nat
      /\ Cells >= 2 * Size /\ Size \in Nat \ {0}
  BY ReadTypes
<1>2. ack = [idx |-> cbuf, off |-> coff]
  BY ReadRing DEF ReadInv, ReadPhases
<1>3. Ahead(ack, snap) >= Size - coff
  BY <1>1, <1>2, BufferCells
<1>4. /\ Ahead(ack, stat) <= Stock
      /\ Ahead(ack, snap) <= Ahead(ack, stat) \/ (ovf /\ ~gap)
  BY DEF ReadInv, ReadSeen
<1>5. Ahead(ack, snap) \in 0 .. Cells - 1 /\ Ahead(ack, stat) \in 0 .. Cells - 1
  BY <1>1, AheadRange
<1>6. ovf /\ ~gap => Stock = Cells
  BY DEF Stock
<1>7. Stock >= Size - coff
  BY <1>1, <1>3, <1>4, <1>5, <1>6
<1>8. ASSUME ~Read!Full, NEW p \in Position, p.idx = cbuf, p.off >= coff
      PROVE  p # pos
  <2>1. Stock = Ahead(ack, pos)
    BY <1>8 DEF Stock, Read!Full
  <2>2. Ahead(ack, p) = p.off - coff
    BY <1>1, <1>2, <1>8, BufferCells
  <2>3. p.off \in Nat /\ p.off < Size
    BY <1>1 DEF Position
  <2> QED
    BY <1>1, <1>7, <2>1, <2>2, <2>3
<1> QED
  BY <1>2, <1>3, <1>7, <1>8

LEMMA ReadCopy ==
  ASSUME ReadInv, Read!Copy
  PROVE  /\ ReadSeen' /\ ReadData' /\ ReadFresh'
         /\ ~dropped /\ ~resync => last' = base + taken'
         /\ last' > base
         /\ ~resync => last' >= last + (taken' - taken)
<1>1. /\ RingTyped /\ Sizes /\ gap \in BOOLEAN /\ ovf \in BOOLEAN
      /\ pos \in Position /\ ack \in Position /\ stat \in Position /\ snap \in Position
      /\ cbuf \in 0 .. Num - 1 /\ coff \in 0 .. Size - 1 /\ left \in Nat
      /\ mem \in [Position -> 0 .. MaxCell] /\ arrived \in 0 .. MaxCell
      /\ base \in 0 .. MaxCell /\ taken \in Nat /\ last \in 0 .. MaxCell
      /\ Stock \in 0 .. Cells /\ Cells \in Nat /\ Size \in Nat \ {0} /\ Num \in Nat \ {0}
  BY ReadTypes
<1> DEFINE n == Read!ChunkLen
           l == [idx |-> cbuf, off |-> coff + n - 1]
<1>2. /\ n \in Nat \ {0} /\ n <= left /\ coff + n <= Size
      /\ taken' = taken + n /\ l \in Position /\ last' = mem[l]
      /\ cbuf' \in 0 .. Num - 1 /\ cbuf' \in {cbuf, (cbuf + 1) % Num}
      /\ ~ovf' /\ ack' \in Position
      /\ ack' = IF coff + n = Size THEN [idx |-> (cbuf + 1) % Num, off |-> 0]
                                   ELSE [idx |-> cbuf, off |-> coff + n]
  BY ReadChunk
<1>3. /\ pc = "copy" /\ pc' = "copy" /\ cbuf # snap.idx
      /\ UNCHANGED <<gap, pos, mem, arrived, dropped, base, stat, snap, running, resync>>
  BY DEF Read!Copy
<1>4. running /\ (Straight <=> ~resync) /\ (Straight' <=> ~resync)
  BY <1>3 DEF ReadInv, ReadPhases, Straight
<1>l. l.idx = cbuf /\ l.off < Size
  BY <1>1, <1>2
<1> HIDE DEF n
<1>5. ASSUME ~resync
      PROVE  /\ Ahead(ack, ack') = n /\ Ahead(ack, l) = n - 1
             /\ n <= Ahead(ack, snap) /\ n <= Stock /\ (ovf /\ ~gap => pos = ack)
             /\ StockRight
  <2>1. /\ ack = [idx |-> cbuf, off |-> coff]
        /\ Ahead(ack, snap) >= Size - coff /\ Stock >= Size - coff
    BY <1>3, <1>4, <1>5, ReadHeld
  <2>2. Ahead(ack, ack') = n /\ Ahead(ack, l) = n - 1
    <3>1. /\ Sizes /\ cbuf \in 0 .. Num - 1 /\ coff \in 0 .. Size - 1
          /\ n \in Nat \ {0} /\ coff + n <= Size
          /\ ack' = IF coff + n = Size THEN [idx |-> (cbuf + 1) % Num, off |-> 0]
                                       ELSE [idx |-> cbuf, off |-> coff + n]
      BY <1>1, <1>2
    <3> QED
      BY <2>1, <3>1, ChunkEnd
  <2>3. Ahead(ack, snap) \in 0 .. Cells - 1
    BY <1>1, AheadRange
  <2>4. StockRight /\ (ovf /\ ~gap => pos = ack)
    BY <1>4, <1>5 DEF ReadInv, ReadData, ReadPhases
  <2> QED
    BY <1>1, <1>2, <2>1, <2>2, <2>3, <2>4
<1> HIDE DEF l
<1>6. ASSUME ~resync
      PROVE  /\ Stock' = Stock - n /\ StockRight'
             /\ \A p \in Position : Ahead(ack, p) >= n => Ahead(ack, p)' = Ahead(ack, p) - n
  BY <1>1, <1>2, <1>3, <1>5, <1>6, StockRelease
<1>7. ReadData'
  BY <1>4, <1>6 DEF ReadData
<1>8. ReadSeen'
  <2> SUFFICES ASSUME ~resync
               PROVE  /\ Ahead(ack, stat)' <= Stock' /\ Ahead(ack, snap)' <= Ahead(ack, stat)'
    BY <1>4 DEF ReadSeen
  <2>1. /\ Ahead(ack, stat) <= Stock
        /\ Ahead(ack, snap) <= Ahead(ack, stat) \/ (ovf /\ ~gap /\ stat = pos)
    BY <1>3, <1>4 DEF ReadInv, ReadSeen
  <2>2. Ahead(ack, snap) \in 0 .. Cells - 1 /\ Ahead(ack, stat) \in 0 .. Cells - 1
    BY <1>1, AheadRange
  <2>3. n <= Ahead(ack, snap) /\ n <= Stock /\ Stock' = Stock - n
    BY <1>5, <1>6
  <2>4. /\ Ahead(ack, snap)' = Ahead(ack', snap) /\ Ahead(ack, stat)' = Ahead(ack', stat)
    BY <1>3 DEF Ahead, Place, Cells
  <2>5. /\ Ahead(ack', snap) = Ahead(ack, snap) - n
        /\ Ahead(ack, stat) >= n => Ahead(ack', stat) = Ahead(ack, stat) - n
    <3>1. \A p \in Position : Ahead(ack, p) >= n => Ahead(ack, p)' = Ahead(ack, p) - n
      BY <1>6
    <3> QED
      BY <1>1, <2>2, <2>3, <2>4, <3>1
  <2>6. CASE Ahead(ack, snap) <= Ahead(ack, stat)
    BY <1>1, <1>2, <2>1, <2>2, <2>3, <2>4, <2>5, <2>6
  <2>7. CASE ovf /\ ~gap /\ stat = pos
    <3>1. stat = ack /\ Stock = Cells
      BY <1>5, <2>7 DEF Stock
    <3>2. Ahead(ack, ack) = 0 /\ Ahead(ack', stat) \in 0 .. Cells - 1
      BY <1>1, <1>2, AheadRange
    <3>3. Ahead(ack, ack') + Ahead(ack', ack) = Cells
      BY <1>1, <1>2, <1>5, <3>2, AheadSum
    <3>4. Ahead(ack', stat) = Cells - n
      BY <1>1, <1>2, <1>5, <3>1, <3>2, <3>3
    <3> QED
      BY <1>1, <1>2, <2>2, <2>3, <2>4, <2>5, <3>1, <3>4
  <2> QED
    BY <2>1, <2>6, <2>7
<1>9. last' > base /\ ReadFresh'
  <2>1. base <= arrived /\ ((\A p \in Position : mem[p] > base) \/ FirstTurn)
    BY <1>4 DEF ReadInv, ReadFresh
  <2>2. CASE \A p \in Position : mem[p] > base
    BY <1>2, <1>3, <2>1, <2>2 DEF ReadFresh
  <2>3. CASE FirstTurn
    <3>1. /\ cbuf \in Nat /\ snap.idx \in 0 .. Num - 1 /\ stat.idx \in Nat /\ pos.idx \in Nat
          /\ (cbuf + 1 < Num => (cbuf + 1) % Num = cbuf + 1)
      BY <1>1, NextBuffer DEF Position
    <3>2. cbuf < snap.idx /\ snap.idx <= stat.idx /\ stat.idx <= pos.idx
      BY <1>3, <2>3, <3>1 DEF FirstTurn
    <3>3. Stored(l)
      BY <1>l, <3>1, <3>2 DEF Stored
    <3>4. last' > base
      BY <1>2, <2>3, <3>3 DEF FirstTurn
    <3>5. cbuf' <= snap.idx /\ cbuf' <= stat.idx
      BY <1>1, <1>2, <3>1, <3>2
    <3>6. FirstTurn'
      BY <1>3, <2>3, <3>2, <3>5 DEF FirstTurn, Stored
    <3> QED
      BY <1>3, <2>1, <3>4, <3>6 DEF ReadFresh
  <2> QED
    BY <2>1, <2>2, <2>3
<1>10. ASSUME ~resync
       PROVE  /\ ~dropped => last' = base + taken'
              /\ last' >= last + (taken' - taken)
  <2>1. InStock(l)
    BY <1>1, <1>2, <1>5, <1>10 DEF InStock
  <2>2. /\ mem[l] \in Nat /\ mem[l] > last + (n - 1)
        /\ ~dropped => mem[l] = base + taken + 1 + (n - 1)
    BY <1>1, <1>2, <1>5, <1>10, <2>1, StockInOrder
  <2> QED
    BY <1>1, <1>2, <2>2
<1> QED
  BY <1>7, <1>8, <1>9, <1>10

LEMMA ReadNext ==
  ASSUME ReadInv, [Read!Next]_(Read!vars)
  PROVE  ReadSeen' /\ ReadData' /\ ReadFresh'
<1>1. resync \in BOOLEAN
  BY DEF ReadInv, Read!TypeOK
<1>2. CASE Read!Arrival
  BY <1>2, ReadArrival
<1>3. CASE Read!InputHandler
  BY <1>3, ReadQuiet DEF Read!InputHandler, Read!InputProc, Read!history, Straight
<1>4. CASE Read!TsOpen
  BY <1>4, ReadOpen
<1>5. CASE Read!TsRelease
  BY <1>5 DEF Read!TsRelease, ReadSeen, ReadData, ReadFresh, Straight
<1>6. CASE Read!ReadCall \/ Read!LoadStat \/ Read!Enqueue \/ Read!WakeUp \/ Read!ReadBegin
           \/ Read!ReadEnd \/ Read!Signal \/ Read!CopyFault \/ Read!PollBegin
           \/ Read!CheckAvail \/ Read!WaitCheck \/ Read!PollEnd
  BY <1>6, ReadQuiet
     DEF Read!ReadCall, Read!LoadStat, Read!Enqueue, Read!WakeUp, Read!ReadBegin, Read!ReadEnd,
         Read!Signal, Read!CopyFault, Read!PollBegin, Read!CheckAvail, Read!WaitCheck,
         Read!PollEnd, Read!NothingYet, Read!Return, Read!Goto, Read!hwVars, Read!dmaVars,
         Read!readerVars, Read!history, Straight
<1>7. CASE Read!ReadAck \/ Read!PollAck
  <2>1. /\ UNCHANGED <<gap, pos, mem, arrived, dropped, cbuf, stat, running, base, taken, last>>
        /\ pc' = "copy" => pc = "copy" /\ snap' = snap
        /\ ~Straight'
    BY <1>1, <1>7
       DEF Read!ReadAck, Read!PollAck, Read!NothingYet, Read!Return, Read!Goto,
           Read!AckOverflow, Read!WriteAck, Read!dmaVars, Read!readerVars, Straight
  <2> QED
    BY <2>1, ReadQuiet
<1>8. CASE Read!Copy
  BY <1>8, ReadCopy
<1>9. CASE UNCHANGED Read!vars
  BY <1>9, ReadQuiet DEF Read!vars, Read!hwVars, Read!dmaVars, Read!readerVars, Read!history,
     Straight
<1> QED
  BY <1>2, <1>3, <1>4, <1>5, <1>6, <1>7, <1>8, <1>9 DEF Read!Next, Read!Reader

\* An input that is read through ts_read: the reader's copy of the driver's
\* copy of the engine's position is behind both, what lies between is newer
\* than what was read, in order, and complete while nothing was dropped; and
\* no position the reader reaches holds data from before the open.
THEOREM ReadInvariant == ReadSizes /\ Read!Spec => []ReadInv
<1>1. ReadSizes /\ Read!Init => ReadInv
  BY ReadInit
<1>2. ReadInv /\ [Read!Next]_(Read!vars) => ReadInv'
  <2> SUFFICES ASSUME ReadInv, [Read!Next]_(Read!vars) PROVE ReadInv'
    OBVIOUS
  <2>1. ReadSizes'
    BY DEF ReadInv, ReadSizes, Sizes
  <2> QED
    BY <2>1, ReadTypeNext, ReadPhasesNext, ReadNext DEF ReadInv
<1> QED
  BY <1>1, <1>2, PTL DEF Read!Spec

\* read() hands out every cell that arrived since the open once and in order
\* until the ring overflows, goes back in the stream only after an overflow
\* acknowledged over its head, and never to before the open (ts_read,
\* ddb_input_read).
THEOREM ReadKeepsOrder == ReadSizes /\ Read!Spec => Read!InOrder
<1>1. ASSUME ReadInv, [Read!Next]_(Read!vars), taken' > taken
      PROVE  Read!Copy
  <2>1. ~(0 > taken) /\ ~(taken > taken)
    BY <1>1, ReadTypes
  <2> QED
    BY <1>1, <2>1
       DEF Read!Next, Read!Reader, Read!Arrival, Read!InputHandler, Read!TsOpen, Read!TsRelease,
           Read!ReadCall, Read!LoadStat, Read!CheckAvail, Read!Enqueue, Read!WaitCheck,
           Read!WakeUp, Read!ReadBegin, Read!ReadEnd, Read!Signal, Read!CopyFault,
           Read!PollBegin, Read!PollEnd, Read!ReadAck, Read!PollAck, Read!AckOverflow,
           Read!vars, Read!history
<1>2. ReadInv /\ [Read!Next]_(Read!vars)
        => [taken' > taken =>
              /\ ~dropped /\ ~resync => last' = base + taken'
              /\ last' > base
              /\ ~resync => last' >= last + (taken' - taken)]_(Read!vars)
  BY <1>1, ReadCopy
<1> QED
  BY <1>2, ReadInvariant, PTL DEF Read!Spec, Read!InOrder

\* While a chunk is copied to user space the engine stores nothing into it,
\* unless an overflow was acknowledged over the reader's head.
THEOREM ReadKeepsChunk == ReadSizes /\ Read!Spec => Read!NoOverwriteDuringCopy
<1>1. ASSUME ReadInv, [Read!Next]_(Read!vars), ~resync, pc = "copy", cbuf # snap.idx,
             NEW p \in Read!Position, p.idx = cbuf, p.off >= coff
      PROVE  mem'[p] = mem[p]
  <2>1. CASE Read!HwStore /\ Read!Arrival
    <3>1. mem' = [mem EXCEPT ![pos] = arrived + 1] /\ ~Read!Full
      BY <2>1 DEF Read!HwStore
    <3>2. Straight /\ p \in Position
      BY <1>1, ReadRing DEF ReadInv, ReadPhases, Straight
    <3>3. p # pos
      BY <1>1, <3>1, <3>2, ReadHeld
    <3>4. mem \in [Position -> 0 .. MaxCell]
      BY <1>1, ReadTypes
    <3> QED
      BY <3>1, <3>2, <3>3, <3>4
  <2>2. CASE ~(Read!HwStore /\ Read!Arrival)
    <3>1. mem' = mem
      BY <1>1, <2>2
         DEF Read!Next, Read!Reader, Read!Arrival, Read!HwDrop, Read!InputHandler, Read!TsOpen,
             Read!HwStart, Read!TsRelease, Read!HwStop, Read!ReadCall, Read!LoadStat,
             Read!CheckAvail, Read!Enqueue, Read!WaitCheck, Read!WakeUp, Read!ReadBegin,
             Read!ReadEnd, Read!Signal, Read!CopyFault, Read!Copy, Read!PollBegin, Read!PollEnd,
             Read!ReadAck, Read!PollAck, Read!vars, Read!hwVars
    <3> QED
      BY <3>1
  <2> QED
    BY <2>1, <2>2
<1>2. ReadInv /\ [Read!Next]_(Read!vars)
        => [~resync /\ pc = "copy" /\ cbuf # snap.idx =>
              \A p \in Read!Position :
                p.idx = cbuf /\ p.off >= coff => mem'[p] = mem[p]]_(Read!vars)
  BY <1>1
<1> QED
  BY <1>2, ReadInvariant, PTL DEF Read!Spec, Read!NoOverwriteDuringCopy
=============================================================================
