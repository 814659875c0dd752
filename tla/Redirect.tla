------------------------------ MODULE Redirect ------------------------------
(***************************************************************************)
(* The redirection of TS streams through CI ports (ddb_redirect and        *)
(* ddb_unredirect in ddbridge-core.c) and the users that start and stop    *)
(* the DMA channels of a redirected chain: the feeds of the tuner inputs   *)
(* and the readers and writers of the CI devices.                          *)
(*                                                                         *)
(* A port has one output and one input, input[0]; both go by the name of   *)
(* the port here.  An input delivers to the demux of its redi and hands    *)
(* its buffers to its redo; an output takes its buffers from its redi.     *)
(***************************************************************************)
EXTENDS Integers

CONSTANTS Tuner,   \* inputs of the tuner ports
          Port,    \* CI ports: one output and its input[0]
          Writer,  \* processes that write to the redirect attribute
          Opened,  \* the ports whose CI device is opened
          MaxFeed, \* bound on the feeds of a tuner input
          Null     \* a NULL pointer

Input == Tuner \cup Port

ASSUME RedirectAssumption ==
  /\ Tuner \cap Port = {} /\ Null \notin Input
  /\ Opened \subseteq Port /\ MaxFeed \in Nat

VARIABLES
  redi,     \* input->redi
  redo,     \* input->redo
  outRedi,  \* output->redi
  table,    \* whose buffers the DMA table of an input points to: its own (Null) or a port's
  inRun,    \* the inputs whose dma->running is set
  outRun,   \* the outputs whose dma->running is set
  users,    \* the feeds of each tuner input (dvb->users)
  reader, writer, \* state of the CI device of a port: "closed", "opening", "open"
  request,  \* what each writer of the attribute is still to connect
  described \* history: up to now the ports were used as docs/redirect describes

linkVars == <<redi, redo, outRedi, table>>
runVars  == <<inRun, outRun>>
userVars == <<users, reader, writer>>
vars     == <<linkVars, runVars, userVars, request, described>>

Idle == [input |-> Null, port |-> Null]

Init ==
  /\ redi = [i \in Input |-> IF i \in Tuner THEN i ELSE Null]
  /\ redo = [i \in Input |-> Null]
  /\ outRedi = [p \in Port |-> Null]
  /\ table = [i \in Input |-> Null]
  /\ inRun = {} /\ outRun = {} /\ users = [t \in Tuner |-> 0]
  /\ reader = [p \in Port |-> "closed"] /\ writer = [p \in Port |-> "closed"]
  /\ request = [w \in Writer |-> Idle] /\ described = TRUE
-----------------------------------------------------------------------------
\* Mutant: the port before p keeps its redo.
Unlink_KeepRedo(p) ==
  LET oredi == outRedi[p] IN
  IF oredi = Null
  THEN UNCHANGED linkVars
  ELSE /\ outRedi' = [outRedi EXCEPT ![p] = Null]
       /\ redi' = [redi EXCEPT ![oredi] = redi[p], ![p] = Null]
       /\ redo' = [redo EXCEPT ![p] = Null]
       /\ table' = [table EXCEPT ![oredi] = Null]

\* Mutant: the DMA table of the port before p is not set back.
Unlink_KeepTable(p) ==
  LET oredi == outRedi[p] IN
  IF oredi = Null
  THEN UNCHANGED linkVars
  ELSE /\ outRedi' = [outRedi EXCEPT ![p] = Null]
       /\ redi' = [redi EXCEPT ![oredi] = redi[p], ![p] = Null]
       /\ redo' = [redo EXCEPT ![p] = Null, ![oredi] = Null]
       /\ UNCHANGED table

(* ddb_unredirect: take port p out of its chain.  The port after it, if     *)
(* there is one, becomes the output that the port before it feeds; the last *)
(* assignments then clear the links of both ends.                           *)
Unlink(p) ==
  LET oredi == outRedi[p]
      iredi == redi[p]
      iredo == redo[p]
      Next1(f, v) == IF iredo = Null THEN f ELSE [f EXCEPT ![iredo] = v]
  IN IF oredi = Null
     THEN UNCHANGED linkVars
     ELSE /\ outRedi' = [Next1(outRedi, oredi) EXCEPT ![p] = Null]
          /\ redi' = [Next1(redi, iredi) EXCEPT ![oredi] = iredi, ![p] = Null]
          /\ redo' = [redo EXCEPT ![p] = Null, ![oredi] = Null]
          /\ table' = [table EXCEPT ![p] = IF iredo = Null THEN @ ELSE Null,
                                    ![oredi] = Null]

(* The second half of ddb_redirect: pipe input i through port p.            *)
Link(i, p) ==
  /\ redi' = IF redi[i] = Null THEN [redi EXCEPT ![p] = i]
                               ELSE [redi EXCEPT ![p] = redi[i], ![i] = Null]
  /\ redo' = [redo EXCEPT ![i] = p]
  /\ outRedi' = [outRedi EXCEPT ![p] = i]
  /\ table' = [table EXCEPT ![i] = p]

(* redirect_store up to the end of ddb_unredirect; input 8 (Null) only      *)
(* takes the port out.                                                      *)
StoreUnlink(w, i, p) ==
  /\ request[w] = Idle
  /\ p \notin outRun
  /\ Unlink(p)
  /\ request' = IF i = Null THEN request ELSE [request EXCEPT ![w] = [input |-> i, port |-> p]]
  /\ UNCHANGED <<runVars, userVars>>

\* Mutant: nothing is tested after the lock was dropped.
StoreLink_Unchecked(w) ==
  /\ request[w] # Idle
  /\ Link(request[w].input, request[w].port)
  /\ request' = [request EXCEPT ![w] = Idle]
  /\ UNCHANGED <<runVars, userVars>>

(* The rest of ddb_redirect, under the lock taken again.                    *)
StoreLink(w) ==
  LET i == request[w].input
      p == request[w].port
  IN /\ request[w] # Idle
     /\ IF p \in outRun \/ i \in inRun THEN UNCHANGED linkVars ELSE Link(i, p)
     /\ request' = [request EXCEPT ![w] = Idle]
     /\ UNCHANGED <<runVars, userVars>>
-----------------------------------------------------------------------------
(* The ports that ddb_input_start_all and ddb_input_stop_all visit from     *)
(* input i: redo[i] and on from there.                                      *)
Onward(C) == \A p \in C : redo[p] \in C \cup {Null}

Chain(i) ==
  {p \in Port : \A C \in SUBSET Port : redo[i] \in C \cup {Null} /\ Onward(C) => p \in C}

StartFeed(t) ==
  /\ users[t] < MaxFeed
  /\ users' = [users EXCEPT ![t] = @ + 1]
  /\ IF users[t] = 0
     THEN outRun' = outRun \cup Chain(t) /\ inRun' = inRun \cup Chain(t) \cup {t}
     ELSE UNCHANGED runVars
  /\ UNCHANGED <<linkVars, reader, writer, request>>

\* Mutant: only the tuner input is stopped, not its chain.
StopFeed_InputOnly(t) ==
  /\ users[t] > 0
  /\ users' = [users EXCEPT ![t] = @ - 1]
  /\ inRun' = IF users[t] = 1 THEN inRun \ {t} ELSE inRun
  /\ UNCHANGED <<outRun, linkVars, reader, writer, request>>

StopFeed(t) ==
  /\ users[t] > 0
  /\ users' = [users EXCEPT ![t] = @ - 1]
  /\ IF users[t] = 1
     THEN outRun' = outRun \ Chain(t) /\ inRun' = inRun \ (Chain(t) \cup {t})
     ELSE UNCHANGED runVars
  /\ UNCHANGED <<linkVars, reader, writer, request>>

(* ts_open for reading: the test of redo and redi, then the start.          *)
OpenReader(p) ==
  /\ reader[p] = "closed" /\ redo[p] = Null /\ redi[p] = Null
  /\ reader' = [reader EXCEPT ![p] = "opening"]
  /\ UNCHANGED <<linkVars, runVars, users, writer, request>>

StartReader(p) ==
  /\ reader[p] = "opening"
  /\ reader' = [reader EXCEPT ![p] = "open"]
  /\ inRun' = inRun \cup {p}
  /\ UNCHANGED <<linkVars, outRun, users, writer, request>>

CloseReader(p) ==
  /\ reader[p] = "open"
  /\ reader' = [reader EXCEPT ![p] = "closed"]
  /\ inRun' = inRun \ {p}
  /\ UNCHANGED <<linkVars, outRun, users, writer, request>>

(* ts_open for writing tests nothing.                                       *)
OpenWriter(p) ==
  /\ writer[p] = "closed"
  /\ writer' = [writer EXCEPT ![p] = "open"]
  /\ outRun' = outRun \cup {p}
  /\ UNCHANGED <<linkVars, inRun, users, reader, request>>

CloseWriter(p) ==
  /\ writer[p] = "open"
  /\ writer' = [writer EXCEPT ![p] = "closed"]
  /\ outRun' = outRun \ {p}
  /\ UNCHANGED <<linkVars, inRun, users, reader, request>>

Step ==
  \/ \E w \in Writer, i \in Input \cup {Null}, p \in Port : StoreUnlink(w, i, p)
  \/ \E w \in Writer : StoreLink(w)
  \/ \E t \in Tuner : StartFeed(t) \/ StopFeed(t)
  \/ \E p \in Opened : \/ OpenReader(p) \/ StartReader(p) \/ CloseReader(p)
                       \/ OpenWriter(p) \/ CloseWriter(p)

(* The use docs/redirect describes: streams of tuner inputs are led through *)
(* ports from the tuner outwards, only the last port of a chain is taken    *)
(* out again, and nobody opens a CI device.                                 *)
AsDescribed(i, p) ==
  /\ redo[p] = Null
  /\ i # Null => redi[i] # Null /\ i # p

SetupNext ==
  \/ \E w \in Writer, i \in Input \cup {Null}, p \in Port :
       AsDescribed(i, p) /\ StoreUnlink(w, i, p)
  \/ \E w \in Writer : StoreLink(w)
  \/ \E t \in Tuner : StartFeed(t) \/ StopFeed(t)

Next == Step /\ described' = (described /\ SetupNext)

Spec == Init /\ [][Next]_vars
-----------------------------------------------------------------------------
TypeOK ==
  /\ redi \in [Input -> Input \cup {Null}] /\ redo \in [Input -> Port \cup {Null}]
  /\ outRedi \in [Port -> Input \cup {Null}] /\ table \in [Input -> Port \cup {Null}]
  /\ inRun \subseteq Input /\ outRun \subseteq Port
  /\ users \in [Tuner -> 0 .. MaxFeed]
  /\ reader \in [Port -> {"closed", "opening", "open"}]
  /\ writer \in [Port -> {"closed", "open"}]
  /\ request \in [Writer -> {Idle} \cup [input : Input, port : Port]]
  /\ described \in BOOLEAN

(* An input that hands its buffers to an output is the one that output      *)
(* acknowledges to, so no two inputs fill the buffers of one output.        *)
RedoHasBackLink == \A i \in Input : redo[i] # Null => outRedi[redo[i]] = i

(* The engine of an input fills the buffers of the output it is linked to,  *)
(* and its own again after the link is gone, however links are rearranged.  *)
TableMatches == table = redo

(* Both together: the links of the two ends and the tables never disagree.  *)
LinksPaired == RedoHasBackLink /\ TableMatches

(* The loops of ddb_input_start_all and ddb_input_stop_all end: no port is  *)
(* reached twice from a tuner input.                                        *)
ChainsEnd == \A t \in Tuner : \A p \in Chain(t) : p \notin Chain(p)

(* The stream of a tuner input, piped or not, shows up in the demux of that *)
(* tuner input, and only once: one input along its way delivers to that     *)
(* demux, and no other input at all.                                        *)
Delivered ==
  \A t \in Tuner : \E i \in Chain(t) \cup {t} : \A j \in Input : redi[j] = t <=> j = i

(* An input delivers behind the last port of its way, and only to demuxes   *)
(* that exist: a CI port has none.                                          *)
EndsAtDemux == \A i \in Input : redi[i] # Null => redi[i] \in Tuner /\ redo[i] = Null

(* When the last feed is gone every channel of the chain has stopped.       *)
AllStopped == (\A t \in Tuner : users[t] = 0) => inRun = {} /\ outRun = {}

(* While an input has feeds, nothing along its way is rewired and every     *)
(* channel on it runs.                                                      *)
ChainKept ==
  \A t \in Tuner : users[t] > 0 /\ users'[t] > 0 =>
    /\ Chain(t)' = Chain(t)
    /\ Chain(t) \subseteq outRun' /\ Chain(t) \cup {t} \subseteq inRun'
    /\ \A i \in Chain(t) \cup {t} : redi'[i] = redi[i] /\ table'[i] = table[i]

(* What the documentation promises of the use it describes: every stream    *)
(* goes through the ports it is led through and then shows up in the demux  *)
(* of its tuner input; and a chain runs only while a feed does, ...         *)
DescribedComplete == described => Delivered /\ EndsAtDemux /\ AllStopped

(* ... and the rest of a running chain is kept when a link changes.         *)
DescribedChainKept == [][described' => ChainKept]_vars
=============================================================================
