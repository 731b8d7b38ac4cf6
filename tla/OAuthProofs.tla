----------------------------- MODULE OAuthProofs -----------------------------
(* Proofs about the authorisation flows (OAuth), for any set of providers, any *)
(* range of ports and any number of connections and faults.                    *)
EXTENDS OAuth, TLAPS

Futures == {"none", "pending", "own", "foreign", "failed", "cancelled",
            "error", "something else", "nothing"}
Flows == [at : {"idle", "binding", "waiting", "stopping", "giving up", "saving"}, port : Nat]
Servers == [port : 0..NumPorts, open : BOOLEAN, fut : Futures]
Connections == [to : Providers, leaked : BOOLEAN, at : {"reading", "told", "closing"}, says : Futures]

ServerTypes ==
  /\ flow \in [Providers -> Flows] /\ srv \in [Providers -> Servers]
  /\ leaks \subseteq Providers \X Ports
  /\ conns \in [Conns -> Connections \cup {None}]

\* A server listens only for a flow that waits; one that is_running but closed,
\* as a cancelled stop() leaves it, has a future that is done.
OpenWaits == \A p \in Providers : srv[p].open => flow[p].at = "waiting" /\ srv[p].port \in Ports
ClosedIsDone == \A p \in Providers : srv[p].port # 0 /\ ~srv[p].open => srv[p].fut # "pending"
ServerInv == ServerTypes /\ OpenWaits /\ ClosedIsDone /\ FlowHeard

\* A file is never torn, and one that is about to replace it is whole.
FileInv ==
  /\ disk \in [Providers -> {None, "whole"}]
  /\ temp \in [Providers -> [Processes -> {None, "torn", "whole"}]]
  /\ saves \in [Providers -> [Processes -> {"no", "mkdir", "open", "written"}]]
  /\ \A p \in Providers, w \in Processes : saves[p][w] = "written" => temp[p][w] = "whole"

\* The flow's own save is under way only while the flow waits for it.
SavesWait == \A p \in Providers : saves[p]["own"] # "no" => flow[p].at = "saving"

IInv == ServerInv /\ FileInv /\ SavesWait

-----------------------------------------------------------------------------
(* The servers *)

LEMMA PortsAreNumbers == Ports \subseteq 0..NumPorts /\ 0 \notin Ports /\ 0 \in 0..NumPorts
BY OAuthAssumption DEF Ports

\* A future that is done stays done when its flow is over.
LEMMA PastKeepsDone ==
  \A f \in Futures : Past(f) \in Futures /\ (Past(f) = "pending" => f = "pending")
BY DEF Past, Futures

\* What a flow's end does to the connections keeps their types.
LEMMA PastConnsTyped ==
  ASSUME ServerTypes, NEW S
  PROVE  PastConns(S) \in [Conns -> Connections \cup {None}]
<1>1. ASSUME NEW i \in Conns, conns[i] # None
      PROVE  [conns[i] EXCEPT !.says = Past(@)] \in Connections
  <2>1. conns[i] \in Connections
    BY <1>1 DEF ServerTypes
  <2> QED
    BY <2>1, PastKeepsDone DEF Connections
<1> QED
  BY <1>1 DEF PastConns, ServerTypes

\* Between a flow and its server nothing is amiss, whatever their values were
\* before: the invariant for one provider, and the others as they were.
LEMMA OneServer ==
  ASSUME ServerInv, NEW p \in Providers, NEW f \in Flows, NEW s \in Servers,
         flow' = [flow EXCEPT ![p] = f], srv' = [srv EXCEPT ![p] = s],
         s.open => f.at = "waiting" /\ s.port \in Ports,
         s.port # 0 /\ ~s.open => s.fut # "pending",
         f.at = "waiting" /\ s.fut = "pending" => s.open,
         leaks' \subseteq Providers \X Ports, conns' \in [Conns -> Connections \cup {None}]
  PROVE  ServerInv'
<1>1. ServerTypes'
  BY DEF ServerInv, ServerTypes
<1>2. \A q \in Providers : /\ q = p => flow'[q] = f /\ srv'[q] = s
                           /\ q # p => flow'[q] = flow[q] /\ srv'[q] = srv[q]
  BY DEF ServerInv, ServerTypes
<1>3. OpenWaits'
  BY <1>2 DEF ServerInv, OpenWaits
<1>4. ClosedIsDone'
  BY <1>2 DEF ServerInv, ClosedIsDone
<1>5. FlowHeard'
  BY <1>2 DEF ServerInv, FlowHeard
<1> QED
  BY <1>1, <1>3, <1>4, <1>5 DEF ServerInv

\* The initial states have no server and no connection.
LEMMA InitServers == Init => ServerInv
<1> SUFFICES ASSUME Init PROVE ServerInv
  OBVIOUS
<1>1. Idle \in Flows /\ NoServer \in Servers
  BY PortsAreNumbers DEF Idle, NoServer, Flows, Servers, Futures
<1>2. ServerTypes
  BY <1>1 DEF Init, ServerTypes
<1>3. \A p \in Providers : flow[p] = Idle /\ srv[p] = NoServer
  BY DEF Init
<1> QED
  BY <1>2, <1>3 DEF ServerInv, OpenWaits, ClosedIsDone, FlowHeard, Idle, NoServer

\* What the invariant says of one provider.
LEMMA OfOne ==
  ASSUME ServerInv, NEW p \in Providers
  PROVE  /\ flow[p] \in Flows /\ srv[p] \in Servers
         /\ srv[p].open => flow[p].at = "waiting" /\ srv[p].port \in Ports
         /\ srv[p].port # 0 /\ ~srv[p].open => srv[p].fut # "pending"
         /\ flow[p].at = "waiting" /\ srv[p].fut = "pending" => srv[p].open /\ srv[p].port \in Ports
BY DEF ServerInv, ServerTypes, OpenWaits, ClosedIsDone, FlowHeard

\* A new flow uses the server there is, if any: it is closed, and its answer there.
LEMMA RedirectKeeps ==
  ASSUME ServerInv, NEW p \in Providers, RedirectHandler(p)
  PROVE  ServerInv'
<1> USE OfOne DEF RedirectHandler
<1>0. leaks' \subseteq Providers \X Ports /\ conns' \in [Conns -> Connections \cup {None}]
  BY DEF ServerInv, ServerTypes
<1>1. CASE srv[p].port # 0
  <2> DEFINE f == [flow[p] EXCEPT !.at = "waiting"]
  <2>1. f \in Flows /\ f.at = "waiting"
    BY DEF Flows
  <2>2. flow' = [flow EXCEPT ![p] = f] /\ srv' = [srv EXCEPT ![p] = srv[p]]
    BY <1>1 DEF ServerInv, ServerTypes
  <2>3. ~srv[p].open /\ srv[p].fut # "pending"
    BY <1>1
  <2> HIDE DEF f
  <2> QED
    BY <1>0, <2>1, <2>2, <2>3, OneServer
<1>2. CASE srv[p].port = 0
  <2> DEFINE f == [at |-> "binding", port |-> 1]
             s == [srv[p] EXCEPT !.fut = "pending"]
  <2>1. f \in Flows /\ f.at = "binding"
    BY DEF Flows
  <2>2. s \in Servers /\ s.port = 0 /\ ~s.open
    BY <1>2, PortsAreNumbers DEF Servers, Futures
  <2>3. flow' = [flow EXCEPT ![p] = f] /\ srv' = [srv EXCEPT ![p] = s]
    BY <1>2 DEF ServerInv, ServerTypes
  <2> HIDE DEF f, s
  <2> QED
    BY <1>0, <2>1, <2>2, <2>3, OneServer
<1> QED
  BY <1>1, <1>2

\* A port is bound only when it is one of the range.
LEMMA StartKeeps ==
  ASSUME ServerInv, NEW p \in Providers, Start(p)
  PROVE  ServerInv'
<1> DEFINE port == flow[p].port
<1>0. leaks' \subseteq Providers \X Ports /\ conns' \in [Conns -> Connections \cup {None}]
  BY DEF ServerInv, ServerTypes, Start
<1>1. flow[p].at = "binding" /\ flow[p] \in Flows /\ srv[p] \in Servers /\ ~srv[p].open
  BY OfOne DEF Start
<1>2. srv[p].port # 0 => srv[p].fut # "pending"
  BY <1>1, OfOne
<1>3. CASE port \notin Ports /\ flow' = [flow EXCEPT ![p] = Idle] /\ UNCHANGED srv
  <2>1. Idle \in Flows /\ Idle.at = "idle"
    BY DEF Idle, Flows
  <2>2. srv' = [srv EXCEPT ![p] = srv[p]]
    BY <1>3 DEF ServerInv, ServerTypes
  <2> QED
    BY <1>0, <1>1, <1>2, <1>3, <2>1, <2>2, OneServer
<1>4. CASE flow' = [flow EXCEPT ![p].port = port + 1] /\ UNCHANGED srv
  <2> DEFINE f == [flow[p] EXCEPT !.port = port + 1]
  <2>0. port \in Nat
    BY <1>1 DEF Flows
  <2>1. f \in Flows /\ f.at = "binding"
    <3>1. \A n \in Nat : /\ [flow[p] EXCEPT !.port = n] \in Flows
                        /\ [flow[p] EXCEPT !.port = n].at = "binding"
      BY <1>1 DEF Flows
    <3>2. \A n \in Nat : n + 1 \in Nat
      OBVIOUS
    <3> HIDE DEF port
    <3>3. port + 1 \in Nat
      BY <2>0, <3>2
    <3> QED
      BY <3>1, <3>3
  <2>2. flow' = [flow EXCEPT ![p] = f] /\ srv' = [srv EXCEPT ![p] = srv[p]]
    BY <1>4 DEF ServerInv, ServerTypes
  <2> HIDE DEF f
  <2> QED
    BY <1>0, <1>1, <1>2, <2>1, <2>2, OneServer
<1>5. CASE /\ port \in Ports
           /\ srv' = [srv EXCEPT ![p].port = port, ![p].open = TRUE]
           /\ flow' = [flow EXCEPT ![p] = [at |-> "waiting", port |-> 0]]
  <2> DEFINE f == [at |-> "waiting", port |-> 0]
             s == [srv[p] EXCEPT !.port = port, !.open = TRUE]
  <2>1. f \in Flows /\ f.at = "waiting"
    BY DEF Flows
  <2>2. s \in Servers /\ s.open /\ s.port \in Ports
    BY <1>1, <1>5, PortsAreNumbers DEF Servers
  <2>3. srv' = [srv EXCEPT ![p] = s]
    BY <1>5 DEF ServerInv, ServerTypes
  <2>4. flow' = [flow EXCEPT ![p] = f]
    BY <1>5
  <2> HIDE DEF f, s
  <2> QED
    BY <1>0, <2>1, <2>2, <2>3, <2>4, OneServer
<1> QED
  BY <1>3, <1>4, <1>5 DEF Start

\* The server is closed only when its future is done.
LEMMA AnsweredKeeps ==
  ASSUME ServerInv, NEW p \in Providers, Answered(p)
  PROVE  ServerInv'
<1> DEFINE f == [flow[p] EXCEPT !.at = "stopping"]
           s == [srv[p] EXCEPT !.open = FALSE]
<1>0. leaks' \subseteq Providers \X Ports /\ conns' \in [Conns -> Connections \cup {None}]
  BY DEF ServerInv, ServerTypes, Answered
<1>1. f \in Flows /\ f.at = "stopping"
  BY OfOne DEF Flows
<1>2. s \in Servers /\ ~s.open /\ s.fut # "pending"
  BY OfOne DEF Servers, Answered
<1>3. flow' = [flow EXCEPT ![p] = f] /\ srv' = [srv EXCEPT ![p] = s]
  BY DEF Answered, ServerInv, ServerTypes
<1> HIDE DEF f, s
<1> QED
  BY <1>0, <1>1, <1>2, <1>3, OneServer

\* The end of a flow whose server is closed and, if it is still there, done.
LEMMA OverKeeps ==
  ASSUME ServerInv, NEW p \in Providers, NEW s \in Servers, Over(p, s),
         ~s.open, s.port # 0 => s.fut # "pending", leaks' \subseteq Providers \X Ports
  PROVE  ServerInv'
<1>1. conns' \in [Conns -> Connections \cup {None}]
  BY PastConnsTyped DEF Over, ServerInv
<1>2. Idle \in Flows /\ Idle.at = "idle"
  BY DEF Idle, Flows
<1> QED
  BY <1>1, <1>2, OneServer DEF Over

\* Outside a flow that waits the server is closed.
LEMMA StopKeeps ==
  ASSUME ServerInv, NEW p \in Providers, Stop(p)
  PROVE  ServerInv'
<1>0. leaks' \subseteq Providers \X Ports
  BY DEF ServerInv, ServerTypes, Stop
<1>1. flow[p] \in Flows /\ srv[p] \in Servers /\ ~srv[p].open
  BY OfOne DEF Stop
<1>2. CASE Over(p, Unset(p))
  <2>1. Unset(p) \in Servers /\ ~Unset(p).open /\ Unset(p).port = 0
    BY <1>1, PastKeepsDone, PortsAreNumbers DEF Unset, Servers
  <2> QED
    BY <1>0, <1>2, <2>1, OverKeeps
<1>3. CASE /\ flow' = [flow EXCEPT ![p].at = "saving"] /\ srv' = [srv EXCEPT ![p].port = 0]
           /\ UNCHANGED conns
  <2> DEFINE f == [flow[p] EXCEPT !.at = "saving"]
             s == [srv[p] EXCEPT !.port = 0]
  <2>1. f \in Flows /\ f.at = "saving"
    BY <1>1 DEF Flows
  <2>2. s \in Servers /\ ~s.open /\ s.port = 0
    BY <1>1, PortsAreNumbers DEF Servers
  <2>3. flow' = [flow EXCEPT ![p] = f] /\ srv' = [srv EXCEPT ![p] = s]
    BY <1>3 DEF ServerInv, ServerTypes
  <2>4. conns' \in [Conns -> Connections \cup {None}]
    BY <1>3 DEF ServerInv, ServerTypes
  <2> HIDE DEF f, s
  <2> QED
    BY <1>0, <2>1, <2>2, <2>3, <2>4, OneServer
<1> QED
  BY <1>2, <1>3 DEF Stop

\* A flow that is cancelled leaves no future pending behind a closed server.
LEMMA CancelKeeps ==
  ASSUME ServerInv, NEW p \in Providers, Cancel(p)
  PROVE  ServerInv'
<1>0. flow[p] \in Flows /\ srv[p] \in Servers
  BY OfOne
<1>1. CASE CancelStart(p)
  <2>1. leaks' \subseteq Providers \X Ports
    BY <1>1 DEF CancelStart, ServerInv, ServerTypes
  <2>2. ~srv[p].open /\ (srv[p].port # 0 => srv[p].fut # "pending")
    BY <1>1, OfOne DEF CancelStart
  <2> QED
    BY <1>0, <1>1, <2>1, <2>2, OverKeeps DEF CancelStart
<1>2. CASE CancelWait(p)
  <2> DEFINE f == [flow[p] EXCEPT !.at = "giving up"]
             s == [srv[p] EXCEPT !.open = FALSE, !.fut = Cancelled(@)]
  <2>0. leaks' \subseteq Providers \X Ports /\ conns' \in [Conns -> Connections \cup {None}]
    BY <1>2 DEF CancelWait, ServerInv, ServerTypes
  <2>1. f \in Flows /\ f.at = "giving up"
    BY <1>0 DEF Flows
  <2>2. s \in Servers /\ ~s.open /\ s.fut # "pending"
    BY <1>0 DEF Servers, Cancelled, Futures
  <2>3. flow' = [flow EXCEPT ![p] = f] /\ srv' = [srv EXCEPT ![p] = s]
    BY <1>2 DEF CancelWait, ServerInv, ServerTypes
  <2> HIDE DEF f, s
  <2> QED
    BY <2>0, <2>1, <2>2, <2>3, OneServer
<1>3. CASE CancelStop(p)
  <2> DEFINE s == [srv[p] EXCEPT !.fut = Past(@)]
  <2>1. leaks' \subseteq Providers \X Ports
    BY <1>3 DEF CancelStop, ServerInv, ServerTypes
  <2>2. ~srv[p].open /\ (srv[p].port # 0 => srv[p].fut # "pending")
    BY <1>3, OfOne DEF CancelStop
  <2>3. s \in Servers /\ ~s.open /\ (s.port # 0 => s.fut # "pending")
    BY <1>0, <2>2, PastKeepsDone DEF Servers
  <2>4. Over(p, s)
    BY <1>3 DEF CancelStop
  <2> HIDE DEF s
  <2> QED
    BY <2>1, <2>3, <2>4, OverKeeps
<1> QED
  BY <1>1, <1>2, <1>3 DEF Cancel

\* A step that leaves the flows, the servers and those forgotten alone.
LEMMA ServersUnchanged ==
  ASSUME ServerInv, UNCHANGED <<flow, srv, leaks>>,
         conns' \in [Conns -> Connections \cup {None}]
  PROVE  ServerInv'
BY DEF ServerInv, ServerTypes, OpenWaits, ClosedIsDone, FlowHeard

\* An answer settles a future that is pending and changes nothing else.
LEMMA SettleKeeps ==
  ASSUME ServerInv, NEW q \in Providers, NEW result \in Futures, Settle(q, result),
         UNCHANGED <<flow, leaks>>, conns' \in [Conns -> Connections \cup {None}]
  PROVE  ServerInv'
<1> DEFINE done == IF srv[q].fut = "pending" THEN result ELSE srv[q].fut
           s == [srv[q] EXCEPT !.fut = done]
<1>1. flow[q] \in Flows /\ srv[q] \in Servers
  BY OfOne
<1>2. done \in Futures /\ (done = "pending" => srv[q].fut = "pending")
  BY <1>1 DEF Servers
<1> HIDE DEF done
<1>3. s \in Servers /\ s.port = srv[q].port /\ s.open = srv[q].open /\ s.fut = done
  BY <1>1, <1>2 DEF Servers
<1>4. srv' = [srv EXCEPT ![q] = s]
  BY DEF Settle, done, ServerInv, ServerTypes
<1>5. flow' = [flow EXCEPT ![q] = flow[q]] /\ leaks' \subseteq Providers \X Ports
  BY DEF ServerInv, ServerTypes
<1> HIDE DEF s
<1> QED
  BY <1>1, <1>2, <1>3, <1>4, <1>5, OfOne, OneServer

\* What a connection does.
LEMMA ConnKeeps ==
  ASSUME ServerInv, NEW i \in Conns, Connect(i) \/ Respond(i) \/ SetResult(i) \/ Closed(i)
  PROVE  ServerInv'
<1>0. conns \in [Conns -> Connections \cup {None}] /\ leaks \subseteq Providers \X Ports
  BY DEF ServerInv, ServerTypes
<1>1. CASE Connect(i)
  <2>1. \A l \in Listening : l[1] \in Providers
    BY <1>0 DEF Listening
  <2>2. \A l \in Listening, says \in Futures :
          [to |-> l[1], leaked |-> l \in leaks, at |-> "reading", says |-> says] \in Connections
    BY <2>1 DEF Connections
  <2>3. PICK c \in Connections : conns' = [conns EXCEPT ![i] = c]
    BY <1>1, <2>2 DEF Connect, Futures
  <2>4. conns' \in [Conns -> Connections \cup {None}]
    BY <1>0, <2>3
  <2> QED
    BY <1>1, <2>4, ServersUnchanged DEF Connect
<1>2. CASE Respond(i)
  <2>1. conns[i] \in Connections
    BY <1>0, <1>2 DEF Respond
  <2>2. \A at \in {"told", "closing"} : [conns[i] EXCEPT !.at = at] \in Connections
    BY <2>1 DEF Connections
  <2>3. PICK c \in Connections : conns' = [conns EXCEPT ![i] = c]
    <3>1. PICK at \in {"told", "closing"} : conns' = [conns EXCEPT ![i].at = at]
      BY <1>2 DEF Respond
    <3>2. conns' = [conns EXCEPT ![i] = [conns[i] EXCEPT !.at = at]]
      BY <3>1, <1>0
    <3> QED
      BY <3>2, <2>2
  <2>4. conns' \in [Conns -> Connections \cup {None}]
    BY <1>0, <2>3
  <2>5. conns[i].to \in Providers /\ "failed" \in Futures
    BY <2>1 DEF Connections, Futures
  <2>6. UNCHANGED <<flow, leaks>> /\ (UNCHANGED srv \/ Settle(conns[i].to, "failed"))
    BY <1>2 DEF Respond
  <2> QED
    BY <2>4, <2>5, <2>6, ServersUnchanged, SettleKeeps
<1>3. CASE SetResult(i)
  <2>1. conns[i] \in Connections
    BY <1>0, <1>3 DEF SetResult
  <2>2. [conns[i] EXCEPT !.at = "closing"] \in Connections
    BY <2>1 DEF Connections
  <2>3. conns' = [conns EXCEPT ![i] = [conns[i] EXCEPT !.at = "closing"]]
    BY <1>0, <1>3 DEF SetResult
  <2>4. conns' \in [Conns -> Connections \cup {None}]
    BY <1>0, <2>2, <2>3
  <2> DEFINE result == IF conns[i].says = "error" THEN "failed" ELSE conns[i].says
  <2>5. conns[i].to \in Providers /\ result \in Futures
    BY <2>1 DEF Connections, Futures
  <2>6. UNCHANGED <<flow, leaks>> /\ Settle(conns[i].to, result)
    BY <1>3 DEF SetResult
  <2> HIDE DEF result
  <2> QED
    BY <2>4, <2>5, <2>6, SettleKeeps
<1>4. CASE Closed(i)
  <2>1. conns' \in [Conns -> Connections \cup {None}]
    BY <1>0, <1>4 DEF Closed, Close
  <2> QED
    BY <1>4, <2>1, ServersUnchanged DEF Closed
<1> QED
  BY <1>1, <1>2, <1>3, <1>4

\* The end of a save of the flow's own tokens is the end of the flow.
LEMMA SaveKeeps ==
  ASSUME ServerInv, NEW p \in Providers, NEW w \in Processes, Save(p, w),
         saves[p]["own"] # "no" => flow[p].at = "saving"
  PROVE  ServerInv'
<1>0. conns \in [Conns -> Connections \cup {None}] /\ leaks \subseteq Providers \X Ports
  BY DEF ServerInv, ServerTypes
<1>1. CASE UNCHANGED serverVars
  BY <1>0, <1>1, ServersUnchanged DEF serverVars
<1>2. CASE w = "own" /\ SaveEnds(p, w)
  <2> DEFINE s == [srv[p] EXCEPT !.fut = Past(@)]
  <2>1. flow[p].at = "saving"
    BY <1>2 DEF Save, SaveFails, Replace, SaveGoes, OpenTemp, WriteTemp
  <2>2. srv[p] \in Servers /\ ~srv[p].open /\ (srv[p].port # 0 => srv[p].fut # "pending")
    BY <2>1, OfOne
  <2>3. s \in Servers /\ ~s.open /\ (s.port # 0 => s.fut # "pending")
    BY <2>2, PastKeepsDone DEF Servers
  <2>4. Over(p, s) /\ leaks' \subseteq Providers \X Ports
    BY <1>0, <1>2 DEF SaveEnds
  <2> HIDE DEF s
  <2> QED
    BY <2>3, <2>4, OverKeeps
<1> QED
  BY <1>1, <1>2 DEF Save, SaveEnds

-----------------------------------------------------------------------------
(* The files *)

\* One process's save of one provider's tokens goes a step further.
LEMMA OneSave ==
  ASSUME FileInv, NEW p \in Providers, NEW w \in Processes,
         NEW at \in {"no", "mkdir", "open", "written"}, NEW t \in {None, "torn", "whole"},
         saves' = [saves EXCEPT ![p][w] = at], temp' = [temp EXCEPT ![p][w] = t],
         disk' \in [Providers -> {None, "whole"}], at = "written" => t = "whole"
  PROVE  FileInv'
<1>1. saves' = [saves EXCEPT ![p] = [saves[p] EXCEPT ![w] = at]]
  BY DEF FileInv
<1>2. temp' = [temp EXCEPT ![p] = [temp[p] EXCEPT ![w] = t]]
  BY DEF FileInv
<1>3. /\ [saves[p] EXCEPT ![w] = at] \in [Processes -> {"no", "mkdir", "open", "written"}]
      /\ [temp[p] EXCEPT ![w] = t] \in [Processes -> {None, "torn", "whole"}]
  BY DEF FileInv
<1>4. saves' \in [Providers -> [Processes -> {"no", "mkdir", "open", "written"}]]
  BY <1>1, <1>3 DEF FileInv
<1>5. temp' \in [Providers -> [Processes -> {None, "torn", "whole"}]]
  BY <1>2, <1>3 DEF FileInv
<1>6. ASSUME NEW q \in Providers, NEW v \in Processes, saves'[q][v] = "written"
      PROVE  temp'[q][v] = "whole"
  <2>1. CASE q = p /\ v = w
    BY <1>1, <1>2, <1>6, <2>1 DEF FileInv
  <2>2. CASE ~(q = p /\ v = w)
    <3>1. saves'[q][v] = saves[q][v] /\ temp'[q][v] = temp[q][v]
      BY <1>1, <1>2, <2>2 DEF FileInv
    <3> QED
      BY <1>6, <3>1 DEF FileInv
  <2> QED
    BY <2>1, <2>2
<1> QED
  BY <1>4, <1>5, <1>6 DEF FileInv

\* Steps of a save, and what they do to the token file.
LEMMA SaveFiles ==
  ASSUME FileInv, NEW p \in Providers, NEW w \in Processes, Save(p, w)
  PROVE  FileInv' /\ \A q \in Providers : disk[q] = "whole" => disk'[q] = "whole"
<1>0. /\ disk \in [Providers -> {None, "whole"}] /\ temp[p][w] \in {None, "torn", "whole"}
      /\ temp = [temp EXCEPT ![p][w] = temp[p][w]]
  BY DEF FileInv
<1>1. CASE OpenTemp(p, w)
  <2>1. saves' = [saves EXCEPT ![p][w] = "open"] /\ temp' = [temp EXCEPT ![p][w] = "torn"]
    BY <1>1 DEF OpenTemp, SaveGoes, Truncate
  <2>2. disk' = disk
    BY <1>1 DEF OpenTemp, Truncate
  <2> QED
    BY <1>0, <2>1, <2>2, OneSave
<1>2. CASE WriteTemp(p, w)
  <2>1. saves' = [saves EXCEPT ![p][w] = "written"] /\ temp' = [temp EXCEPT ![p][w] = "whole"]
    BY <1>2 DEF WriteTemp, SaveGoes
  <2>2. disk' = disk
    BY <1>2 DEF WriteTemp
  <2> QED
    BY <1>0, <2>1, <2>2, OneSave
<1>3. CASE Replace(p, w)
  <2>1. saves' = [saves EXCEPT ![p][w] = "no"] /\ temp' = [temp EXCEPT ![p][w] = None]
    BY <1>3 DEF Replace, SaveGoes
  <2>2. disk' = [disk EXCEPT ![p] = "whole"]
    BY <1>3 DEF Replace, SaveGoes, FileInv
  <2>3. disk' \in [Providers -> {None, "whole"}]
    BY <1>0, <2>2
  <2>4. \A q \in Providers : disk[q] = "whole" => disk'[q] = "whole"
    BY <1>0, <2>2
  <2> QED
    BY <2>1, <2>3, <2>4, OneSave
<1>4. CASE SaveFails(p, w)
  <2>1. saves' = [saves EXCEPT ![p][w] = "no"] /\ temp' = [temp EXCEPT ![p][w] = None]
    BY <1>4 DEF SaveFails
  <2>2. disk' = disk
    BY <1>4 DEF SaveFails
  <2> QED
    BY <1>0, <2>1, <2>2, OneSave
<1> QED
  BY <1>1, <1>2, <1>3, <1>4 DEF Save

\* A save that begins, of either process, and one that dies with its process.
LEMMA SaveBegins ==
  ASSUME FileInv, NEW p \in Providers, NEW w \in Processes,
         saves' = [saves EXCEPT ![p][w] = "mkdir"], UNCHANGED <<disk, temp>>
  PROVE  FileInv'
<1>1. temp' = [temp EXCEPT ![p][w] = temp[p][w]] /\ temp[p][w] \in {None, "torn", "whole"}
  BY DEF FileInv
<1>2. disk' \in [Providers -> {None, "whole"}]
  BY DEF FileInv
<1> QED
  BY <1>1, <1>2, OneSave

LEMMA SavesDie ==
  ASSUME FileInv, NEW w \in Processes, UNCHANGED <<disk, temp>>,
         saves' = [p \in Providers |-> [saves[p] EXCEPT ![w] = "no"]]
  PROVE  FileInv'
<1>1. saves' \in [Providers -> [Processes -> {"no", "mkdir", "open", "written"}]]
  BY DEF FileInv
<1>2. \A p \in Providers, v \in Processes : saves'[p][v] = "written" => saves[p][v] = "written"
  BY DEF FileInv
<1> QED
  BY <1>1, <1>2 DEF FileInv

\* A flow that does not save may change; all others go on as they were.
LEMMA FlowChanges ==
  ASSUME IInv, NEW p \in Providers, flow[p].at # "saving", UNCHANGED saves,
         \A q \in Providers \ {p} : flow'[q] = flow[q]
  PROVE  SavesWait'
BY DEF IInv, SavesWait

\* The end of a flow leaves the other flows alone, and so does every step of one.
LEMMA FlowSteps ==
  ASSUME IInv, NEW p \in Providers,
         RedirectHandler(p) \/ Start(p) \/ Answered(p) \/ Cancel(p)
  PROVE  FileInv' /\ SavesWait' /\ disk' = disk
<1>1. UNCHANGED fileVars
  BY DEF RedirectHandler, Start, Answered, Cancel
<1>2. FileInv' /\ disk' = disk
  BY <1>1 DEF fileVars, IInv, FileInv
<1>3. flow[p].at # "saving"
  BY DEF RedirectHandler, Start, Answered, Cancel, CancelStart, CancelWait, CancelStop
<1>4. \A q \in Providers \ {p} : flow'[q] = flow[q]
  <2>1. flow \in [Providers -> Flows]
    BY DEF IInv, ServerInv, ServerTypes
  <2> QED
    BY <2>1 DEF RedirectHandler, Start, Answered, Cancel, CancelStart, CancelWait, CancelStop, Over
<1> QED
  BY <1>1, <1>2, <1>3, <1>4, FlowChanges DEF fileVars

LEMMA StopSteps ==
  ASSUME IInv, NEW p \in Providers, Stop(p)
  PROVE  FileInv' /\ SavesWait' /\ disk' = disk
<1>0. /\ flow \in [Providers -> Flows] /\ flow[p].at # "saving"
      /\ saves \in [Providers -> [Processes -> {"no", "mkdir", "open", "written"}]]
  BY DEF Stop, IInv, ServerInv, ServerTypes, FileInv
<1>1. CASE Over(p, Unset(p)) /\ UNCHANGED saves
  <2>1. \A q \in Providers \ {p} : flow'[q] = flow[q]
    BY <1>0, <1>1 DEF Over
  <2>2. SavesWait'
    BY <1>0, <1>1, <2>1, FlowChanges
  <2> QED
    BY <1>1, <2>2 DEF Stop, IInv, FileInv
<1>2. CASE /\ flow' = [flow EXCEPT ![p].at = "saving"]
           /\ saves' = [saves EXCEPT ![p]["own"] = "mkdir"]
  <2>1. FileInv'
    BY <1>2, SaveBegins DEF Stop, IInv, Processes
  <2>2. /\ \A q \in Providers \ {p} : flow'[q] = flow[q] /\ saves'[q] = saves[q]
        /\ flow'[p].at = "saving"
    <3>1. flow' = [flow EXCEPT ![p] = [flow[p] EXCEPT !.at = "saving"]]
      BY <1>0, <1>2
    <3>2. flow'[p] = [flow[p] EXCEPT !.at = "saving"] /\ flow[p] \in Flows
      BY <1>0, <3>1
    <3>3. flow'[p].at = "saving"
      BY <3>2 DEF Flows
    <3> QED
      BY <1>0, <1>2, <3>1, <3>3
  <2>3. SavesWait'
    BY <2>2 DEF IInv, SavesWait
  <2> QED
    BY <2>1, <2>3 DEF Stop
<1> QED
  BY <1>1, <1>2 DEF Stop

LEMMA SaveSteps ==
  ASSUME IInv, NEW p \in Providers, NEW w \in Processes, Save(p, w)
  PROVE  SavesWait'
<1>0. /\ flow \in [Providers -> Flows]
      /\ saves \in [Providers -> [Processes -> {"no", "mkdir", "open", "written"}]]
  BY DEF IInv, ServerInv, ServerTypes, FileInv
<1>1. PICK at : saves' = [saves EXCEPT ![p][w] = at]
  BY DEF Save, OpenTemp, WriteTemp, Replace, SaveFails, SaveGoes
<1>2. /\ \A q \in Providers \ {p} : saves'[q] = saves[q]
      /\ w = "other" => saves'[p]["own"] = saves[p]["own"]
  BY <1>0, <1>1 DEF Processes
<1>3. CASE UNCHANGED flow
  <2>1. w = "own" => saves[p]["own"] # "no"
    BY DEF Save, OpenTemp, WriteTemp, Replace, SaveFails, SaveGoes
  <2> QED
    BY <1>2, <1>3, <2>1 DEF IInv, SavesWait, Processes
<1>4. CASE w = "own" /\ SaveEnds(p, w) /\ saves' = [saves EXCEPT ![p][w] = "no"]
  <2>1. \A q \in Providers \ {p} : flow'[q] = flow[q]
    BY <1>0, <1>4 DEF SaveEnds, Over
  <2>2. saves'[p]["own"] = "no"
    BY <1>0, <1>4 DEF Processes
  <2> QED
    BY <1>2, <2>1, <2>2 DEF IInv, SavesWait
<1> QED
  BY <1>3, <1>4 DEF Save, SaveEnds, Replace, SaveFails, SaveGoes, serverVars, Processes

\* A process that dies leaves no server, and whole files.
LEMMA CrashKeeps ==
  ASSUME IInv, Crash
  PROVE  IInv' /\ disk' = disk
<1>1. ServerInv'
  <2>1. Idle \in Flows /\ NoServer \in Servers
    BY PortsAreNumbers DEF Idle, NoServer, Flows, Servers, Futures
  <2>2. ServerTypes'
    BY <2>1 DEF Crash, ServerTypes
  <2>3. \A p \in Providers : flow'[p] = Idle /\ srv'[p] = NoServer
    BY DEF Crash
  <2> QED
    BY <2>2, <2>3 DEF ServerInv, OpenWaits, ClosedIsDone, FlowHeard, Idle, NoServer
<1>2. FileInv'
  BY SavesDie DEF Crash, IInv, Processes
<1>3. SavesWait'
  BY DEF Crash, SavesWait, IInv, FileInv, Processes
<1> QED
  BY <1>1, <1>2, <1>3 DEF IInv, Crash

LEMMA OtherKeeps ==
  ASSUME IInv, OtherCrashes \/ \E p \in Providers : OtherSaves(p)
  PROVE  IInv' /\ disk' = disk
<1>0. UNCHANGED <<flow, srv, leaks, conns, disk>>
  BY DEF OtherCrashes, OtherSaves, serverVars
<1>1. ServerInv'
  <2>1. conns' \in [Conns -> Connections \cup {None}]
    BY <1>0 DEF IInv, ServerInv, ServerTypes
  <2> QED
    BY <1>0, <2>1, ServersUnchanged DEF IInv
<1>2. FileInv'
  BY SavesDie, SaveBegins DEF OtherCrashes, OtherSaves, SaveGoes, IInv, Processes
<1>3. \A p \in Providers : saves'[p]["own"] = saves[p]["own"]
  BY DEF OtherCrashes, OtherSaves, SaveGoes, IInv, FileInv, Processes
<1>4. SavesWait'
  BY <1>0, <1>3 DEF SavesWait, IInv
<1> QED
  BY <1>0, <1>1, <1>2, <1>4 DEF IInv

\* Every step keeps the invariant and every whole file whole.
LEMMA NextInv ==
  IInv /\ [Next]_vars => IInv' /\ \A q \in Providers : disk[q] = "whole" => disk'[q] = "whole"
<1> SUFFICES ASSUME IInv, [Next]_vars
             PROVE  IInv' /\ \A q \in Providers : disk[q] = "whole" => disk'[q] = "whole"
  OBVIOUS
<1>1. ASSUME NEW p \in Providers, RedirectHandler(p) \/ Start(p) \/ Answered(p) \/ Cancel(p)
      PROVE  IInv' /\ disk' = disk
  BY <1>1, FlowSteps, RedirectKeeps, StartKeeps, AnsweredKeeps, CancelKeeps DEF IInv
<1>2. ASSUME NEW p \in Providers, Stop(p)
      PROVE  IInv' /\ disk' = disk
  BY <1>2, StopSteps, StopKeeps DEF IInv
<1>3. ASSUME NEW p \in Providers, NEW w \in Processes, Save(p, w)
      PROVE  IInv' /\ \A q \in Providers : disk[q] = "whole" => disk'[q] = "whole"
  <2>1. ServerInv'
    BY <1>3, SaveKeeps DEF IInv, SavesWait
  <2>2. FileInv' /\ \A q \in Providers : disk[q] = "whole" => disk'[q] = "whole"
    BY <1>3, SaveFiles DEF IInv
  <2>3. SavesWait'
    BY <1>3, SaveSteps
  <2> QED
    BY <2>1, <2>2, <2>3 DEF IInv
<1>4. ASSUME NEW i \in Conns, Connect(i) \/ Respond(i) \/ SetResult(i) \/ Closed(i)
      PROVE  IInv' /\ disk' = disk
  <2>1. ServerInv'
    BY <1>4, ConnKeeps DEF IInv
  <2>2. UNCHANGED <<flow, fileVars>>
    BY <1>4 DEF Connect, Respond, SetResult, Closed
  <2> QED
    BY <2>1, <2>2 DEF IInv, FileInv, SavesWait, fileVars
<1>5. CASE UNCHANGED vars
  <2>1. ServerInv'
    BY <1>5 DEF vars, IInv, ServerInv, ServerTypes, OpenWaits, ClosedIsDone, FlowHeard
  <2> QED
    BY <1>5, <2>1 DEF vars, IInv, FileInv, SavesWait
<1> QED
  BY <1>1, <1>2, <1>3, <1>4, <1>5, CrashKeeps, OtherKeeps DEF Next

LEMMA InitInv == Init => IInv
<1> SUFFICES ASSUME Init PROVE IInv
  OBVIOUS
<1>1. FileInv /\ SavesWait
  BY DEF Init, FileInv, SavesWait, Processes
<1> QED
  BY <1>1, InitServers DEF IInv

-----------------------------------------------------------------------------
\* However earlier flows ended, a provider that waits has a server that hears
\* the answer: is_running, the future and the server agree (callback.py:51-95).
THEOREM WaitingIsHeard == Spec => []FlowHeard
<1>1. IInv /\ [Next]_vars => IInv'
  BY NextInv
<1>2. IInv => FlowHeard
  BY DEF IInv, ServerInv
<1> QED
  BY InitInv, <1>1, <1>2, PTL DEF Spec

\* A token file, once whole, is whole after every step of any process, so that
\* a load of tokens never finds less than before (storage.py:50-82).
THEOREM TokensStay == Spec => TokensSurvive
<1>1. ASSUME IInv, [Next]_vars
      PROVE  [\A p \in Providers : Load(p) # None => Load(p)' # None]_vars
  <2>1. \A p \in Providers : disk[p] = "whole" => disk'[p] = "whole"
    BY <1>1, NextInv
  <2>2. "whole" # None
    BY OAuthAssumption
  <2> QED
    BY <2>1, <2>2 DEF Load
<1>2. IInv /\ [Next]_vars => IInv'
  BY NextInv
<1> QED
  BY InitInv, <1>1, <1>2, PTL DEF Spec, TokensSurvive
=============================================================================
