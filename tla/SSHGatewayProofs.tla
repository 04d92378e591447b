-------------------------- MODULE SSHGatewayProofs --------------------------
(***************************************************************************)
(* What holds of SSHGateway for every number of slots, connections,        *)
(* channels and Workspaces and every size of its queues: slots and stamps  *)
(* are accounted for, and the process dies of nothing but a late resize.   *)
(***************************************************************************)
EXTENDS SSHGateway, FiniteSetTheorems, TLAPS

-----------------------------------------------------------------------------
(* The inductive invariant *)

\* The request loop finds the queue closed only when the exec goroutine closed
\* it: its own close is the last thing it does.
OnlyExecClosesEarly ==
  \A s \in Chans : chan[s].loop = "requests" /\ ~chan[s].queueOpen =>
    chan[s].exec \in {"unqueued", "done"}

GatewayInv ==
  /\ TypeOK
  /\ ConnectionsAreAccountedFor
  /\ OnlyExecClosesEarly
  /\ PanicNeedsLateResize

-----------------------------------------------------------------------------
(* Types and counts *)

\* A connection or a channel that is not in use is one.
LEMMA UnusedTypes ==
  /\ Idle \in Conn /\ Idle.pc = "none"
  /\ \A c \in Conns : Unopened(c) \in Chan
  /\ (CHOOSE c \in Conns : TRUE) \in Conns
  <1>1. (CHOOSE w \in Spaces : TRUE) \in Spaces /\ (CHOOSE c \in Conns : TRUE) \in Conns
    BY GatewayAssumption
  <1>2. Idle \in Conn /\ Idle.pc = "none"
    BY <1>1 DEF Idle, Conn, WorkspaceStates
  <1>3. \A c \in Conns : Unopened(c) \in Chan
    BY GatewayAssumption DEF Unopened, Chan, Requests
  <1> QED BY <1>1, <1>2, <1>3

\* The connections that are being served.
Busy == {c \in Conns : conn[c].pc # "none"}

\* They are finitely many.
LEMMA BusyFinite == IsFiniteSet(Busy) /\ Cardinality(Busy) \in Nat
  <1>1. Busy \subseteq Conns
    BY DEF Busy
  <1>2. IsFiniteSet(Busy)
    BY <1>1, GatewayAssumption, FS_Subset
  <1> QED BY <1>2, FS_CardinalityType

\* A connection that is served still, or still not, keeps the count.
LEMMA CountKept ==
  ASSUME NEW c \in Conns, SlotsAreConnections, slots' = slots,
         \A d \in Conns \ {c} : conn'[d] = conn[d],
         conn[c].pc = "none" <=> conn'[c].pc = "none"
  PROVE  SlotsAreConnections'
  <1>1. Busy' = Busy
    BY DEF Busy
  <1> QED BY <1>1 DEF SlotsAreConnections, Busy

\* A slot is taken for a connection that was not served.
LEMMA CountUp ==
  ASSUME NEW c \in Conns, SlotsAreConnections, slots' = slots + 1,
         \A d \in Conns \ {c} : conn'[d] = conn[d],
         conn[c].pc = "none", conn'[c].pc # "none"
  PROVE  SlotsAreConnections'
  <1>1. Busy' = Busy \union {c} /\ c \notin Busy
    BY DEF Busy
  <1>2. Cardinality(Busy \union {c}) = Cardinality(Busy) + 1
    BY <1>1, BusyFinite, FS_AddElement
  <1> QED BY <1>1, <1>2 DEF SlotsAreConnections, Busy

\* A slot is given back by a connection that was served.
LEMMA CountDown ==
  ASSUME NEW c \in Conns, SlotsAreConnections, slots' = slots - 1,
         \A d \in Conns \ {c} : conn'[d] = conn[d],
         conn[c].pc # "none", conn'[c].pc = "none"
  PROVE  SlotsAreConnections' /\ slots > 0
  <1>1. Busy' = Busy \ {c} /\ c \in Busy
    BY DEF Busy
  <1>2. Cardinality(Busy \ {c}) = Cardinality(Busy) - 1 /\ Cardinality(Busy \ {c}) \in Nat
    <2>1. Cardinality(Busy \ {c}) = Cardinality(Busy) - 1 /\ IsFiniteSet(Busy \ {c})
      BY <1>1, BusyFinite, FS_RemoveElement
    <2> QED BY <2>1, FS_CardinalityType
  <1>3. slots = Cardinality(Busy) /\ slots' = Cardinality(Busy')
    BY <1>1, <1>2 DEF SlotsAreConnections, Busy
  <1>4. slots > 0
    BY <1>2, <1>3, BusyFinite
  <1> QED BY <1>3, <1>4 DEF SlotsAreConnections, Busy

\* The part of the invariant that is about the channels.
ChannelsHold == OnlyExecClosesEarly /\ PanicNeedsLateResize

\* It stays when channels and process do.
LEMMA ChannelsKept ==
  ASSUME ChannelsHold, UNCHANGED <<process, chan>>
  PROVE  ChannelsHold'
  BY DEF ChannelsHold, OnlyExecClosesEarly, PanicNeedsLateResize

-----------------------------------------------------------------------------
(* Connections *)

\* A connection gives back its slot: the last stamp was not its own.
LEMMA ReleaseKeeps ==
  ASSUME GatewayInv, NEW c \in Conns, conn[c].pc # "none", Release(c), UNCHANGED <<cluster, process, chan>>,
         \/ UNCHANGED <<activity, missed>> /\ conn[c].pc \notin {"serving", "closing"}
         \/ Touch(conn[c].ws, "close")
  PROVE  GatewayInv'
  <1>1. /\ slots' = slots - 1 /\ conn' \in [Conns -> Conn] /\ conn'[c].pc = "none"
        /\ \A d \in Conns \ {c} : conn'[d] = conn[d]
    BY UnusedTypes DEF Release, GatewayInv, TypeOK
  <1>2. SlotsAreConnections' /\ slots > 0
    BY <1>1, CountDown DEF GatewayInv, ConnectionsAreAccountedFor
  <1>3. /\ missed' \in BOOLEAN /\ (~missed' => ~missed)
        /\ activity' \in [Spaces -> {"never", "open", "close"}]
        /\ conn[c].ws \in Spaces
    BY DEF Touch, GatewayInv, TypeOK, Conn
  <1>4. TypeOK'
    <2>1. slots' \in 0 .. MaxConns
      BY <1>1, <1>2, GatewayAssumption DEF GatewayInv, TypeOK
    <2> QED BY <1>1, <1>3, <2>1 DEF GatewayInv, TypeOK, cluster
  <1>5. ASSUME process' = "up", ~missed', NEW w \in Spaces, activity'[w] = "open"
        PROVE  \E d \in Conns : conn'[d].ws = w /\ conn'[d].pc \in {"serving", "closing"}
    <2>1. activity[w] = "open" /\ (w = conn[c].ws => conn[c].pc \notin {"serving", "closing"})
      BY <1>3, <1>5 DEF Touch, GatewayInv, TypeOK
    <2>2. PICK d \in Conns : conn[d].ws = w /\ conn[d].pc \in {"serving", "closing"}
      BY <1>3, <1>5, <2>1 DEF GatewayInv, ConnectionsAreAccountedFor, ActivityEndsClosed
    <2>3. d # c
      BY <2>1, <2>2
    <2> QED BY <1>1, <2>2, <2>3
  <1>6. ConnectionsAreAccountedFor'
    BY <1>2, <1>5 DEF ConnectionsAreAccountedFor, ActivityEndsClosed
  <1>7. ChannelsHold'
    BY ChannelsKept DEF GatewayInv, ChannelsHold
  <1> QED BY <1>4, <1>6, <1>7 DEF GatewayInv, ChannelsHold

\* A connection goes on: Accept takes the slot, the others leave the count.
LEMMA ServeKeeps ==
  ASSUME GatewayInv, NEW c \in Conns, NEW new \in Conn, new.pc # "none",
         conn' = [conn EXCEPT ![c] = new], UNCHANGED <<cluster, process, chan>>,
         \/ slots' = slots + 1 /\ conn[c].pc = "none" /\ slots < MaxConns
         \/ slots' = slots /\ conn[c].pc # "none",
         \/ UNCHANGED <<activity, missed>> /\ conn[c].pc # "serving" /\ conn[c].pc # "closing"
         \/ Touch(conn[c].ws, "open") /\ new.ws = conn[c].ws /\ new.pc = "serving"
  PROVE  GatewayInv'
  <1>1. /\ conn' \in [Conns -> Conn] /\ conn'[c] = new
        /\ \A d \in Conns \ {c} : conn'[d] = conn[d]
    BY DEF GatewayInv, TypeOK
  <1>2. SlotsAreConnections'
    BY <1>1, CountUp, CountKept DEF GatewayInv, ConnectionsAreAccountedFor
  <1>3. /\ missed' \in BOOLEAN /\ (~missed' => ~missed)
        /\ activity' \in [Spaces -> {"never", "open", "close"}]
        /\ conn[c].ws \in Spaces
    BY DEF Touch, GatewayInv, TypeOK, Conn
  <1>4. TypeOK'
    <2>1. slots' \in 0 .. MaxConns
      BY GatewayAssumption DEF GatewayInv, TypeOK
    <2> QED BY <1>1, <1>3, <2>1 DEF GatewayInv, TypeOK, cluster
  <1>5. ASSUME process' = "up", ~missed', NEW w \in Spaces, activity'[w] = "open"
        PROVE  \E d \in Conns : conn'[d].ws = w /\ conn'[d].pc \in {"serving", "closing"}
    <2>1. CASE new.pc = "serving" /\ new.ws = w
      BY <1>1, <2>1
    <2>2. CASE ~(new.pc = "serving" /\ new.ws = w)
      <3>1. activity[w] = "open"
        BY <1>3, <1>5, <2>2 DEF Touch, GatewayInv, TypeOK
      <3>2. PICK d \in Conns : conn[d].ws = w /\ conn[d].pc \in {"serving", "closing"}
        BY <1>3, <1>5, <3>1 DEF GatewayInv, ConnectionsAreAccountedFor, ActivityEndsClosed
      <3>3. d # c
        BY <2>2, <3>2
      <3> QED BY <1>1, <3>2, <3>3
    <2> QED BY <2>1, <2>2
  <1>6. ConnectionsAreAccountedFor'
    BY <1>2, <1>5 DEF ConnectionsAreAccountedFor, ActivityEndsClosed
  <1>7. ChannelsHold'
    BY ChannelsKept DEF GatewayInv, ChannelsHold
  <1> QED BY <1>4, <1>6, <1>7 DEF GatewayInv, ChannelsHold

\* The client goes: the connection keeps its Workspace, the channels their exec.
LEMMA DisconnectKeeps ==
  ASSUME GatewayInv, NEW c \in Conns, Disconnect(c)
  PROVE  GatewayInv'
  <1>1. /\ conn' \in [Conns -> Conn] /\ conn'[c].pc = "closing" /\ conn'[c].ws = conn[c].ws
        /\ \A d \in Conns \ {c} : conn'[d] = conn[d]
    BY DEF Disconnect, GatewayInv, TypeOK, Conn
  <1>2. /\ chan' \in [Chans -> Chan]
        /\ \A s \in Chans : /\ chan'[s].loop = chan[s].loop /\ chan'[s].exec = chan[s].exec
                            /\ chan'[s].queueOpen = chan[s].queueOpen
    <2>1. ASSUME NEW s \in Chans
          PROVE  [chan[s] EXCEPT !.open = FALSE] \in Chan /\ chan[s] \in Chan
      <3>1. chan[s] \in Chan
        BY DEF GatewayInv, TypeOK
      <3> QED BY <3>1 DEF Chan
    <2>2. chan' \in [Chans -> Chan]
      BY <2>1 DEF Disconnect
    <2>3. ASSUME NEW s \in Chans
          PROVE  /\ chan'[s].loop = chan[s].loop /\ chan'[s].exec = chan[s].exec
                 /\ chan'[s].queueOpen = chan[s].queueOpen
      BY <2>1 DEF Disconnect, Chan
    <2> QED BY <2>2, <2>3
  <1>3. SlotsAreConnections'
    BY <1>1, CountKept DEF Disconnect, GatewayInv, ConnectionsAreAccountedFor
  <1>4. TypeOK'
    BY <1>1, <1>2 DEF Disconnect, GatewayInv, TypeOK, cluster
  <1>5. ASSUME process' = "up", ~missed'
        PROVE  ActivityEndsClosed'
    BY <1>1, <1>5 DEF Disconnect, GatewayInv, ConnectionsAreAccountedFor, ActivityEndsClosed
  <1>6. ConnectionsAreAccountedFor'
    BY <1>3, <1>5 DEF ConnectionsAreAccountedFor
  <1>7. OnlyExecClosesEarly'
    BY <1>2 DEF GatewayInv, OnlyExecClosesEarly
  <1>8. PanicNeedsLateResize'
    BY DEF Disconnect, PanicNeedsLateResize
  <1> QED BY <1>4, <1>6, <1>7, <1>8 DEF GatewayInv

\* The actions of the goroutine of a connection, one after another.
LEMMA ConnectionKeeps ==
  ASSUME GatewayInv, NEW c \in Conns,
         \/ Accept(c) \/ HandshakeFails(c) \/ Authenticate(c)
         \/ ServeStep(c) \/ Disconnect(c)
  PROVE  GatewayInv'
  <1> DEFINE old == conn[c]
  <1>0. old \in Conn /\ conn \in [Conns -> Conn]
    BY DEF GatewayInv, TypeOK
  <1>1. CASE Accept(c)
    <2>1. [old EXCEPT !.pc = "handshake"] \in Conn /\ [old EXCEPT !.pc = "handshake"].pc # "none"
      BY <1>0 DEF Conn
    <2>2. conn' = [conn EXCEPT ![c] = [old EXCEPT !.pc = "handshake"]]
      BY <1>0, <1>1 DEF Accept
    <2> HIDE DEF old
    <2> QED BY <1>1, <2>1, <2>2, ServeKeeps DEF Accept
  <1>2. CASE HandshakeFails(c)
    BY <1>2, ReleaseKeeps DEF HandshakeFails
  <1>3. CASE Authenticate(c)
    <2>1. PICK w \in Spaces : conn' = [conn EXCEPT ![c].pc = "reload", ![c].ws = w]
      BY <1>3 DEF Authenticate
    <2> DEFINE new == [old EXCEPT !.pc = "reload", !.ws = w]
    <2>2. new \in Conn /\ new.pc # "none"
      BY <1>0 DEF Conn
    <2>3. conn' = [conn EXCEPT ![c] = new]
      BY <1>0, <2>1
    <2> HIDE DEF new
    <2> QED BY <1>3, <2>2, <2>3, ServeKeeps DEF Authenticate
  <1>4. CASE Reload(c)
    <2>1. CASE state[conn[c].ws] = "absent"
      BY <1>4, <2>1, ReleaseKeeps DEF Reload
    <2>2. CASE state[conn[c].ws] # "absent"
      <3> DEFINE new == [old EXCEPT !.pc = "touch", !.snapshot = state[conn[c].ws]]
      <3>1. state[conn[c].ws] \in WorkspaceStates
        BY <1>0 DEF Conn, GatewayInv, TypeOK
      <3>2. new \in Conn /\ new.pc # "none"
        BY <1>0, <3>1 DEF Conn
      <3>3. conn' = [conn EXCEPT ![c] = new]
        BY <1>0, <1>4, <2>2 DEF Reload
      <3> HIDE DEF new
      <3> QED BY <1>4, <2>2, <3>2, <3>3, ServeKeeps DEF Reload
    <2> QED BY <2>1, <2>2
  <1>5. CASE TouchOpened(c)
    <2> DEFINE new == [old EXCEPT !.pc = "serving"]
    <2>1. new \in Conn /\ new.pc = "serving" /\ new.ws = conn[c].ws
      BY <1>0 DEF Conn
    <2>2. conn' = [conn EXCEPT ![c] = new]
      BY <1>0, <1>5 DEF TouchOpened
    <2> HIDE DEF new
    <2> QED BY <1>5, <2>1, <2>2, ServeKeeps DEF TouchOpened
  <1>6. CASE TouchClosed(c)
    BY <1>6, ReleaseKeeps DEF TouchClosed
  <1>7. CASE Disconnect(c)
    BY <1>7, DisconnectKeeps
  <1> QED BY <1>1, <1>2, <1>3, <1>4, <1>5, <1>6, <1>7 DEF ServeStep

\* main returns, and nothing of what the process held is left.
LEMMA ShutdownKeeps ==
  ASSUME GatewayInv, Shutdown
  PROVE  GatewayInv'
  <1>1. conn' \in [Conns -> Conn] /\ \A c \in Conns : conn'[c].pc = "none"
    BY UnusedTypes DEF Shutdown
  <1>2. /\ chan' \in [Chans -> Chan]
        /\ \A s \in Chans : chan'[s] = Unopened(CHOOSE c \in Conns : TRUE)
    BY UnusedTypes DEF Shutdown
  <1>3. SlotsAreConnections'
    <2>1. {c \in Conns : conn'[c].pc # "none"} = {}
      BY <1>1
    <2> QED BY <2>1, FS_EmptySet DEF Shutdown, SlotsAreConnections
  <1>4. TypeOK'
    BY <1>1, <1>2, GatewayAssumption DEF Shutdown, GatewayInv, TypeOK, cluster
  <1>5. OnlyExecClosesEarly'
    BY <1>2 DEF OnlyExecClosesEarly, Unopened
  <1>6. ConnectionsAreAccountedFor' /\ PanicNeedsLateResize'
    BY <1>3 DEF Shutdown, ConnectionsAreAccountedFor, PanicNeedsLateResize
  <1> QED BY <1>4, <1>5, <1>6 DEF GatewayInv

\* What happens to the Workspaces touches no connection.
LEMMA MovesKeep ==
  ASSUME GatewayInv, NEW w \in Spaces, WorkspaceMoves(w)
  PROVE  GatewayInv'
  <1>1. moves' \in 0 .. MaxMoves
    BY GatewayAssumption DEF WorkspaceMoves, GatewayInv, TypeOK
  <1>2. /\ keys' \in [Spaces -> SUBSET Keys] /\ state' \in [Spaces -> WorkspaceStates]
        /\ pod' \in [Spaces -> Pods]
    BY DEF WorkspaceMoves, GatewayInv, TypeOK
  <1>3. TypeOK'
    BY <1>1, <1>2 DEF WorkspaceMoves, GatewayInv, TypeOK
  <1>4. ConnectionsAreAccountedFor'
    BY DEF WorkspaceMoves, GatewayInv, ConnectionsAreAccountedFor, SlotsAreConnections,
           ActivityEndsClosed
  <1>5. ChannelsHold'
    BY ChannelsKept DEF WorkspaceMoves, GatewayInv, ChannelsHold
  <1> QED BY <1>3, <1>4, <1>5 DEF GatewayInv, ChannelsHold

-----------------------------------------------------------------------------
(* Channels *)

\* One channel changes, to one whose queue is closed early by its exec only.
LEMMA ChannelKeeps ==
  ASSUME GatewayInv, NEW s \in Chans, NEW new \in Chan, process = "up",
         chan' = [chan EXCEPT ![s] = new],
         UNCHANGED <<cluster, activity, missed, process, slots, conn>>,
         new.loop = "requests" /\ ~new.queueOpen => new.exec \in {"unqueued", "done"}
  PROVE  GatewayInv'
  <1>1. TypeOK'
    BY DEF GatewayInv, TypeOK, cluster
  <1>2. ConnectionsAreAccountedFor'
    BY DEF GatewayInv, ConnectionsAreAccountedFor, SlotsAreConnections, ActivityEndsClosed
  <1>3. OnlyExecClosesEarly'
    BY DEF GatewayInv, TypeOK, OnlyExecClosesEarly
  <1>4. PanicNeedsLateResize'
    BY DEF PanicNeedsLateResize
  <1> QED BY <1>1, <1>2, <1>3, <1>4 DEF GatewayInv

\* One channel before a change of its own.
LEMMA ChannelFacts ==
  ASSUME GatewayInv, NEW s \in Chans
  PROVE  /\ chan[s] \in Chan
         /\ chan[s].loop = "requests" /\ ~chan[s].queueOpen => chan[s].exec \in {"unqueued", "done"}
  BY DEF GatewayInv, TypeOK, OnlyExecClosesEarly

\* A request is taken off the inbox and leaves the queue as open as it was.
LEMMA HandledKeeps ==
  ASSUME NEW ch \in Chan, ch.inbox # <<>>
  PROVE  LET new == Handled(ch, Head(ch.inbox)) IN
         /\ new \in Chan /\ new.loop = ch.loop /\ new.queueOpen = ch.queueOpen
         /\ ch.exec \in {"unqueued", "done"} => new.exec = ch.exec
  <1> DEFINE request == Head(ch.inbox)
             taken == [ch EXCEPT !.inbox = Tail(@)]
             pushed == [taken EXCEPT !.sizes = IF @ < QueueCap THEN @ + 1 ELSE @]
  <1>1. /\ taken \in Chan /\ taken.loop = ch.loop /\ taken.queueOpen = ch.queueOpen
        /\ taken.exec = ch.exec
    <2>1. Tail(ch.inbox) \in Seq(Requests)
      BY DEF Chan
    <2> QED BY <2>1 DEF Chan
  <1> HIDE DEF taken
  <1>2. /\ pushed \in Chan /\ pushed.loop = ch.loop /\ pushed.queueOpen = ch.queueOpen
        /\ pushed.exec = ch.exec
    <2> DEFINE n == IF taken.sizes < QueueCap THEN taken.sizes + 1 ELSE taken.sizes
    <2>1. n \in 0 .. QueueCap
      BY <1>1, GatewayAssumption DEF Chan
    <2>2. pushed = [taken EXCEPT !.sizes = n]
      OBVIOUS
    <2> HIDE DEF n
    <2> QED BY <1>1, <2>1, <2>2 DEF Chan
  <1> HIDE DEF pushed
  <1>3. Push(taken) = pushed
    BY DEF Push, pushed
  <1> HIDE DEF request
  <1> DEFINE new == CASE request = "pty-req" -> [pushed EXCEPT !.tty = TRUE]
                      [] request = "window-change" -> pushed
                      [] request = "shell" -> [taken EXCEPT !.exec = IF @ = "none" THEN "starting" ELSE @]
                      [] OTHER -> taken
  <1>4. Handled(ch, request) = new
    BY <1>3 DEF Handled, taken
  <1>5. /\ new \in Chan /\ new.loop = ch.loop /\ new.queueOpen = ch.queueOpen
        /\ ch.exec \in {"unqueued", "done"} => new.exec = ch.exec
    <2>1. CASE request = "pty-req"
      BY <1>2, <2>1 DEF Chan
    <2>2. CASE request = "window-change"
      BY <1>2, <2>2
    <2>3. CASE request = "shell"
      BY <1>1, <2>3 DEF Chan
    <2>4. CASE request \notin {"pty-req", "window-change", "shell"}
      BY <1>1, <2>4
    <2> QED BY <2>1, <2>2, <2>3, <2>4
  <1> QED BY <1>4, <1>5 DEF request

\* Every step of a channel's goroutines, of its client and of the pod.
LEMMA GoroutinesKeep ==
  ASSUME GatewayInv, NEW s \in Chans,
         \/ LoopStep(s) \/ ExecStep(s) \/ NextSize(s) \/ ExecExits(s)
         \/ CloseChannel(s) \/ ForwardRefused(s) \/ ForwardOpens(s)
         \/ UpstreamEnds(s) \/ CopyIn(s)
  PROVE  GatewayInv'
  <1>0. PICK ch \in Chan :
          /\ ch = chan[s]
          /\ ch.loop = "requests" /\ ~ch.queueOpen => ch.exec \in {"unqueued", "done"}
    BY ChannelFacts
  <1>1. CASE Session(s)
    <2> DEFINE new == IF /\ ch.open /\ WorkspaceIsReady(chan[s].conn)
                             /\ ResolvePodTarget(conn[chan[s].conn].ws)
                          THEN [ch EXCEPT !.loop = "requests", !.queueOpen = TRUE]
                          ELSE [ch EXCEPT !.loop = "done", !.open = FALSE]
    <2>1. new \in Chan /\ (new.loop = "requests" /\ ~new.queueOpen => new.exec \in {"unqueued", "done"})
      BY <1>0, <1>1, GatewayAssumption DEF Session, Chan
    <2>2. Within(s, new)
      BY <1>0, <1>1 DEF Session
    <2> HIDE DEF new
    <2> QED BY <2>1, <2>2, ChannelKeeps DEF Within
  <1>2. CASE RequestsEnd(s)
    <2> DEFINE new == [[ch EXCEPT !.queueOpen = FALSE] EXCEPT !.loop = "done"]
    <2>1. new \in Chan /\ (new.loop = "requests" /\ ~new.queueOpen => new.exec \in {"unqueued", "done"})
      BY <1>0, <1>2, GatewayAssumption DEF RequestsEnd, Chan
    <2>2. Within(s, new)
      BY <1>0, <1>2 DEF RequestsEnd, CloseQueue
    <2> HIDE DEF new
    <2> QED BY <2>1, <2>2, ChannelKeeps DEF Within
  <1>3. CASE CopyOut(s)
    <2> DEFINE new == [ch EXCEPT !.loop = "done", !.open = FALSE]
    <2>1. new \in Chan /\ (new.loop = "requests" /\ ~new.queueOpen => new.exec \in {"unqueued", "done"})
      BY <1>0, <1>3, GatewayAssumption DEF CopyOut, Chan
    <2>2. Within(s, new)
      BY <1>0, <1>3 DEF CopyOut
    <2> HIDE DEF new
    <2> QED BY <2>1, <2>2, ChannelKeeps DEF Within
  <1>4. CASE ExecStarts(s)
    <2> DEFINE new == [ch EXCEPT !.exec = "streaming", !.execTty = ch.tty]
    <2>1. new \in Chan /\ (new.loop = "requests" /\ ~new.queueOpen => new.exec \in {"unqueued", "done"})
      BY <1>0, <1>4, GatewayAssumption DEF ExecStarts, Chan
    <2>2. Within(s, new)
      BY <1>0, <1>4 DEF ExecStarts
    <2> HIDE DEF new
    <2> QED BY <2>1, <2>2, ChannelKeeps DEF Within
  <1>5. CASE ExecClosesQueue(s)
    <2> DEFINE new == [[ch EXCEPT !.queueOpen = FALSE] EXCEPT !.exec = "unqueued"]
    <2>1. new \in Chan /\ (new.loop = "requests" /\ ~new.queueOpen => new.exec \in {"unqueued", "done"})
      BY <1>0, <1>5, GatewayAssumption DEF ExecClosesQueue, Chan
    <2>2. Within(s, new)
      BY <1>0, <1>5 DEF ExecClosesQueue, CloseQueue
    <2> HIDE DEF new
    <2> QED BY <2>1, <2>2, ChannelKeeps DEF Within
  <1>6. CASE ExecClosesChannel(s)
    <2> DEFINE new == [ch EXCEPT !.exec = "done", !.open = FALSE]
    <2>1. new \in Chan /\ (new.loop = "requests" /\ ~new.queueOpen => new.exec \in {"unqueued", "done"})
      BY <1>0, <1>6, GatewayAssumption DEF ExecClosesChannel, Chan
    <2>2. Within(s, new)
      BY <1>0, <1>6 DEF ExecClosesChannel
    <2> HIDE DEF new
    <2> QED BY <2>1, <2>2, ChannelKeeps DEF Within
  <1>7. CASE NextSize(s)
    <2> DEFINE new == [ch EXCEPT !.sizes = ch.sizes - 1]
    <2>0. PICK n \in 0 .. QueueCap : n = ch.sizes - 1
      <3>1. ch.sizes \in 0 .. QueueCap
        BY <1>0 DEF Chan
      <3>2. ch.sizes > 0
        BY <1>0, <1>7 DEF NextSize
      <3> QED BY <3>1, <3>2, GatewayAssumption
    <2>1. new \in Chan /\ (new.loop = "requests" /\ ~new.queueOpen => new.exec \in {"unqueued", "done"})
      BY <1>0, <2>0 DEF Chan
    <2>2. Within(s, new)
      BY <1>0, <1>7 DEF NextSize
    <2> HIDE DEF new
    <2> QED BY <2>1, <2>2, ChannelKeeps DEF Within
  <1>8. CASE ExecExits(s)
    <2> DEFINE new == [ch EXCEPT !.exec = "exited"]
    <2>1. new \in Chan /\ (new.loop = "requests" /\ ~new.queueOpen => new.exec \in {"unqueued", "done"})
      BY <1>0, <1>8, GatewayAssumption DEF ExecExits, Chan
    <2>2. Within(s, new)
      BY <1>0, <1>8 DEF ExecExits
    <2> HIDE DEF new
    <2> QED BY <2>1, <2>2, ChannelKeeps DEF Within
  <1>9. CASE CloseChannel(s)
    <2> DEFINE new == [ch EXCEPT !.open = FALSE]
    <2>1. new \in Chan /\ (new.loop = "requests" /\ ~new.queueOpen => new.exec \in {"unqueued", "done"})
      BY <1>0, <1>9, GatewayAssumption DEF CloseChannel, Chan
    <2>2. Within(s, new)
      BY <1>0, <1>9 DEF CloseChannel
    <2> HIDE DEF new
    <2> QED BY <2>1, <2>2, ChannelKeeps DEF Within
  <1>10. CASE ForwardRefused(s)
    <2> DEFINE new == [ch EXCEPT !.loop = "done", !.open = FALSE]
    <2>1. new \in Chan /\ (new.loop = "requests" /\ ~new.queueOpen => new.exec \in {"unqueued", "done"})
      BY <1>0, <1>10, GatewayAssumption DEF ForwardRefused, Chan
    <2>2. Within(s, new)
      BY <1>0, <1>10 DEF ForwardRefused
    <2> HIDE DEF new
    <2> QED BY <2>1, <2>2, ChannelKeeps DEF Within
  <1>11. CASE ForwardOpens(s)
    <2> DEFINE new == IF ch.open
                          THEN [ch EXCEPT !.loop = "copying", !.exec = "copying", !.upstream = TRUE]
                          ELSE [ch EXCEPT !.loop = "done"]
    <2>1. new \in Chan /\ (new.loop = "requests" /\ ~new.queueOpen => new.exec \in {"unqueued", "done"})
      BY <1>0, <1>11, GatewayAssumption DEF ForwardOpens, Chan
    <2>2. Within(s, new)
      BY <1>0, <1>11 DEF ForwardOpens
    <2> HIDE DEF new
    <2> QED BY <2>1, <2>2, ChannelKeeps DEF Within
  <1>12. CASE UpstreamEnds(s)
    <2> DEFINE new == [ch EXCEPT !.upstream = FALSE]
    <2>1. new \in Chan /\ (new.loop = "requests" /\ ~new.queueOpen => new.exec \in {"unqueued", "done"})
      BY <1>0, <1>12, GatewayAssumption DEF UpstreamEnds, Chan
    <2>2. Within(s, new)
      BY <1>0, <1>12 DEF UpstreamEnds
    <2> HIDE DEF new
    <2> QED BY <2>1, <2>2, ChannelKeeps DEF Within
  <1>13. CASE CopyIn(s)
    <2> DEFINE new == [ch EXCEPT !.exec = "done", !.upstream = FALSE]
    <2>1. new \in Chan /\ (new.loop = "requests" /\ ~new.queueOpen => new.exec \in {"unqueued", "done"})
      BY <1>0, <1>13, GatewayAssumption DEF CopyIn, Chan
    <2>2. Within(s, new)
      BY <1>0, <1>13 DEF CopyIn
    <2> HIDE DEF new
    <2> QED BY <2>1, <2>2, ChannelKeeps DEF Within
  <1>14. CASE HandleRequest(s)
    <2> DEFINE new == Handled(ch, Head(ch.inbox))
    <2>1. new \in Chan /\ (new.loop = "requests" /\ ~new.queueOpen => new.exec \in {"unqueued", "done"})
      BY <1>0, <1>14, HandledKeeps DEF HandleRequest
    <2>2. Within(s, new)
      BY <1>0, <1>14 DEF HandleRequest
    <2> HIDE DEF new
    <2> QED BY <2>1, <2>2, ChannelKeeps DEF Within
  <1>15. CASE Panic(s)
    <2>1. TypeOK'
      BY <1>15 DEF Panic, GatewayInv, TypeOK, cluster
    <2>2. ConnectionsAreAccountedFor' /\ OnlyExecClosesEarly'
      BY <1>15 DEF Panic, GatewayInv, ConnectionsAreAccountedFor, SlotsAreConnections,
                   OnlyExecClosesEarly
    <2>3. PanicNeedsLateResize'
      BY <1>15 DEF Panic, GatewayInv, OnlyExecClosesEarly, PanicNeedsLateResize
    <2> QED BY <2>1, <2>2, <2>3 DEF GatewayInv
  <1> QED BY <1>1, <1>2, <1>3, <1>4, <1>5, <1>6, <1>7, <1>8, <1>9, <1>10, <1>11, <1>12, <1>13, <1>14, <1>15 DEF LoopStep, ExecStep

\* What a client adds: a channel of a connection, a request of a channel.
LEMMA ClientKeeps ==
  ASSUME GatewayInv, NEW s \in Chans,
         \/ \E c \in Conns, kind \in {"session", "forward"} : NewChannel(s, c, kind)
         \/ \E request \in Requests : Send(s, request)
  PROVE  GatewayInv'
  <1>0. PICK ch \in Chan :
          /\ ch = chan[s]
          /\ ch.loop = "requests" /\ ~ch.queueOpen => ch.exec \in {"unqueued", "done"}
    BY ChannelFacts
  <1>1. ASSUME NEW c \in Conns, NEW kind \in {"session", "forward"}, NewChannel(s, c, kind)
        PROVE  GatewayInv'
    <2> DEFINE new == [Unopened(c) EXCEPT !.kind = kind, !.loop = "accept", !.open = TRUE]
    <2>1. new \in Chan /\ new.loop = "accept"
      BY UnusedTypes DEF Chan
    <2>2. chan' = [chan EXCEPT ![s] = new]
      BY <1>1 DEF NewChannel
    <2> HIDE DEF new
    <2> QED BY <1>1, <2>1, <2>2, ChannelKeeps DEF NewChannel
  <1>2. ASSUME NEW request \in Requests, Send(s, request)
        PROVE  GatewayInv'
    <2> DEFINE new == [ch EXCEPT !.inbox = Append(ch.inbox, request), !.sent = ch.sent + 1]
    <2>1. Append(ch.inbox, request) \in Seq(Requests) /\ ch.sent + 1 \in 0 .. MaxSent
      <3>1. ch.inbox \in Seq(Requests) /\ ch.sent \in 0 .. MaxSent
        BY <1>0 DEF Chan
      <3>2. ch.sent < MaxSent
        BY <1>0, <1>2 DEF Send
      <3> QED BY <3>1, <3>2, GatewayAssumption
    <2>2. new \in Chan /\ (new.loop = "requests" /\ ~new.queueOpen => new.exec \in {"unqueued", "done"})
      BY <1>0, <2>1 DEF Chan
    <2>3. Within(s, new)
      BY <1>0, <1>2 DEF Send
    <2> HIDE DEF new
    <2> QED BY <2>2, <2>3, ChannelKeeps DEF Within
  <1> QED BY <1>1, <1>2

-----------------------------------------------------------------------------
(* The theorems *)

\* A gateway that has just started serves nobody.
LEMMA InitHolds == Init => GatewayInv
  <1> SUFFICES ASSUME Init PROVE GatewayInv
    OBVIOUS
  <1>1. conn \in [Conns -> Conn] /\ \A c \in Conns : conn[c].pc = "none"
    BY UnusedTypes DEF Init
  <1>2. /\ chan \in [Chans -> Chan]
        /\ \A s \in Chans : chan[s] = Unopened(CHOOSE c \in Conns : TRUE)
    BY UnusedTypes DEF Init
  <1>3. SlotsAreConnections
    <2>1. {c \in Conns : conn[c].pc # "none"} = {}
      BY <1>1
    <2> QED BY <2>1, FS_EmptySet DEF Init, SlotsAreConnections
  <1>4. TypeOK
    <2>1. moves \in 0 .. MaxMoves /\ slots \in 0 .. MaxConns
      BY GatewayAssumption DEF Init
    <2>2. keys \in [Spaces -> SUBSET Keys] /\ process = "up" /\ missed \in BOOLEAN
      BY GatewayAssumption DEF Init
    <2>3. /\ state \in [Spaces -> WorkspaceStates] /\ pod \in [Spaces -> Pods]
          /\ activity \in [Spaces -> {"never", "open", "close"}]
      BY DEF Init, WorkspaceStates, Pods
    <2> QED BY <1>1, <1>2, <2>1, <2>2, <2>3 DEF TypeOK
  <1>5. OnlyExecClosesEarly
    BY <1>2 DEF OnlyExecClosesEarly, Unopened
  <1>6. ConnectionsAreAccountedFor
    BY <1>3 DEF Init, ConnectionsAreAccountedFor, ActivityEndsClosed
  <1>7. PanicNeedsLateResize
    BY DEF Init, PanicNeedsLateResize
  <1> QED BY <1>4, <1>5, <1>6, <1>7 DEF GatewayInv

\* The invariant is inductive: one case per goroutine, client and cluster.
LEMMA StepKeeps == GatewayInv /\ [Next]_vars => GatewayInv'
  <1> SUFFICES ASSUME GatewayInv, [Next]_vars PROVE GatewayInv'
    OBVIOUS
  <1>1. CASE UNCHANGED vars
    BY <1>1 DEF vars, GatewayInv, TypeOK, ConnectionsAreAccountedFor, SlotsAreConnections,
                ActivityEndsClosed, OnlyExecClosesEarly, PanicNeedsLateResize
  <1>2. CASE Next
    BY <1>2, ConnectionKeeps, GoroutinesKeep, ClientKeeps, MovesKeep, ShutdownKeeps DEF Next
  <1> QED BY <1>1, <1>2

\* The gateway's invariant, along every behaviour of every size of gateway.
THEOREM GatewayInvariant == Spec => []GatewayInv
  BY InitHolds, StepKeeps, PTL DEF Spec

\* connSlots never goes below zero nor above its capacity, and no size queue
\* holds more than its own.
THEOREM TypeCorrect == Spec => []TypeOK
  <1>1. GatewayInv => TypeOK
    BY DEF GatewayInv
  <1> QED BY <1>1, GatewayInvariant, PTL

\* ListenAndServe, serve and touchWorkspaceActivity, for any number of
\* connections: however one ends it gives back its slot, and unless a stamp
\* failed the last one of a Workspace that nobody uses is that of a close.
THEOREM ConnectionsAccounted == Spec => []ConnectionsAreAccountedFor
  <1>1. GatewayInv => ConnectionsAreAccountedFor
    BY DEF GatewayInv
  <1> QED BY <1>1, GatewayInvariant, PTL

\* session, for any number of channels, requests and any size of queue: the
\* process dies of a push on a closed queue only when the exec goroutine of
\* that session closed it, before a size the client had sent was read.
THEOREM PanicIsLateResize == Spec => []PanicNeedsLateResize
  <1>1. GatewayInv => PanicNeedsLateResize
    BY DEF GatewayInv
  <1> QED BY <1>1, GatewayInvariant, PTL
=============================================================================
