----------------------------- MODULE SSHGateway -----------------------------
(***************************************************************************)
(* The SSH gateway (internal/gateway/server.go, pod_resolver.go).          *)
(*                                                                         *)
(* ListenAndServe accepts connections into a bounded number of slots and   *)
(* serves each in a goroutine; every channel of a connection is served by  *)
(* further goroutines.  A session channel has two of them: the request     *)
(* loop, which reads pty-req, window-change, shell and exec requests, and  *)
(* the exec goroutine, which streams the pod.  They share a size queue: a  *)
(* Go channel the first sends to and either of them closes.  A             *)
(* direct-tcpip channel has one goroutine per direction.                   *)
(*                                                                         *)
(* Left out: the bytes that are copied, the text of refusals, the exit     *)
(* status and the command line (shellCmd).  A send on a closed Go channel  *)
(* panics, nothing recovers it, and the process with every connection ends.*)
(***************************************************************************)
EXTENDS Integers, Sequences, FiniteSets

CONSTANTS Spaces,     \* the Workspaces: [ns, name], each a sequence of the
                      \* parts of a hyphenated name
          Keys,       \* SSH public keys
          Conns,      \* TCP connections
          Chans,      \* SSH channels
          FirstKeys,  \* per Workspace, the keys it trusts at first
          MaxConns,   \* maxConcurrentConnections
          QueueCap,   \* capacity of a size queue
          InboxCap,   \* requests the SSH library buffers for a channel
          MaxSent,    \* bound on the requests a client sends in a channel
          MaxMoves    \* bound on what happens to the Workspaces meanwhile

ASSUME GatewayAssumption ==
  /\ \A p \in {MaxConns, QueueCap, InboxCap} : p \in Nat \ {0}
  /\ MaxSent \in Nat /\ MaxMoves \in Nat
  /\ FirstKeys \in [Spaces -> SUBSET Keys]
  /\ IsFiniteSet(Conns) /\ IsFiniteSet(Chans)
  /\ Spaces # {} /\ Conns # {}

VARIABLES
  keys,     \* per Workspace, spec.sshAuthorizedKeys
  state,    \* per Workspace, whether it exists and its status is Running
  pod,      \* per Workspace, the pod that has the name of its pod
  activity, \* per Workspace, what status.lastActivityTime was stamped for
  moves,    \* how often the Workspaces have changed
  missed,   \* history: a stamp could not be written
  process,  \* the gateway process
  slots,    \* connSlots: how many are taken
  conn,     \* per connection, its serve goroutine
  chan      \* per channel, its goroutines

vars == <<keys, state, pod, activity, moves, missed, process, slots, conn, chan>>
cluster == <<keys, state, pod, moves>>

WorkspaceStates == {"absent", "pending", "running"}
Pods == {"none", "ours", "other"}
Requests == {"pty-req", "window-change", "shell", "other"}

Conn == [pc : {"none", "handshake", "reload", "touch", "serving", "closing"},
         ws : Spaces, snapshot : WorkspaceStates]

Chan == [kind : {"session", "forward"}, conn : Conns,
         loop : {"none", "accept", "requests", "copying", "done"},
         exec : {"none", "starting", "streaming", "exited", "unqueued", "copying", "done"},
         tty  : BOOLEAN, execTty : BOOLEAN, sizes : 0 .. QueueCap, queueOpen : BOOLEAN,
         inbox : Seq(Requests), sent : 0 .. MaxSent,
         open : BOOLEAN, upstream : BOOLEAN]

Idle == [pc |-> "none", ws |-> CHOOSE w \in Spaces : TRUE, snapshot |-> "absent"]

Unopened(c) == [kind |-> "session", conn |-> c, loop |-> "none", exec |-> "none",
                tty |-> FALSE, execTty |-> FALSE, sizes |-> 0, queueOpen |-> FALSE,
                inbox |-> <<>>, sent |-> 0, open |-> FALSE, upstream |-> FALSE]

-----------------------------------------------------------------------------
(* pod_resolver.go *)

\* Both halves may hold hyphens, so two Workspaces may share a user name.
SSHUser(w) == w.ns \o w.name

\* ResolveWorkspaceTargetByNameAndPublicKey: the Workspaces that answer to the
\* name and trust the key; a connection is let in when there is exactly one.
Matches(user, key) ==
  {w \in Spaces : /\ state[w] # "absent"
                  /\ SSHUser(w) = user
                  /\ key \in keys[w]}

\* resolvePodTarget: the pod is looked up afresh and must carry the label.
ResolvePodTarget(w) == pod[w] = "ours"

WorkspaceIsReady(c) == conn[c].snapshot = "running"

-----------------------------------------------------------------------------
(* ListenAndServe and serve *)

Init ==
  /\ keys = FirstKeys
  /\ state = [w \in Spaces |-> "running"]
  /\ pod = [w \in Spaces |-> "ours"]
  /\ activity = [w \in Spaces |-> "never"]
  /\ moves = 0
  /\ missed = FALSE
  /\ process = "up"
  /\ slots = 0
  /\ conn = [c \in Conns |-> Idle]
  /\ chan = [s \in Chans |-> Unopened(CHOOSE c \in Conns : TRUE)]

Accept(c) ==
  /\ process = "up" /\ conn[c].pc = "none"
  /\ slots < MaxConns
  /\ slots' = slots + 1
  /\ conn' = [conn EXCEPT ![c].pc = "handshake"]
  /\ UNCHANGED <<cluster, activity, missed, process, chan>>

\* The deferred receive from connSlots, whichever way serve returned.
Release(c) ==
  /\ slots' = slots - 1
  /\ conn' = [conn EXCEPT ![c] = Idle]

\* NewServerConn fails: a probe, a client that hangs up, or a key that matches
\* no Workspace or several.
HandshakeFails(c) ==
  /\ process = "up" /\ conn[c].pc = "handshake"
  /\ Release(c)
  /\ UNCHANGED <<cluster, activity, missed, process, chan>>

\* NewServerConn succeeds: publicKeyCallback has named the Workspace.
Authenticate(c) ==
  /\ process = "up" /\ conn[c].pc = "handshake"
  /\ \E w \in Spaces, key \in Keys :
       /\ Matches(SSHUser(w), key) = {w}
       /\ conn' = [conn EXCEPT ![c].pc = "reload", ![c].ws = w]
  /\ UNCHANGED <<cluster, activity, missed, process, slots, chan>>

\* Mutant of Reload: the slot is given back at the end of serve only.
ReloadKeepingSlot(c) ==
  /\ process = "up" /\ conn[c].pc = "reload"
  /\ slots' = slots
  /\ conn' = [conn EXCEPT ![c] =
                IF state[conn[c].ws] = "absent" THEN Idle
                ELSE [conn[c] EXCEPT !.pc = "touch", !.snapshot = state[conn[c].ws]]]
  /\ UNCHANGED <<cluster, activity, missed, process, chan>>

\* getWorkspace: the copy that serves every channel of this connection.
Reload(c) ==
  /\ process = "up" /\ conn[c].pc = "reload"
  /\ IF state[conn[c].ws] = "absent"
       THEN Release(c)
       ELSE /\ conn' = [conn EXCEPT ![c].pc = "touch", ![c].snapshot = state[conn[c].ws]]
            /\ slots' = slots
  /\ UNCHANGED <<cluster, activity, missed, process, chan>>

\* touchWorkspaceActivity: a failure is logged and nothing else.
Touch(w, event) ==
  \/ /\ state[w] # "absent"
     /\ activity' = [activity EXCEPT ![w] = event]
     /\ missed' = missed
  \/ missed' = TRUE /\ activity' = activity

TouchOpened(c) ==
  /\ process = "up" /\ conn[c].pc = "touch"
  /\ Touch(conn[c].ws, "open")
  /\ conn' = [conn EXCEPT ![c].pc = "serving"]
  /\ UNCHANGED <<cluster, process, slots, chan>>

\* The client goes away: its channels end and serve leaves its loop.
Disconnect(c) ==
  /\ process = "up" /\ conn[c].pc = "serving"
  /\ conn' = [conn EXCEPT ![c].pc = "closing"]
  /\ chan' = [s \in Chans |-> IF chan[s].conn = c THEN [chan[s] EXCEPT !.open = FALSE]
                                                  ELSE chan[s]]
  /\ UNCHANGED <<cluster, activity, missed, process, slots>>

TouchClosed(c) ==
  /\ process = "up" /\ conn[c].pc = "closing"
  /\ Touch(conn[c].ws, "close")
  /\ Release(c)
  /\ UNCHANGED <<cluster, process, chan>>

\* The context is cancelled: the listener is closed and main returns, which
\* ends every goroutine without its deferred calls.
Shutdown ==
  /\ process = "up"
  /\ process' = "stopped"
  /\ slots' = 0
  /\ conn' = [c \in Conns |-> Idle]
  /\ chan' = [s \in Chans |-> Unopened(CHOOSE c \in Conns : TRUE)]
  /\ UNCHANGED <<cluster, activity, missed>>

-----------------------------------------------------------------------------
(* session *)

\* An unknown type of channel is rejected and leaves nothing behind.
NewChannel(s, c, kind) ==
  /\ process = "up" /\ conn[c].pc = "serving" /\ chan[s].loop = "none"
  /\ chan' = [chan EXCEPT ![s] = [Unopened(c) EXCEPT !.kind = kind, !.loop = "accept",
                                                     !.open = TRUE]]
  /\ UNCHANGED <<cluster, activity, missed, process, slots, conn>>

\* Changes of one channel by one of its own goroutines.
Within(s, new) ==
  /\ process = "up"
  /\ chan' = [chan EXCEPT ![s] = new]
  /\ UNCHANGED <<cluster, activity, missed, process, slots, conn>>

\* Accept, the readiness of the connection's copy, then the pod as it is now.  What is
\* refused is closed, and its requests are answered no until there are none.
Session(s) ==
  /\ chan[s].kind = "session" /\ chan[s].loop = "accept"
  /\ Within(s, IF /\ chan[s].open
                  /\ WorkspaceIsReady(chan[s].conn) /\ ResolvePodTarget(conn[chan[s].conn].ws)
                 THEN [chan[s] EXCEPT !.loop = "requests", !.queueOpen = TRUE]
                 ELSE [chan[s] EXCEPT !.loop = "done", !.open = FALSE])

\* A client's request, buffered by the SSH library until the loop takes it.
Send(s, request) ==
  /\ chan[s].loop = "requests" /\ chan[s].open
  /\ Len(chan[s].inbox) < InboxCap /\ chan[s].sent < MaxSent
  /\ Within(s, [chan[s] EXCEPT !.inbox = Append(@, request), !.sent = @ + 1])

\* sizeQueue.push: a full queue drops the size.
Push(ch) == [ch EXCEPT !.sizes = IF @ < QueueCap THEN @ + 1 ELSE @]

\* Mutant of Handled: a shell without a terminal needs no size queue.
HandledWithoutQueue(ch, request) ==
  LET taken == [ch EXCEPT !.inbox = Tail(@)] IN
  CASE request = "pty-req"       -> [Push(taken) EXCEPT !.tty = TRUE]
    [] request = "window-change" -> Push(taken)
    [] request = "shell"         -> [taken EXCEPT !.exec = IF @ = "none" THEN "starting" ELSE @,
                                                  !.queueOpen = @ /\ taken.tty]
    [] OTHER                     -> taken

\* What one request does to the channel: start.Do starts one exec at most.
Handled(ch, request) ==
  LET taken == [ch EXCEPT !.inbox = Tail(@)] IN
  CASE request = "pty-req"       -> [Push(taken) EXCEPT !.tty = TRUE]
    [] request = "window-change" -> Push(taken)
    [] request = "shell"         -> [taken EXCEPT !.exec = IF @ = "none" THEN "starting" ELSE @]
    [] OTHER                     -> taken

Pushes(request) == request \in {"pty-req", "window-change"}

HandleRequest(s) ==
  /\ chan[s].loop = "requests" /\ chan[s].inbox # <<>>
  /\ Pushes(Head(chan[s].inbox)) => chan[s].queueOpen
  /\ Within(s, Handled(chan[s], Head(chan[s].inbox)))

\* push on a closed queue.
Panic(s) ==
  /\ process = "up"
  /\ chan[s].loop = "requests" /\ chan[s].inbox # <<>>
  /\ Pushes(Head(chan[s].inbox)) /\ ~chan[s].queueOpen
  /\ process' = "panicked"
  /\ UNCHANGED <<cluster, activity, missed, slots, conn, chan>>

\* sizeQueue.close, behind a sync.Once.
CloseQueue(ch) == [ch EXCEPT !.queueOpen = FALSE]

\* The channel is closed and everything received before that is handled.
RequestsEnd(s) ==
  /\ chan[s].kind = "session" /\ chan[s].loop = "requests"
  /\ ~chan[s].open /\ chan[s].inbox = <<>>
  /\ Within(s, [CloseQueue(chan[s]) EXCEPT !.loop = "done"])

\* The exec goroutine: it reads tty when it runs, not when it was started.
ExecStarts(s) ==
  /\ chan[s].exec = "starting"
  /\ Within(s, [chan[s] EXCEPT !.exec = "streaming", !.execTty = chan[s].tty])

\* sizeQueue.Next, called by the stream of a terminal.
NextSize(s) ==
  /\ chan[s].exec = "streaming" /\ chan[s].execTty /\ chan[s].sizes > 0
  /\ Within(s, [chan[s] EXCEPT !.sizes = @ - 1])

\* The process in the pod ends or the stream fails.
ExecExits(s) ==
  /\ chan[s].exec = "streaming"
  /\ Within(s, [chan[s] EXCEPT !.exec = "exited"])

ExecClosesQueue(s) ==
  /\ chan[s].exec = "exited"
  /\ Within(s, [CloseQueue(chan[s]) EXCEPT !.exec = "unqueued"])

ExecClosesChannel(s) ==
  /\ chan[s].exec = "unqueued"
  /\ Within(s, [chan[s] EXCEPT !.exec = "done", !.open = FALSE])

\* The client closes one channel.
CloseChannel(s) ==
  /\ chan[s].open /\ chan[s].loop \in {"requests", "copying"}
  /\ Within(s, [chan[s] EXCEPT !.open = FALSE])

-----------------------------------------------------------------------------
(* directTCPIP *)

\* Refused when the copy is not ready, the pod is not the Workspace's, the
\* payload is bad, the destination is not loopback or the dial fails.
ForwardRefused(s) ==
  /\ chan[s].kind = "forward" /\ chan[s].loop = "accept"
  /\ Within(s, [chan[s] EXCEPT !.loop = "done", !.open = FALSE])

\* portForward dials and the channel is accepted; an accept that fails because
\* the client has gone closes the dialled stream.
ForwardOpens(s) ==
  /\ chan[s].kind = "forward" /\ chan[s].loop = "accept"
  /\ WorkspaceIsReady(chan[s].conn) /\ ResolvePodTarget(conn[chan[s].conn].ws)
  /\ Within(s, IF chan[s].open
                 THEN [chan[s] EXCEPT !.loop = "copying", !.exec = "copying",
                                      !.upstream = TRUE]
                 ELSE [chan[s] EXCEPT !.loop = "done"])

\* The pod's end of the stream closes.
UpstreamEnds(s) ==
  /\ chan[s].kind = "forward" /\ chan[s].upstream
  /\ Within(s, [chan[s] EXCEPT !.upstream = FALSE])

\* Mutant of CopyIn: the upstream is left to the pod to close.
CopyInLeavingUpstream(s) ==
  /\ chan[s].kind = "forward" /\ chan[s].exec = "copying"
  /\ ~(chan[s].open /\ chan[s].upstream)
  /\ Within(s, [chan[s] EXCEPT !.exec = "done"])

\* The goroutine from the client to the pod: at the end of either side it
\* closes the upstream.
CopyIn(s) ==
  /\ chan[s].kind = "forward" /\ chan[s].exec = "copying"
  /\ ~(chan[s].open /\ chan[s].upstream)
  /\ Within(s, [chan[s] EXCEPT !.exec = "done", !.upstream = FALSE])

\* The direction from the pod to the client: it sees the upstream end only.
CopyOut(s) ==
  /\ chan[s].kind = "forward" /\ chan[s].loop = "copying"
  /\ ~chan[s].upstream
  /\ Within(s, [chan[s] EXCEPT !.loop = "done", !.open = FALSE])

-----------------------------------------------------------------------------
(* What happens to the Workspaces meanwhile *)

WorkspaceMoves(w) ==
  /\ process = "up" /\ moves < MaxMoves
  /\ moves' = moves + 1
  /\ \/ /\ keys' \in {[keys EXCEPT ![w] = k] : k \in SUBSET Keys \ {keys[w]}}
        /\ UNCHANGED <<state, pod>>
     \/ /\ state' \in {[state EXCEPT ![w] = x] : x \in WorkspaceStates \ {state[w]}}
        /\ UNCHANGED <<keys, pod>>
     \/ /\ pod' \in {[pod EXCEPT ![w] = p] : p \in Pods \ {pod[w]}}
        /\ UNCHANGED <<keys, state>>
  /\ UNCHANGED <<activity, missed, process, slots, conn, chan>>

-----------------------------------------------------------------------------

ExecStep(s) == ExecStarts(s) \/ ExecClosesQueue(s) \/ ExecClosesChannel(s)
LoopStep(s) == \/ Session(s) \/ HandleRequest(s) \/ Panic(s) \/ RequestsEnd(s)
               \/ CopyOut(s)
ServeStep(c) == Reload(c) \/ TouchOpened(c) \/ TouchClosed(c)

Next ==
  \/ \E c \in Conns : \/ Accept(c) \/ HandshakeFails(c) \/ Authenticate(c)
                      \/ ServeStep(c) \/ Disconnect(c)
  \/ \E s \in Chans : \/ LoopStep(s) \/ ExecStep(s) \/ NextSize(s) \/ ExecExits(s)
                      \/ CloseChannel(s) \/ ForwardRefused(s) \/ ForwardOpens(s)
                      \/ UpstreamEnds(s) \/ CopyIn(s)
  \/ \E s \in Chans, c \in Conns, kind \in {"session", "forward"} : NewChannel(s, c, kind)
  \/ \E s \in Chans, request \in Requests : Send(s, request)
  \/ \E w \in Spaces : WorkspaceMoves(w)
  \/ Shutdown

Spec == Init /\ [][Next]_vars

\* Goroutines run.  Nothing makes a client act, a pod's process end or a
\* handshake finish.
Fairness ==
  /\ \A c \in Conns : WF_vars(ServeStep(c))
  /\ \A s \in Chans : WF_vars(LoopStep(s)) /\ WF_vars(ExecStep(s)) /\ WF_vars(CopyIn(s))

FairSpec == Spec /\ Fairness

-----------------------------------------------------------------------------

TypeOK ==
  /\ keys \in [Spaces -> SUBSET Keys]
  /\ state \in [Spaces -> WorkspaceStates]
  /\ pod \in [Spaces -> Pods]
  /\ activity \in [Spaces -> {"never", "open", "close"}]
  /\ moves \in 0 .. MaxMoves
  /\ missed \in BOOLEAN
  /\ process \in {"up", "stopped", "panicked"}
  /\ slots \in 0 .. MaxConns
  /\ conn \in [Conns -> Conn]
  /\ chan \in [Chans -> Chan]

\* As many slots are taken as connections are being served.
SlotsAreConnections == slots = Cardinality({c \in Conns : conn[c].pc # "none"})

\* The last stamp of a Workspace nobody is connected to is the one of a close.
ActivityEndsClosed ==
  \A w \in Spaces : activity[w] = "open" =>
    \E c \in Conns : conn[c].ws = w /\ conn[c].pc \in {"serving", "closing"}

\* ListenAndServe, the early returns of serve and touchWorkspaceActivity: every
\* connection that ends, however it ends, gives back its slot and, unless a
\* stamp failed, tells idle detection.  A gateway that refuses a connection is
\* serving MaxConns of them, and no session that ended is taken for one that
\* goes on.
ConnectionsAreAccountedFor ==
  /\ SlotsAreConnections
  /\ process = "up" /\ ~missed => ActivityEndsClosed

\* session: the process dies of a push on a closed queue only when a window
\* size arrived in a session whose exec had ended.  The queue has two closers
\* and neither closes it twice, nor before the last request of a session whose
\* exec is still streaming or was never started.
PanicNeedsLateResize ==
  process = "panicked" =>
    \E s \in Chans : /\ chan[s].exec \in {"unqueued", "done"}
                     /\ chan[s].inbox # <<>> /\ Pushes(Head(chan[s].inbox))

\* A channel whose client has gone is cleaned up: the request loop ends however
\* full the size queue is, and both directions of a forward end and close the
\* stream to the pod.
ClosedChannelsEnd ==
  \A s \in Chans :
    (process = "up" /\ chan[s].loop \in {"requests", "copying"} /\ ~chan[s].open)
      ~> (process # "up" \/ (chan[s].loop = "done" /\ ~chan[s].queueOpen /\ ~chan[s].upstream))

=============================================================================
