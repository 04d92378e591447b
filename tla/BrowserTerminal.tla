--------------------------- MODULE BrowserTerminal ---------------------------
(***************************************************************************)
(* The browser terminal: handleTerminalWebSocket (internal/ui/terminal.go) *)
(* over OpenTerminal (internal/gateway/terminal.go), and the page's side   *)
(* of the socket (internal/ui/assets/app.js).                              *)
(*                                                                         *)
(* Three goroutines: the handler, which reads the socket and writes what   *)
(* was typed into a pipe; the terminal, which resolves the pod and streams *)
(* it; and the stream's own copy of the pipe to the pod.  The pipe has no  *)
(* buffer: a write waits for the copy to read it.                          *)
(***************************************************************************)
EXTENDS Integers, Sequences

CONSTANTS SizeCap,      \* capacity of browserSizeQueue
          MaxMessages   \* bound on the messages the page sends

VARIABLES
  socket,    \* the page's end of the websocket
  inbox,     \* messages under way to the handler
  sent,      \* how many the page has sent
  handler,   \* the handler: where it is
  cancelled, \* the request's context
  sizes,     \* browserSizeQueue
  terminal,  \* the goroutine running OpenTerminal; ended: errCh has its result
  pump       \* the stream's copy of the pipe to the pod

vars == <<socket, inbox, sent, handler, cancelled, sizes, terminal, pump>>

Messages == {"input", "resize"}

Init ==
  /\ socket = "none"
  /\ inbox = <<>>
  /\ sent = 0
  /\ handler = "none"
  /\ cancelled = FALSE
  /\ sizes = 0
  /\ terminal = "none"
  /\ pump = "none"

\* browserSizeQueue.push: a full queue drops the size.
Push == IF sizes < SizeCap THEN sizes + 1 ELSE sizes

\* The upgrade, the start of OpenTerminal and the first size.
Connect ==
  /\ socket = "none"
  /\ socket' = "open"
  /\ handler' = "reading"
  /\ terminal' = "opening"
  /\ sizes' = Push
  /\ UNCHANGED <<inbox, sent, cancelled, pump>>

-----------------------------------------------------------------------------
(* The page *)

Send(message) ==
  /\ socket = "open" /\ sent < MaxMessages
  /\ inbox' = Append(inbox, message)
  /\ sent' = sent + 1
  /\ UNCHANGED <<socket, handler, cancelled, sizes, terminal, pump>>

\* closeSocket, or a page that is gone.
CloseSocket ==
  /\ socket = "open"
  /\ socket' = "closed"
  /\ UNCHANGED <<inbox, sent, handler, cancelled, sizes, terminal, pump>>

-----------------------------------------------------------------------------
(* OpenTerminal *)

\* The Workspace is ready and its pod resolved: execWithIO streams.
TerminalOpens ==
  /\ terminal = "opening" /\ ~cancelled
  /\ terminal' = "streaming"
  /\ pump' = "reading"
  /\ UNCHANGED <<socket, inbox, sent, handler, cancelled, sizes>>

\* No such Workspace, one that is not ready, no pod, or a cancelled context.
TerminalRefused ==
  /\ terminal = "opening"
  /\ terminal' = "ended"
  /\ UNCHANGED <<socket, inbox, sent, handler, cancelled, sizes, pump>>

ShellExits ==
  /\ terminal = "streaming"
  /\ terminal' = "ended"
  /\ UNCHANGED <<socket, inbox, sent, handler, cancelled, sizes, pump>>

\* StreamWithContext returns when its context is cancelled.
StreamCancelled ==
  /\ terminal = "streaming" /\ cancelled
  /\ terminal' = "ended"
  /\ UNCHANGED <<socket, inbox, sent, handler, cancelled, sizes, pump>>

NextSize ==
  /\ terminal = "streaming" /\ sizes > 0
  /\ sizes' = sizes - 1
  /\ UNCHANGED <<socket, inbox, sent, handler, cancelled, terminal, pump>>

\* The pod's process takes what was typed; it need not.
PodReads ==
  /\ pump = "sending" /\ terminal = "streaming"
  /\ pump' = "reading"
  /\ UNCHANGED <<socket, inbox, sent, handler, cancelled, sizes, terminal>>

\* The copy notices the end of the stream when it next writes to it, and the
\* end of the pipe when it reads.
PumpEnds ==
  /\ \/ pump = "sending" /\ terminal = "ended"
     \/ pump = "reading" /\ handler \in {"waiting", "done"}
  /\ pump' = "none"
  /\ UNCHANGED <<socket, inbox, sent, handler, cancelled, sizes, terminal>>

-----------------------------------------------------------------------------
(* handleTerminalWebSocket *)

\* What the deferred calls do, and the answer of a terminal that has ended.
Returns ==
  /\ handler' = "done"
  /\ cancelled' = TRUE
  /\ socket' = "closed"

\* The end of the loop's body: has the terminal ended meanwhile?
PollTerminal ==
  IF terminal = "ended" THEN Returns
  ELSE handler' = "reading" /\ UNCHANGED <<cancelled, socket>>

ReadResize ==
  /\ handler = "reading" /\ inbox # <<>> /\ Head(inbox) = "resize"
  /\ inbox' = Tail(inbox)
  /\ sizes' = Push
  /\ PollTerminal
  /\ UNCHANGED <<sent, terminal, pump>>

ReadInput ==
  /\ handler = "reading" /\ inbox # <<>> /\ Head(inbox) = "input"
  /\ inbox' = Tail(inbox)
  /\ handler' = "writing"
  /\ UNCHANGED <<socket, sent, cancelled, sizes, terminal, pump>>

\* stdinWriter.Write returns when the copy has read.  The reading end is closed
\* by the handler's own deferred call only, so the write never fails.
WriteInput ==
  /\ handler = "writing" /\ pump = "reading"
  /\ pump' = "sending"
  /\ PollTerminal
  /\ UNCHANGED <<inbox, sent, sizes, terminal>>

\* Mutant of ReadFails: the context is left to the deferred cancel.
ReadFailsWithoutCancel ==
  /\ handler = "reading" /\ inbox = <<>> /\ socket = "closed"
  /\ handler' = "waiting"
  /\ UNCHANGED <<socket, inbox, sent, cancelled, sizes, terminal, pump>>

\* ReadJSON fails: the context is cancelled and the terminal waited for.
ReadFails ==
  /\ handler = "reading" /\ inbox = <<>> /\ socket = "closed"
  /\ cancelled' = TRUE
  /\ handler' = "waiting"
  /\ UNCHANGED <<socket, inbox, sent, sizes, terminal, pump>>

TerminalEnded ==
  /\ handler = "waiting" /\ terminal = "ended"
  /\ Returns
  /\ UNCHANGED <<inbox, sent, sizes, terminal, pump>>

-----------------------------------------------------------------------------

HandlerStep == ReadResize \/ ReadInput \/ WriteInput \/ ReadFails \/ TerminalEnded
TerminalStep == TerminalOpens \/ TerminalRefused \/ StreamCancelled

Next ==
  \/ Connect \/ (\E message \in Messages : Send(message)) \/ CloseSocket
  \/ HandlerStep \/ TerminalStep \/ ShellExits \/ NextSize \/ PodReads \/ PumpEnds

Spec == Init /\ [][Next]_vars

\* What the goroutines of the server do on their own.  Nothing makes the page
\* act or the pod's process read or end.
ServerStep == HandlerStep \/ TerminalStep \/ PumpEnds

-----------------------------------------------------------------------------

TypeOK ==
  /\ socket \in {"none", "open", "closed"}
  /\ inbox \in Seq(Messages)
  /\ sent \in 0 .. MaxMessages
  /\ handler \in {"none", "reading", "writing", "waiting", "done"}
  /\ cancelled \in BOOLEAN
  /\ sizes \in 0 .. SizeCap
  /\ terminal \in {"none", "opening", "streaming", "ended"}
  /\ pump \in {"none", "reading", "sending"}

\* handleTerminalWebSocket: once the page has closed its socket and no goroutine
\* of the server can move, the shell, the handler and the stream's copy have all
\* ended, or the handler is writing what was typed to a stream nobody reads.
\* Nothing else, a full size queue or a refused stream among them, leaves a
\* goroutine waiting for another that will not come.
OnlyTypingHoldsTheShell ==
  socket = "closed" /\ ~ENABLED ServerStep =>
    \/ handler = "done" /\ terminal = "ended" /\ pump = "none"
    \/ handler = "writing"

=============================================================================
