---------------------------- MODULE MCTerminals ----------------------------
(***************************************************************************)
(* One instance for TLC of the two ways into a pod, which share nothing:   *)
(* the SSH gateway and the terminal of the web console.  A behaviour is of *)
(* one of them; the other has no client.                                   *)
(***************************************************************************)
EXTENDS SSHGateway

CONSTANTS SizeCap, MaxMessages   \* of the browser's terminal

ASSUME TerminalAssumption == SizeCap \in Nat \ {0} /\ MaxMessages \in Nat

VARIABLES part, socket, inbox, sent, handler, cancelled, sizes, terminal, pump

browserVars == <<socket, inbox, sent, handler, cancelled, sizes, terminal, pump>>

Browser == INSTANCE BrowserTerminal

\* "a-b" with a Workspace "c", and "a" with a Workspace "b-c": one user name.
A == [ns |-> <<"a", "b">>, name |-> <<"c">>]
B == [ns |-> <<"a">>, name |-> <<"b", "c">>]
MCSpaces == {A, B}
MCFirstKeys == [w \in MCSpaces |-> IF w = A THEN Keys ELSE {}]

TerminalsInit == part \in {"gateway", "browser"} /\ Init /\ Browser!Init

TerminalsNext ==
  \/ part = "gateway" /\ Next         /\ UNCHANGED <<part, browserVars>>
  \/ part = "browser" /\ Browser!Next /\ UNCHANGED <<part, vars>>

TerminalsSpec ==
  TerminalsInit /\ [][TerminalsNext]_<<part, vars, browserVars>> /\ Fairness

\* handleTerminalWebSocket: once the page has closed its socket and the server
\* cannot move, everything has ended, or the handler is writing what was typed
\* to a stream nobody reads.
OnlyTypingHoldsTheShell == Browser!OnlyTypingHoldsTheShell

=============================================================================
