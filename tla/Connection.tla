----------------------------- MODULE Connection -----------------------------
(***************************************************************************)
(* The WebSocket of a board page (frontend/src/hooks/useWebSocket.ts): the *)
(* sockets a client has opened, the timers that reopen them, and what the  *)
(* user is told.                                                           *)
(*                                                                         *)
(* A client is one instance of the hook.  Its effect is cleaned up when    *)
(* the page is left, and may run again on the same instance: StrictMode    *)
(* does so in development, and a change of the board in the URL.  How long *)
(* a timer waits (the backoff) is left out: it fires at any time.          *)
(***************************************************************************)
EXTENDS Naturals, FiniteSets

CONSTANTS
  Client,
  MaxFaults   \* a bound of the model: sockets dropped, cleanups of the effect

ASSUME ConnectionAssumption == MaxFaults \in Nat

\* Every socket but the first follows the close of one or a second run of the
\* effect, and a cleanup may be followed by both.
Socket == 1..(1 + 2 * MaxFaults)

VARIABLES
  mounted,    \* the effect is in force
  readyState, \* of each socket of each client
  wsRef,      \* the newest socket, 0 for null
  timers,     \* timers to fire, each named by the socket whose close set it
  timerRef,   \* reconnectTimerRef: the timer a cleanup clears
  status,
  faults

connVars == <<mounted, readyState, wsRef, timers, timerRef, status>>

Fault == faults < MaxFaults /\ faults' = faults + 1

Live == {"CONNECTING", "OPEN"}
RefState(c) == IF wsRef[c] = 0 THEN "none" ELSE readyState[c][wsRef[c]]
IsOpen(c) == RefState(c) = "OPEN"

\* Mutant: a socket that is live is not looked for.
connect_Unguarded(c) ==
  /\ wsRef' = [wsRef EXCEPT ![c] = @ + 1]
  /\ readyState' = [readyState EXCEPT ![c][wsRef[c] + 1] = "CONNECTING"]
  /\ status' = [status EXCEPT ![c] = "connecting"]

connect(c) ==
  \/ RefState(c) \in Live /\ UNCHANGED <<wsRef, readyState, status>>
  \/ /\ RefState(c) \notin Live
     /\ wsRef' = [wsRef EXCEPT ![c] = @ + 1]
     /\ readyState' = [readyState EXCEPT ![c][wsRef[c] + 1] = "CONNECTING"]
     /\ status' = [status EXCEPT ![c] = "connecting"]

\* The effect runs.
effect(c) ==
  /\ ~mounted[c]
  /\ mounted' = [mounted EXCEPT ![c] = TRUE]
  /\ connect(c)
  /\ UNCHANGED <<timers, timerRef, faults>>

\* Its cleanup: the last timer is cleared and the socket is told to close.
cleanup(c) ==
  /\ mounted[c] /\ Fault
  /\ mounted' = [mounted EXCEPT ![c] = FALSE]
  /\ timers' = [timers EXCEPT ![c] = @ \ {timerRef[c]}]
  /\ readyState' = IF RefState(c) \in Live
                   THEN [readyState EXCEPT ![c][wsRef[c]] = "CLOSING"] ELSE readyState
  /\ UNCHANGED <<wsRef, timerRef, status>>

onopen(c, k) ==
  /\ readyState[c][k] = "CONNECTING"
  /\ readyState' = [readyState EXCEPT ![c][k] = "OPEN"]
  /\ status' = [status EXCEPT ![c] = "connected"]
  /\ UNCHANGED <<mounted, wsRef, timers, timerRef, faults>>

\* Mutant: a socket that never opened is not followed by a timer.
onclose_OnlyOpened(c, k) ==
  LET again == readyState[c][k] /= "CONNECTING" IN
  /\ \/ readyState[c][k] = "CLOSING" /\ UNCHANGED faults
     \/ readyState[c][k] \in Live /\ Fault
  /\ readyState' = [readyState EXCEPT ![c][k] = "CLOSED"]
  /\ status' = [status EXCEPT ![c] = "disconnected"]
  /\ timers' = IF again THEN [timers EXCEPT ![c] = @ \cup {k}] ELSE timers
  /\ timerRef' = IF again THEN [timerRef EXCEPT ![c] = k] ELSE timerRef
  /\ UNCHANGED <<mounted, wsRef>>

\* The socket is closed: as the client asked (CLOSING), by the gateway, or by the
\* network, before or after it was open.  Whatever the reason, a timer is set.
onclose(c, k) ==
  /\ \/ readyState[c][k] = "CLOSING" /\ UNCHANGED faults
     \/ readyState[c][k] \in Live /\ Fault
  /\ readyState' = [readyState EXCEPT ![c][k] = "CLOSED"]
  /\ status' = [status EXCEPT ![c] = "disconnected"]
  /\ timers' = [timers EXCEPT ![c] = @ \cup {k}]
  /\ timerRef' = [timerRef EXCEPT ![c] = k]
  /\ UNCHANGED <<mounted, wsRef>>

reconnects(c, k) ==
  /\ k \in timers[c]
  /\ timers' = [timers EXCEPT ![c] = @ \ {k}]
  /\ connect(c)
  /\ UNCHANGED <<mounted, timerRef, faults>>

\* The clients of "on" have a socket open, the others have not come yet.
ConnInit(on) ==
  /\ mounted = [c \in Client |-> c \in on]
  /\ readyState = [c \in Client |-> [k \in Socket |->
                     IF c \in on /\ k = 1 THEN "OPEN" ELSE "none"]]
  /\ wsRef = [c \in Client |-> IF c \in on THEN 1 ELSE 0]
  /\ timers = [c \in Client |-> {}]
  /\ timerRef = [c \in Client |-> 0]
  /\ status = [c \in Client |-> IF c \in on THEN "connected" ELSE "disconnected"]
  /\ faults = 0

-----------------------------------------------------------------------------
(* Properties.                                                             *)

\* A client never has two sockets that are connecting or open, whatever closes
\* and timers are left over from an effect that was cleaned up: the gateway would
\* register both, and every broadcast would come twice.
OneLiveSocket ==
  \A c \in Client : Cardinality({k \in Socket : readyState[c][k] \in Live}) <= 1

\* A client whose page stays has a socket again, after drops, sockets that never
\* opened and cleanups in any order.
ComesBack == \A c \in Client : []<>(mounted[c] => IsOpen(c))
=============================================================================
