------------------------------ MODULE LunaBus ------------------------------
(***************************************************************************)
(* The shell's bus client (luna/js/bus.js): one WebSocket after the other,  *)
(* reconnection with a growing delay, calls with a timer each.  Event       *)
(* handlers and timers are the steps; they never overlap.                   *)
(*                                                                         *)
(* "connected" is also set when nothing is: after an error and two seconds  *)
(* after an attempt that has not succeeded (simulated mode).  Subscriptions *)
(* are not sent again to a new socket.                                      *)
(***************************************************************************)
EXTENDS Naturals

CONSTANTS
  MaxSockets,     \* bound: sockets ever made
  MaxLunaCalls,   \* bound: calls ever made
  LunaPatterns,   \* patterns app.js subscribes to
  FirstDelay, MaxDelay   \* reconnectDelay and maxReconnectDelay

ASSUME LunaBusAssumption ==
  /\ MaxSockets \in Nat /\ MaxLunaCalls \in Nat
  /\ FirstDelay \in Nat \ {0} /\ MaxDelay \in Nat /\ FirstDelay <= MaxDelay

VARIABLES
  lunaSocket,     \* socket -> "none", "connecting", "open", "failed" between
                  \* its error and its close event, "closed"
  lunaWs,         \* this.ws, 0 for null
  lunaConnected,  \* connected
  lunaDelay,      \* reconnectDelay
  lunaRetries,    \* timers of _reconnect that run
  lunaTimers,     \* sockets whose two seconds have not passed
  lunaSubs,       \* patterns in subscribers
  lunaAsked,      \* socket -> patterns the server was asked for on it
  lunaCalls,      \* calls made
  lunaPending,    \* pendingCalls
  lunaCallTimers, \* calls whose timer runs
  lunaAnswers,    \* calls the server may answer on the open socket
  lunaSettled     \* calls whose promise is settled

callVars == <<lunaCalls, lunaPending, lunaCallTimers, lunaSettled>>
subVars == <<lunaSubs, lunaAsked>>
socketVars == <<lunaSocket, lunaWs, lunaConnected, lunaDelay, lunaRetries,
                lunaTimers>>
lunaVars == <<socketVars, subVars, callVars, lunaAnswers>>

LunaBusInit ==
  /\ lunaSocket = [s \in 1 .. MaxSockets |-> "none"]
  /\ lunaWs = 0
  /\ lunaConnected = FALSE
  /\ lunaDelay = FirstDelay
  /\ lunaRetries = 0
  /\ lunaTimers = {}
  /\ lunaSubs = {}
  /\ lunaAsked = [s \in 1 .. MaxSockets |-> {}]
  /\ lunaCalls = 0
  /\ lunaPending = {} /\ lunaCallTimers = {} /\ lunaAnswers = {}
  /\ lunaSettled = {}

----------------------------------------------------------------------------
(* connect and the events of a socket.                                      *)

NewSocket ==
  /\ lunaWs < MaxSockets
  /\ lunaWs' = lunaWs + 1
  /\ lunaSocket' = [lunaSocket EXCEPT ![lunaWs + 1] = "connecting"]
  /\ lunaTimers' = lunaTimers \cup {lunaWs + 1}

(* app.js connects once.                                                    *)
LunaConnect ==
  /\ lunaWs = 0
  /\ NewSocket
  /\ UNCHANGED <<lunaConnected, lunaDelay, lunaRetries, subVars, callVars,
                 lunaAnswers>>

OnOpen(s) ==
  /\ lunaSocket[s] = "connecting"
  /\ lunaSocket' = [lunaSocket EXCEPT ![s] = "open"]
  /\ lunaConnected' = TRUE
  /\ lunaDelay' = FirstDelay
  /\ UNCHANGED <<lunaWs, lunaRetries, lunaTimers, subVars, callVars,
                 lunaAnswers>>

(* Fault: an error reconnects too.                                          *)
OnErrorReconnects(s) ==
  /\ lunaSocket[s] \in {"connecting", "open"}
  /\ lunaSocket' = [lunaSocket EXCEPT ![s] = "failed"]
  /\ lunaConnected' = TRUE
  /\ lunaRetries' = lunaRetries + 1
  /\ lunaAnswers' = {}
  /\ UNCHANGED <<lunaWs, lunaDelay, lunaTimers, subVars, callVars>>

(* The error event, which the close event follows: _setupFallback.          *)
OnError(s) ==
  /\ lunaSocket[s] \in {"connecting", "open"}
  /\ lunaSocket' = [lunaSocket EXCEPT ![s] = "failed"]
  /\ lunaConnected' = TRUE
  /\ lunaAnswers' = {}
  /\ UNCHANGED <<lunaWs, lunaDelay, lunaRetries, lunaTimers, subVars, callVars>>

OnClose(s) ==
  /\ lunaSocket[s] \in {"open", "failed"}
  /\ lunaSocket' = [lunaSocket EXCEPT ![s] = "closed"]
  /\ lunaConnected' = FALSE
  /\ lunaRetries' = lunaRetries + 1
  /\ lunaAnswers' = {}
  /\ UNCHANGED <<lunaWs, lunaDelay, lunaTimers, subVars, callVars>>

(* Two seconds after connect, whichever socket this.ws is by then.          *)
ConnectTimeout(s) ==
  /\ s \in lunaTimers
  /\ lunaTimers' = lunaTimers \ {s}
  /\ lunaConnected' = TRUE
  /\ UNCHANGED <<lunaSocket, lunaWs, lunaDelay, lunaRetries, subVars, callVars,
                 lunaAnswers>>

Reconnect ==
  /\ lunaRetries > 0
  /\ lunaRetries' = lunaRetries - 1
  /\ NewSocket
  /\ lunaDelay' = IF 2 * lunaDelay > MaxDelay THEN MaxDelay ELSE 2 * lunaDelay
  /\ UNCHANGED <<lunaConnected, subVars, callVars, lunaAnswers>>

----------------------------------------------------------------------------
(* What the shell does.  send is tried when this.ws and connected are set;  *)
(* on a socket that is still connecting it throws, on a closed one it does  *)
(* nothing.  publish only sends.                                            *)

MaySend == lunaWs # 0 /\ lunaConnected
Sent == MaySend /\ lunaSocket[lunaWs] = "open"
SendThrows == MaySend /\ lunaSocket[lunaWs] = "connecting"

(* The server's view of the current socket's subscriptions.                 *)
Ask(patterns) ==
  lunaAsked' = IF Sent THEN [lunaAsked EXCEPT ![lunaWs] = patterns]
                       ELSE lunaAsked

LunaSubscribe(p) ==
  /\ lunaSubs' = lunaSubs \cup {p}
  /\ Ask(lunaAsked[lunaWs] \cup {p})
  /\ UNCHANGED <<socketVars, callVars, lunaAnswers>>

LunaUnsubscribe(p) ==
  /\ lunaSubs' = lunaSubs \ {p}
  /\ Ask(lunaAsked[lunaWs] \ {p})
  /\ UNCHANGED <<socketVars, callVars, lunaAnswers>>

(* The timer and the entry are made before send is tried; where it throws   *)
(* the promise is rejected and both stay.  In simulated mode without a      *)
(* connection the call succeeds at once.                                    *)
LunaCall ==
  LET id == lunaCalls + 1 IN
  /\ lunaCalls < MaxLunaCalls
  /\ lunaCalls' = id
  /\ lunaPending' = IF MaySend THEN lunaPending \cup {id} ELSE lunaPending
  /\ lunaCallTimers' = IF MaySend THEN lunaCallTimers \cup {id}
                                  ELSE lunaCallTimers
  /\ lunaAnswers' = IF Sent THEN lunaAnswers \cup {id} ELSE lunaAnswers
  /\ lunaSettled' = IF ~MaySend \/ SendThrows THEN lunaSettled \cup {id}
                                              ELSE lunaSettled
  /\ UNCHANGED <<socketVars, subVars>>

(* _dispatch of a response: the callback clears the timer and resolves.     *)
OnResponse(id) ==
  /\ id \in lunaAnswers
  /\ lunaAnswers' = lunaAnswers \ {id}
  /\ IF id \in lunaPending
     THEN /\ lunaPending' = lunaPending \ {id}
          /\ lunaCallTimers' = lunaCallTimers \ {id}
          /\ lunaSettled' = lunaSettled \cup {id}
     ELSE UNCHANGED <<lunaPending, lunaCallTimers, lunaSettled>>
  /\ UNCHANGED <<socketVars, subVars, lunaCalls>>

(* Of an error: the entry goes, the timer is left to reject the promise.    *)
OnErrorAnswer(id) ==
  /\ id \in lunaAnswers
  /\ lunaAnswers' = lunaAnswers \ {id}
  /\ lunaPending' = lunaPending \ {id}
  /\ UNCHANGED <<socketVars, subVars, lunaCalls, lunaCallTimers, lunaSettled>>

LunaCallTimeout(id) ==
  /\ id \in lunaCallTimers
  /\ lunaCallTimers' = lunaCallTimers \ {id}
  /\ lunaPending' = lunaPending \ {id}
  /\ lunaSettled' = lunaSettled \cup {id}
  /\ UNCHANGED <<socketVars, subVars, lunaCalls, lunaAnswers>>

----------------------------------------------------------------------------
LunaBusNext ==
  \/ LunaConnect \/ Reconnect
  \/ \E s \in 1 .. MaxSockets :
       OnOpen(s) \/ OnError(s) \/ OnClose(s) \/ ConnectTimeout(s)
  \/ \E p \in LunaPatterns : LunaSubscribe(p) \/ LunaUnsubscribe(p)
  \/ LunaCall
  \/ \E id \in 1 .. MaxLunaCalls :
       OnResponse(id) \/ OnErrorAnswer(id) \/ LunaCallTimeout(id)

LunaBusSpec == LunaBusInit /\ [][LunaBusNext]_lunaVars

----------------------------------------------------------------------------
(* Properties.                                                             *)

LiveSockets == {s \in 1 .. MaxSockets :
                  lunaSocket[s] \in {"connecting", "open"}}

(* However errors, closes, timeouts and reconnections follow one another,   *)
(* the shell has one socket at a time and it is this.ws, so that no event   *)
(* is dispatched twice; and a call whose promise is open has a timer that   *)
(* will settle it, also when the answer was an error or the socket closed.  *)
OneSocketOneTimer ==
  /\ LiveSockets \subseteq {lunaWs}
  /\ 1 .. lunaCalls = lunaSettled \cup lunaCallTimers
=============================================================================
