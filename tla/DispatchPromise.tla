--------------------------- MODULE DispatchPromise ---------------------------
(***************************************************************************)
(* What the event-paper path promises of one stage and one signal: a       *)
(* command is chosen once, one attempt is made at publishing it, and only  *)
(* that attempt delivers, and delivers nothing but that command.           *)
(***************************************************************************)
EXTENDS Integers

CONSTANTS Keys, Commands, NoCommand, Attempts, NoAttempt

VARIABLES
  command,   \* the command chosen for a key
  tried,     \* the attempt made at publishing it
  delivered  \* what consumers may have seen: key, command and attempt

promiseVars == <<command, tried, delivered>>

PromiseInit ==
  /\ command = [k \in Keys |-> NoCommand]
  /\ tried = [k \in Keys |-> NoAttempt]
  /\ delivered = {}

Choose(k, c) ==
  /\ command[k] = NoCommand
  /\ command' = [command EXCEPT ![k] = c]
  /\ UNCHANGED <<tried, delivered>>

Attempt(k) ==
  /\ command[k] # NoCommand /\ tried[k] = NoAttempt
  /\ tried'[k] \in Attempts
  /\ tried' = [tried EXCEPT ![k] = tried'[k]]
  /\ UNCHANGED <<command, delivered>>

Deliver(k) ==
  /\ tried[k] # NoAttempt
  /\ delivered' = delivered \cup {<<k, command[k], tried[k]>>}
  /\ UNCHANGED <<command, tried>>

PromiseNext ==
  \E k \in Keys : \/ \E c \in Commands : Choose(k, c)
                  \/ Attempt(k)
                  \/ Deliver(k)

PromiseSpec == PromiseInit /\ [][PromiseNext]_promiseVars
=============================================================================
