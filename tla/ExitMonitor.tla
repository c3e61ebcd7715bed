---------------------------- MODULE ExitMonitor ----------------------------
(***************************************************************************)
(* The feature engine's tick loop and its exit orders: a batch of ticks is *)
(* pulled, each tick is admitted by the session, its features published,   *)
(* the positions of its symbol read, the exits they call for published and *)
(* their prices updated; the batch is acknowledged at the end.  An action  *)
(* is the code between two awaits.  The positions belong to the order      *)
(* management services, which open and close them meanwhile.               *)
(*                                                                         *)
(* Prices are small numbers; the trailing distance is in per cent.  The    *)
(* features themselves, the archives and the order books are left out.  A  *)
(* failed publication or update may have taken effect or not; one that     *)
(* takes effect after its failure was reported is left out.                *)
(***************************************************************************)
EXTENDS Integers, FiniteSetsExt

CONSTANTS
  Tickers,
  TradeTypes,   \* "live" and "paper"
  Rows,         \* the rows that the order management services may write
  NoRow,        \* the absence of a row in positions
  Ticks,        \* the messages of the raw-market-data topic
  NoTick,       \* no tick is being processed
  MaxHold,      \* max_hold_minutes, 0 when unset
  RetryAfter,   \* stop_loss_exit_retry_seconds, 0 when unset
  Writes,       \* bound on the rows written by the order management services
  Faults,       \* bound on the faults of a behaviour
  FaultKinds    \* the kinds of faults that may happen

NoPeak == 0
Keys == Tickers \X TradeTypes
Reasons == {"stop_loss", "target_price", "trailing_stop", "max_hold_minutes"}

(* A PositionSnapshot: 0 is a NULL threshold.                              *)
Row == [ entry : Nat \ {0}, current : Nat \ {0}, openedAt : Nat, target : Nat,
         stop : Nat, trail : 0 .. 99, holding : {"day", "swing"} ]
Tick == [symbol : Tickers, at : Nat, price : Nat \ {0}]

ASSUME ExitAssumption ==
  /\ Rows \subseteq Row /\ NoRow \notin Row
  /\ Ticks \subseteq Tick /\ NoTick \notin Tick
  /\ MaxHold \in Nat /\ RetryAfter \in Nat /\ Writes \in Nat /\ Faults \in Nat
  /\ FaultKinds \subseteq {"process", "crash"}

VARIABLES
  rows,      \* the table positions
  lastAt,    \* TickSession._last_ts, 0 for a symbol not seen
  pending,   \* ExitOrderMonitor._pending: key, reason and time of publication
  peaks,     \* ExitOrderMonitor._trailing_peaks
  loop,      \* where the loop stands
  acked,     \* ticks acknowledged to Pub/Sub
  writes,    \* rows the order management services may still write
  faults,    \* faults left
  handled,   \* history: ticks processed to the end
  standing,  \* history: exits published whose condition has held ever since
  seen       \* history: prices of each position since it was first watched

monitorVars == <<lastAt, pending, peaks>>
historyVars == <<handled, standing, seen>>
exitVars == <<rows, monitorVars, loop, acked, writes, faults, historyVars>>

(* The stage of the loop, the batch, its messages to acknowledge, the tick *)
(* being processed, the exits left to publish and the rows left to update. *)
Idle == [pc |-> "idle", todo |-> {}, done |-> {}, tick |-> NoTick,
         exits |-> {}, updates |-> {}]

----------------------------------------------------------------------------
(* collect_triggers.                                                       *)

Watched(t) == {k \in Keys : k[1] = t.symbol /\ rows[k] # NoRow}

PeakOf_Last(k, t) == IF rows[k].trail = 0 THEN NoPeak ELSE t.price

PeakOf(k, t) ==
  IF rows[k].trail = 0 THEN NoPeak
  ELSE IF peaks[k] = NoPeak THEN Max({rows[k].entry, rows[k].current, t.price})
  ELSE Max({peaks[k], t.price})

(* _exit_condition, in the order the code tests them.                      *)
Condition(k, t) ==
  LET p == rows[k]
  IN  IF p.stop # 0 /\ t.price <= p.stop THEN "stop_loss"
      ELSE IF p.target # 0 /\ t.price >= p.target THEN "target_price"
      ELSE IF p.trail # 0 /\ PeakOf(k, t) > p.entry
              /\ 100 * t.price <= PeakOf(k, t) * (100 - p.trail)
      THEN "trailing_stop"
      ELSE IF MaxHold # 0 /\ p.holding = "day" /\ t.at - p.openedAt >= MaxHold
      THEN "max_hold_minutes"
      ELSE "none"

Blocks(p, k, t) ==
  /\ p.key = k /\ p.reason = Condition(k, t)
  /\ ~(p.reason = "stop_loss" /\ RetryAfter > 0 /\ t.at - p.at >= RetryAfter)

Due_Always(t) == {k \in Watched(t) : Condition(k, t) # "none"}

Due(t) == {k \in Watched(t) : /\ Condition(k, t) # "none"
                              /\ \A p \in pending : ~Blocks(p, k, t)}

ExitFor(k, t) == [key |-> k, reason |-> Condition(k, t), at |-> t.at]

(* The entries that _clear_pending_for_position and _clear_gone_positions  *)
(* leave, which are of the tick's own symbol, and the new ones.            *)
PendingAfter_Appends(t) ==
  {p \in pending : p.key \in Watched(t) /\ Condition(p.key, t) # "none"}
    \cup {ExitFor(k, t) : k \in Due(t)}

PendingAfter(t) ==
  {p \in pending : /\ p.key \in Watched(t) /\ Condition(p.key, t) # "none"
                   /\ ~(p.key \in Due(t) /\ p.reason = Condition(p.key, t))}
    \cup {ExitFor(k, t) : k \in Due(t)}

PeaksAfter(t) ==
  [k \in Keys |-> IF k \in Watched(t) THEN PeakOf(k, t) ELSE NoPeak]

----------------------------------------------------------------------------
(* The tick loop.                                                          *)

Pull(batch) ==
  /\ loop.pc = "idle" /\ batch # {} /\ batch \subseteq Ticks \ acked
  /\ loop' = [Idle EXCEPT !.pc = "next", !.todo = batch]
  /\ UNCHANGED <<rows, monitorVars, acked, writes, faults, historyVars>>

(* TickSession.observe: a tick that is no newer than the last is dropped.  *)
Drop(t) ==
  /\ loop.pc = "next" /\ t \in loop.todo
  /\ t.at <= lastAt[t.symbol]
  /\ loop' = [loop EXCEPT !.todo = @ \ {t}, !.done = @ \cup {t}]
  /\ UNCHANGED <<rows, monitorVars, acked, writes, faults, historyVars>>

Accept(t) ==
  /\ loop.pc = "next" /\ t \in loop.todo
  /\ t.at > lastAt[t.symbol]
  /\ lastAt' = [lastAt EXCEPT ![t.symbol] = t.at]
  /\ loop' = [loop EXCEPT !.pc = "features", !.todo = @ \ {t}, !.tick = t]
  /\ UNCHANGED <<rows, pending, peaks, acked, writes, faults, historyVars>>

FeaturesPublished ==
  /\ loop.pc = "features"
  /\ loop' = [loop EXCEPT !.pc = "read"]
  /\ UNCHANGED <<rows, monitorVars, acked, writes, faults, historyVars>>

(* fetch_positions answers and collect_triggers follows.                   *)
Collect ==
  LET t == loop.tick
  IN  /\ loop.pc = "read"
      /\ pending' = PendingAfter(t)
      /\ peaks' = PeaksAfter(t)
      /\ loop' = [loop EXCEPT !.pc = "exits", !.updates = Watched(t),
                              !.exits = {ExitFor(k, t) : k \in Due(t)}]
      /\ standing' = {x \in standing :
                        x.key[1] = t.symbol =>
                          x.key \in Watched(t) /\ x.reason = Condition(x.key, t)}
      /\ seen' = [k \in Keys |->
                    IF k[1] # t.symbol THEN seen[k]
                    ELSE IF k \in Watched(t) /\ rows[k].trail # 0
                    THEN seen[k] \cup {t.price} ELSE {}]
      /\ UNCHANGED <<rows, lastAt, acked, writes, faults, handled>>

PublishExit(x) ==
  /\ loop.pc = "exits" /\ x \in loop.exits
  /\ loop' = [loop EXCEPT !.exits = @ \ {x}]
  /\ standing' = standing \cup {x}
  /\ UNCHANGED <<rows, monitorVars, acked, writes, faults, handled, seen>>

(* update_positions_for_tick: a patch of a row that is gone changes none.  *)
Patched(k, t) ==
  [rows EXCEPT ![k] = IF @ = NoRow THEN NoRow ELSE [@ EXCEPT !.current = t.price]]

UpdatePrice(k) ==
  /\ loop.pc = "exits" /\ loop.exits = {} /\ k \in loop.updates
  /\ rows' = Patched(k, loop.tick)
  /\ loop' = [loop EXCEPT !.updates = @ \ {k}]
  /\ UNCHANGED <<monitorVars, acked, writes, faults, historyVars>>

NextTick(done) == loop' =
  [loop EXCEPT !.pc = "next", !.done = done, !.tick = NoTick, !.exits = {}, !.updates = {}]

TickProcessed ==
  /\ loop.pc = "exits" /\ loop.exits = {} /\ loop.updates = {}
  /\ NextTick(loop.done \cup {loop.tick})
  /\ handled' = handled \cup {loop.tick}
  /\ UNCHANGED <<rows, monitorVars, acked, writes, faults, standing, seen>>

Fault(kind) == kind \in FaultKinds /\ faults > 0 /\ faults' = faults - 1

(* Whatever the loop awaits raises: the tick is left for redelivery.       *)
ProcessError ==
  /\ Fault("process")
  /\ loop.pc \in {"features", "read", "exits"}
  /\ NextTick(loop.done)
  /\ \/ UNCHANGED <<rows, standing>>
     \/ \E x \in loop.exits : standing' = standing \cup {x} /\ UNCHANGED rows
     \/ \E k \in loop.updates : /\ loop.pc = "exits" /\ loop.exits = {}
                                /\ rows' = Patched(k, loop.tick)
                                /\ UNCHANGED standing
  /\ UNCHANGED <<monitorVars, acked, writes, handled, seen>>

Acknowledge ==
  /\ loop.pc = "next" /\ loop.todo = {}
  /\ acked' = acked \cup loop.done
  /\ loop' = Idle
  /\ UNCHANGED <<rows, monitorVars, writes, faults, historyVars>>

(* The process dies and starts again with an empty session and monitor.    *)
Crash ==
  /\ Fault("crash")
  /\ lastAt' = [s \in Tickers |-> 0]
  /\ pending' = {}
  /\ peaks' = [k \in Keys |-> NoPeak]
  /\ loop' = Idle
  /\ standing' = {}
  /\ seen' = [k \in Keys |-> {}]
  /\ UNCHANGED <<rows, acked, writes, handled>>

(* An order management service writes a row or removes it.                 *)
WriteRow(k, row) ==
  /\ writes > 0 /\ writes' = writes - 1
  /\ row # rows[k]
  /\ rows' = [rows EXCEPT ![k] = row]
  /\ UNCHANGED <<monitorVars, loop, acked, faults, historyVars>>

----------------------------------------------------------------------------
Init ==
  /\ rows = [k \in Keys |-> NoRow]
  /\ lastAt = [s \in Tickers |-> 0]
  /\ pending = {} /\ peaks = [k \in Keys |-> NoPeak]
  /\ loop = Idle /\ acked = {} /\ writes = Writes /\ faults = Faults
  /\ handled = {} /\ standing = {} /\ seen = [k \in Keys |-> {}]

Next ==
  \/ \E batch \in SUBSET Ticks : Pull(batch)
  \/ \E t \in Ticks : Drop(t) \/ Accept(t)
  \/ FeaturesPublished
  \/ Collect
  \/ \E x \in loop.exits : PublishExit(x)
  \/ \E k \in Keys : UpdatePrice(k)
  \/ TickProcessed
  \/ ProcessError
  \/ Acknowledge
  \/ Crash
  \/ \E k \in Keys, row \in Rows \cup {NoRow} : WriteRow(k, row)

Spec == Init /\ [][Next]_exitVars

----------------------------------------------------------------------------
Exit == [key : Keys, reason : Reasons, at : Nat]

(* The monitor's maps are maps: one time per position and reason.          *)
ExitTypeOK ==
  /\ rows \in [Keys -> Row \cup {NoRow}]
  /\ lastAt \in [Tickers -> Nat]
  /\ pending \subseteq Exit /\ standing \subseteq Exit
  /\ \A p, q \in pending : p.key = q.key /\ p.reason = q.reason => p = q
  /\ peaks \in [Keys -> Nat]
  /\ acked \subseteq Ticks /\ handled \subseteq Ticks
  /\ loop.tick \in Ticks \cup {NoTick} /\ loop.exits \subseteq Exit

(* While the condition of an exit stays true at every tick of its symbol,  *)
(* the exit is published once, and a stop loss again only after the retry  *)
(* interval (class comment of ExitOrderMonitor).                           *)
OneExitPerCondition ==
  \A x, y \in standing :
    x.key = y.key /\ x.reason = y.reason /\ x.at < y.at =>
      x.reason = "stop_loss" /\ RetryAfter > 0 /\ y.at - x.at >= RetryAfter

(* The trailing peak of a watched position is no lower than any price its  *)
(* ticks have brought since it was first seen: a trailing stop is measured *)
(* from the high, however slowly the price declines.                       *)
PeakIsHighest ==
  \A k \in Keys : \A price \in seen[k] : price <= peaks[k]

(* A tick whose processing failed is left to redelivery: what has been     *)
(* acknowledged was processed to the end, or overtaken by a newer tick     *)
(* (class comment of the stream runner).                                   *)
AcknowledgedWasProcessed ==
  \A t \in acked :
    \/ \E u \in handled : u.symbol = t.symbol /\ u.at = t.at
    \/ lastAt[t.symbol] > t.at
=============================================================================
