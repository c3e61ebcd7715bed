-------------------------- MODULE MarketData_proofs --------------------------
(***************************************************************************)
(* The two services that follow the market.                                *)
(*                                                                         *)
(* The feeder's registrations and records, for any instruments, any pushes *)
(* and any number of disturbances.  Both invariants follow the cycle: what *)
(* is registered is known from the clearing on, as long as neither of the  *)
(* two tasks has ended; a received record is sent, on its way or failed,   *)
(* as long as the websocket is looked after.                               *)
(*                                                                         *)
(* The exits of the feature engine, for any rows, ticks, limits and times. *)
(* An exit stands for a condition that lasts; the pending entry of its key *)
(* is that exit, or a stop loss that was published again after the wait.   *)
(* With two symbols a tick of the one erases what is kept for the other,   *)
(* a finding (the run ExitTwoSymbols): the safety is for one symbol.       *)
(***************************************************************************)
EXTENDS ExitMonitor, FeederSession, TLAPS

Stages == {"exited", "backoff", "token", "clear", "first", "unregister", "register",
           "connect", "stream"}
Positions == {"off", "poll", "unregister", "register"} \cup {"auth", "api", "http", "database"}
At(p, S) == p = [pc |-> p.pc, remove |-> p.remove, add |-> p.add] /\ p.pc \in S

Shapes ==
  /\ step = [cycle |-> step.cycle, watchlist |-> step.watchlist]
  /\ At(step.cycle, Stages) /\ At(step.watchlist, Positions)
  /\ step.watchlist.pc # "off" <=> CycleAt("stream")
  /\ sends = [open |-> sends.open, failed |-> sends.failed]

(* Where the feeder knows what the broker has.                             *)
Knows ==
  \/ step.cycle.pc \in {"first", "unregister", "register", "connect"}
  \/ step.watchlist.pc \in {"poll", "unregister", "register"}

Follows == Knows => registered \subseteq kabu /\ kabu \subseteq registered \cup uncleared

Accounted ==
  /\ ws \in {"receive", "finish"} => pushed \subseteq sent \cup sends.open \cup sends.failed
  /\ ws = "closed" => pushed \subseteq sent

FeederInv == Shapes /\ Follows /\ Accounted

----------------------------------------------------------------------------
LEMMA FeederInitInv == FeederInit => FeederInv
BY DEF FeederInit, FeederInv, Shapes, Follows, Accounted, Knows, Place, NoSends, At,
       Stages, Positions, CycleAt

(* The end of a cycle, and of the process.                                 *)
LEMMA BeginsInv ==
  ASSUME Shapes, NEW pc \in {"exited", "backoff", "token"}, Begins(pc),
         sends' = sends \/ sends' = NoSends
  PROVE  FeederInv'
BY DEF Begins, FeederInv, Shapes, Follows, Accounted, Knows, Place, NoSends, At,
       Stages, Positions, CycleAt

LEMMA QuitInv == ASSUME FeederInv, Quit PROVE FeederInv'
BY BeginsInv DEF Quit, FeederInv

LEMMA ReconnectInv ==
  ASSUME FeederInv, NEW error, Reconnect(error), sends' = sends \/ sends' = NoSends
  PROVE  FeederInv'
<1>1. \E pc \in {"backoff", "token"} : Begins(pc)
  BY DEF Reconnect
<1> QED BY <1>1, BeginsInv DEF FeederInv

LEMMA FailsInv == ASSUME FeederInv, NEW error, Fails(error) PROVE FeederInv'
BY QuitInv, ReconnectInv DEF Fails

(* A step that leaves the two tasks where they are, the registrations and  *)
(* the records alone.                                                      *)
LEMMA ElsewhereInv ==
  ASSUME FeederInv, UNCHANGED <<step, ws, pushed, sends, sent, registered, kabu, uncleared>>
  PROVE  FeederInv'
BY DEF FeederInv, Shapes, Follows, Accounted, Knows, CycleAt

----------------------------------------------------------------------------
(* The cycle up to the websocket.                                          *)
LEMMA GoesInv ==
  ASSUME FeederInv, step.cycle.pc # "stream",
         NEW p, At(p, Stages \ {"stream"}), step' = [step EXCEPT !.cycle = p],
         UNCHANGED <<ws, pushed, sends, sent>>,
         Knows' => registered' \subseteq kabu' /\ kabu' \subseteq registered' \cup uncleared'
  PROVE  FeederInv'
<1>1. step' = [cycle |-> p, watchlist |-> step.watchlist]
  BY DEF FeederInv, Shapes
<1> QED BY <1>1 DEF FeederInv, Shapes, Follows, Accounted, At, CycleAt

LEMMA PlaceShape == \A pc : At(Place(pc), {pc})
BY DEF Place, At

LEMMA BeforeStreamInv ==
  ASSUME FeederInv, EnsureToken \/ EndsBackoff \/ Starts PROVE FeederInv'
<1>1. /\ step.cycle.pc # "stream" /\ UNCHANGED <<ws, pushed, sends, sent>>
      /\ \E pc \in {"clear", "token"} : step' = [step EXCEPT !.cycle = Place(pc)]
  BY DEF EnsureToken, EndsBackoff, Starts, Goes, CycleAt, feederEnv
<1>2. PICK pc \in {"clear", "token"} : step' = [step EXCEPT !.cycle = Place(pc)]
  BY <1>1
<1>3. At(Place(pc), Stages \ {"stream"}) /\ Place(pc).pc = pc
  BY DEF Place, At, Stages
<1>4. ~Knows'
  BY <1>1, <1>2, <1>3 DEF Knows, FeederInv, Shapes, CycleAt
<1> QED BY <1>1, <1>2, <1>3, <1>4, GoesInv

LEMMA ClearAllInv == ASSUME FeederInv, ClearAll PROVE FeederInv'
<1>1. At(Place("first"), Stages \ {"stream"})
  BY DEF Place, At, Stages
<1> QED BY <1>1, GoesInv DEF ClearAll, Goes, CycleAt

(* What a task has to remove or to add.                                    *)
LEMMA DifferenceShape ==
  ASSUME NEW pc
  PROVE  /\ At(Difference(pc), {"unregister", "register", pc})
BY DEF Difference, At

LEMMA FirstRowsInv == ASSUME FeederInv, FirstRows PROVE FeederInv'
<1>1. CASE feed = "closed"
  BY <1>1, QuitInv DEF FirstRows
<1>2. CASE feed # "closed"
  <2>1. At(Difference("connect"), Stages \ {"stream"})
    BY DifferenceShape DEF At, Stages
  <2>2. Knows
    BY <1>2 DEF FirstRows, CycleAt, Knows
  <2> QED BY <1>2, <2>1, <2>2, GoesInv DEF FirstRows, CycleAt, FeederInv, Follows
<1> QED BY <1>1, <1>2

LEMMA ConnectInv == ASSUME FeederInv, Connect PROVE FeederInv'
<1>1. CASE token = "stale"
  BY <1>1, QuitInv DEF Connect
<1>2. CASE token # "stale"
  <2>1. Knows
    BY DEF Connect, CycleAt, Knows
  <2> QED
    BY <1>2, <2>1 DEF Connect, FeederInv, Shapes, Follows, Accounted, Place, NoSends, At,
       Stages, Positions, CycleAt
<1> QED BY <1>1, <1>2

LEMMA StartFailsInv == ASSUME FeederInv, StartFails PROVE FeederInv'
BY FailsInv DEF StartFails

----------------------------------------------------------------------------
(* A call of the cycle or of its watchlist task.                           *)
LEMMA ApplierMoves ==
  ASSUME FeederInv, NEW a \in Appliers, Calling(a),
         NEW pc \in {"register", "connect", "poll"},
         a = "cycle" => pc # "poll", a = "watchlist" => pc # "connect",
         step' = [step EXCEPT ![a].pc = pc],
         UNCHANGED <<ws, pushed, sends, sent, uncleared>>,
         registered' \subseteq kabu', kabu' \subseteq registered' \cup uncleared
  PROVE  FeederInv'
<1>1. PICK p : p = [pc |-> pc, remove |-> step[a].remove, add |-> step[a].add]
  OBVIOUS
<1>2. p = [pc |-> p.pc, remove |-> p.remove, add |-> p.add] /\ p.pc = pc
  BY <1>1
<1>3. Follows' /\ Accounted'
  BY DEF FeederInv, Follows, Accounted
<1>4. CASE a = "cycle"
  <2>1. step' = [cycle |-> p, watchlist |-> step.watchlist]
    BY <1>1, <1>4 DEF FeederInv, Shapes, At
  <2>2. step.cycle.pc # "stream" /\ pc \in Stages \ {"stream"}
    BY <1>4 DEF Calling, Stages
  <2>3. step'.cycle = p /\ step'.watchlist = step.watchlist
    BY <2>1
  <2>4. At(step'.cycle, Stages)
    BY <1>2, <2>2, <2>3 DEF At
  <2>5. Shapes'
    BY <1>2, <2>1, <2>2, <2>3, <2>4 DEF FeederInv, Shapes, CycleAt, At
  <2> QED BY <1>3, <2>5 DEF FeederInv
<1>5. CASE a = "watchlist"
  <2>1. step' = [cycle |-> step.cycle, watchlist |-> p]
    BY <1>1, <1>5 DEF FeederInv, Shapes, At
  <2>2. step.watchlist.pc # "off" /\ pc \in Positions \ {"off"}
    BY <1>5 DEF Calling, Positions
  <2>3. step'.cycle = step.cycle /\ step'.watchlist = p
    BY <2>1
  <2>4. At(step'.watchlist, Positions)
    BY <1>2, <2>2, <2>3 DEF At
  <2>5. Shapes'
    BY <1>2, <2>1, <2>2, <2>3, <2>4 DEF FeederInv, Shapes, CycleAt
  <2> QED BY <1>3, <2>5 DEF FeederInv
<1> QED BY <1>4, <1>5 DEF Appliers

LEMMA CallingKnows ==
  ASSUME NEW a \in Appliers, Calling(a) PROVE Knows
BY DEF Appliers, Calling, Knows

LEMMA UnregisterInv ==
  ASSUME FeederInv, NEW a \in Appliers, Unregister(a) PROVE FeederInv'
<1>1. Calling(a) /\ Knows
  BY CallingKnows DEF Unregister, Calling
<1>2. /\ registered' \subseteq kabu' /\ kabu' \subseteq registered' \cup uncleared
      /\ UNCHANGED <<ws, pushed, sends, sent, uncleared>>
  BY <1>1 DEF Unregister, Effect, FeederInv, Follows
<1>3. PICK pc \in {"register", "connect", "poll"} :
        /\ step' = [step EXCEPT ![a].pc = pc]
        /\ (a = "cycle" => pc # "poll") /\ (a = "watchlist" => pc # "connect")
  BY DEF Unregister, Appliers
<1> QED BY <1>1, <1>2, <1>3, ApplierMoves

LEMMA RegisterInv ==
  ASSUME FeederInv, NEW a \in Appliers, Register(a) PROVE FeederInv'
<1>1. Calling(a) /\ Knows
  BY CallingKnows DEF Register, Calling
<1>2. /\ registered' \subseteq kabu' /\ kabu' \subseteq registered' \cup uncleared
      /\ UNCHANGED <<ws, pushed, sends, sent, uncleared>>
  BY <1>1 DEF Register, Effect, FeederInv, Follows
<1>3. PICK pc \in {"register", "connect", "poll"} :
        /\ step' = [step EXCEPT ![a].pc = pc]
        /\ (a = "cycle" => pc # "poll") /\ (a = "watchlist" => pc # "connect")
  BY DEF Register, Appliers
<1> QED BY <1>1, <1>2, <1>3, ApplierMoves

(* The watchlist task goes on, or ends with an error.                      *)
LEMMA WatchlistMoves ==
  ASSUME FeederInv, step.watchlist.pc # "off", NEW q, At(q, Positions \ {"off"}),
         step' = [step EXCEPT !.watchlist = q],
         UNCHANGED <<ws, pushed, sends, sent, registered, uncleared>>,
         q.pc \in {"poll", "unregister", "register"} => Knows /\ kabu' = kabu
  PROVE  FeederInv'
<1>1. step' = [cycle |-> step.cycle, watchlist |-> q]
  BY DEF FeederInv, Shapes
<1>2. Knows' => q.pc \in {"poll", "unregister", "register"}
  BY <1>1 DEF Knows, FeederInv, Shapes, CycleAt
<1> QED BY <1>1, <1>2 DEF FeederInv, Shapes, Follows, Accounted, At, CycleAt

LEMMA CallFailsInv ==
  ASSUME FeederInv, NEW a \in Appliers, CallFails(a) PROVE FeederInv'
<1>1. PICK error \in {"auth", "api", "http"} :
        IF a = "cycle" THEN Fails(error)
        ELSE /\ step' = [step EXCEPT !.watchlist = Place(error)]
             /\ UNCHANGED <<registered, feed, ws, pushed, sends, orphans, cached, token, sent>>
  BY DEF CallFails
<1>2. CASE a = "cycle"
  BY <1>1, <1>2, FailsInv
<1>3. CASE a # "cycle"
  <2>1. At(Place(error), Positions \ {"off"}) /\ Place(error).pc = error
    BY DEF Place, At, Positions
  <2>2. step.watchlist.pc # "off" /\ uncleared' = uncleared
    BY <1>3 DEF CallFails, Calling, Appliers
  <2> QED BY <1>1, <1>3, <2>1, <2>2, WatchlistMoves
<1> QED BY <1>2, <1>3

LEMMA PollWatchlistInv == ASSUME FeederInv, PollWatchlist PROVE FeederInv'
<1>1. At(Difference("poll"), Positions \ {"off"})
  BY DifferenceShape DEF At, Positions
<1>2. Knows
  BY DEF PollWatchlist, Knows
<1> QED BY <1>1, <1>2, WatchlistMoves DEF PollWatchlist, feederEnv

LEMMA WatchlistFailsInv == ASSUME FeederInv, WatchlistFails PROVE FeederInv'
<1>1. At(Place("database"), Positions \ {"off"}) /\ Place("database").pc = "database"
  BY DEF Place, At, Positions
<1> QED BY <1>1, WatchlistMoves DEF WatchlistFails

----------------------------------------------------------------------------
(* The websocket and the sends: the registrations stay.                    *)
LEMMA StreamInv ==
  ASSUME FeederInv, UNCHANGED <<step, registered, kabu, uncleared>>,
         sends' = [open |-> sends'.open, failed |-> sends'.failed], Accounted'
  PROVE  FeederInv'
BY DEF FeederInv, Shapes, Follows, Knows, CycleAt

LEMMA ReceiveInv == ASSUME FeederInv, NEW r \in Pushes, Receive(r) PROVE FeederInv'
<1>1. sends' = [open |-> sends.open \cup {r}, failed |-> sends.failed]
  BY DEF Receive, FeederInv, Shapes
<1>2. UNCHANGED <<step, registered, kabu, uncleared>>
  BY DEF Receive, streamVars
<1>3. Accounted'
  BY <1>1 DEF Receive, FeederInv, Accounted
<1> QED BY <1>1, <1>2, <1>3, StreamInv

LEMMA SendDoneInv == ASSUME FeederInv, NEW r \in Pushes, SendDone(r) PROVE FeederInv'
<1>1. sends' = [open |-> sends.open \ {r}, failed |-> sends.failed]
  BY DEF SendDone, FeederInv, Shapes
<1>2. UNCHANGED <<step, registered, kabu, uncleared>>
  BY DEF SendDone, streamVars
<1>3. Accounted'
  BY <1>1 DEF SendDone, FeederInv, Accounted
<1> QED BY <1>1, <1>2, <1>3, StreamInv

LEMMA SendFailsInv == ASSUME FeederInv, NEW r \in Pushes, SendFails(r) PROVE FeederInv'
<1>1. /\ sends' = [open |-> sends.open \ {r}, failed |-> sends.failed \cup (sends.open \cap {r})]
      /\ sent \subseteq sent' /\ UNCHANGED <<ws, pushed>>
  BY DEF SendFails
<1>2. UNCHANGED <<step, registered, kabu, uncleared>>
  BY DEF SendFails, streamVars
<1>3. Accounted'
  BY <1>1 DEF FeederInv, Accounted
<1> QED BY <1>1, <1>2, <1>3, StreamInv

LEMMA SocketInv ==
  ASSUME FeederInv, NoticeFailure \/ SocketCloses \/ SocketBreaks \/ FinishSends
  PROVE  FeederInv'
<1>1. UNCHANGED <<step, registered, kabu, uncleared>>
  BY DEF NoticeFailure, SocketCloses, SocketBreaks, FinishSends, streamVars
<1>2. sends' = [open |-> sends'.open, failed |-> sends'.failed]
  <2>1. sends' = sends \/ sends' = NoSends
    BY DEF NoticeFailure, SocketCloses, SocketBreaks, FinishSends, CancelSends
  <2> QED BY <2>1 DEF FeederInv, Shapes, NoSends
<1>3. Accounted'
  <2>1. CASE NoticeFailure \/ SocketBreaks
    BY <2>1 DEF NoticeFailure, SocketBreaks, CancelSends, Accounted
  <2>2. CASE SocketCloses
    BY <2>2 DEF SocketCloses, FeederInv, Accounted
  <2>3. CASE FinishSends
    BY <2>3 DEF FinishSends, NoSends, FeederInv, Accounted
  <2> QED BY <2>1, <2>2, <2>3
<1> QED BY <1>1, <1>2, <1>3, StreamInv

LEMMA TaskDoneInv == ASSUME FeederInv, StreamDone \/ WatchlistDone PROVE FeederInv'
<1>1. CASE StreamDone
  BY <1>1, ReconnectInv DEF StreamDone
<1>2. CASE WatchlistDone
  BY <1>2, ReconnectInv, QuitInv DEF WatchlistDone
<1> QED BY <1>1, <1>2

----------------------------------------------------------------------------
LEMMA FeederNextInv == FeederInv /\ [FeederNext]_feederVars => FeederInv'
<1> SUFFICES ASSUME FeederInv, [FeederNext]_feederVars PROVE FeederInv'
  OBVIOUS
<1>1. CASE Cycle
  BY <1>1, BeforeStreamInv, ClearAllInv, FirstRowsInv, ConnectInv, TaskDoneInv,
     UnregisterInv, RegisterInv, PollWatchlistInv, SocketInv, SendDoneInv
  DEF Cycle
<1>2. CASE \/ \E r \in Pushes : Receive(r) \/ SendFails(r)
           \/ StartFails \/ (\E a \in Appliers : CallFails(a)) \/ WatchlistFails
           \/ SocketCloses \/ SocketBreaks
  BY <1>2, ReceiveInv, SendFailsInv, StartFailsInv, CallFailsInv, WatchlistFailsInv,
     SocketInv
<1>3. CASE (\E S \in SUBSET Instruments : Relist(S)) \/ TokenLost \/ UNCHANGED feederVars
  BY <1>3, ElsewhereInv DEF Relist, TokenLost, feederVars, feederTask, feederEnv
<1>4. CASE FeederCrash
  BY <1>4, QuitInv DEF FeederCrash
<1> QED BY <1>1, <1>2, <1>3, <1>4 DEF FeederNext

(* Registrations, sends and records stay accounted for through every cycle *)
(* of the session and every way in which one ends.                         *)
THEOREM FeederSafe == FeederSpec => []FeederInv
BY FeederInitInv, FeederNextInv, PTL DEF FeederSpec

(* While both tasks of the feeder run, the broker has what the feeder      *)
(* believes to be registered, and beyond that only what was not cleared:   *)
(* for any watchlist, any number of reconnections and failed calls.        *)
THEOREM FeederIsFollowed == FeederSpec => []BrokerFollows
<1>1. FeederInv => BrokerFollows
  BY DEF FeederInv, Follows, Knows, BrokerFollows
<1> QED BY <1>1, FeederSafe, PTL

(* A websocket closed in order leaves no received record unpublished.      *)
THEOREM FeederClosesClean == FeederSpec => []CleanCloseKeepsRecords
<1>1. FeederInv => CleanCloseKeepsRecords
  BY DEF FeederInv, Accounted, CleanCloseKeepsRecords
<1> QED BY <1>1, FeederSafe, PTL

------------------------------------------------------------------------------
Passes == {"idle", "next", "features", "read", "exits"}
Loop == [ pc : Passes, todo : SUBSET Ticks, done : SUBSET Ticks, tick : Ticks \cup {NoTick},
          exits : SUBSET Exit, updates : SUBSET Keys ]

LoopInv ==
  /\ loop \in Loop
  /\ loop.pc \in {"features", "read", "exits"} => loop.tick \in Ticks
  /\ loop.pc # "exits" => loop.exits = {}
  /\ seen \in [Keys -> SUBSET (Nat \ {0})]

ExitShapes == ExitTypeOK /\ LoopInv

(* Of a condition that lasts, the pending entry is the last exit that was  *)
(* published, or one that is to be published long enough after it.         *)
Apart(x, y) ==
  /\ x.reason = "stop_loss" /\ RetryAfter > 0
  /\ x.at < y.at /\ y.at - x.at >= RetryAfter

OnRecord ==
  /\ loop.exits \subseteq pending
  /\ \A x \in standing : \E p \in pending :
       p.key = x.key /\ p.reason = x.reason /\ (p = x \/ Apart(x, p))

ExitInv == ExitShapes /\ OnRecord /\ OneExitPerCondition /\ PeakIsHighest

----------------------------------------------------------------------------
LEMMA MaxOfTwo ==
  ASSUME NEW a \in Nat, NEW b \in Nat
  PROVE  Max({a, b}) \in Nat /\ Max({a, b}) >= a /\ Max({a, b}) >= b
<1>1. \E x \in {a, b} : \A y \in {a, b} : x >= y
  <2>1. CASE a >= b
    BY <2>1
  <2>2. CASE b >= a
    BY <2>2
  <2> QED BY <2>1, <2>2
<1> QED BY <1>1 DEF Max

LEMMA MaxOfThree ==
  ASSUME NEW a \in Nat, NEW b \in Nat, NEW c \in Nat
  PROVE  Max({a, b, c}) \in Nat /\ Max({a, b, c}) >= c
<1>1. \E x \in {a, b, c} : \A y \in {a, b, c} : x >= y
  <2>1. CASE a >= b /\ a >= c
    BY <2>1
  <2>2. CASE b >= a /\ b >= c
    BY <2>2
  <2>3. CASE c >= a /\ c >= b
    BY <2>3
  <2> QED BY <2>1, <2>2, <2>3
<1> QED BY <1>1 DEF Max

LEMMA PeakOfNumbers ==
  ASSUME ExitShapes, NEW t \in Ticks, NEW k \in Watched(t)
  PROVE  /\ PeakOf(k, t) \in Nat
         /\ rows[k].trail # 0 => PeakOf(k, t) >= t.price /\ PeakOf(k, t) >= peaks[k]
<1>1. t.price \in Nat \ {0} /\ k \in Keys /\ rows[k] \in Row /\ peaks[k] \in Nat
  BY ExitAssumption DEF ExitShapes, ExitTypeOK, Watched, Tick
<1>2. rows[k].entry \in Nat /\ rows[k].current \in Nat
  BY <1>1 DEF Row
<1> QED BY <1>1, <1>2, MaxOfTwo, MaxOfThree DEF PeakOf, NoPeak

LEMMA ExitsTyped ==
  ASSUME ExitShapes, NEW t \in Ticks
  PROVE  /\ t.symbol \in Tickers /\ t.at \in Nat /\ t.price \in Nat \ {0}
         /\ Watched(t) \subseteq Keys /\ Due(t) \subseteq Watched(t)
         /\ \A k \in Keys : Condition(k, t) \in Reasons \cup {"none"}
         /\ \A k \in Due(t) : ExitFor(k, t) \in Exit
<1>1. t.symbol \in Tickers /\ t.at \in Nat /\ t.price \in Nat \ {0}
  BY ExitAssumption DEF Tick
<1>2. Watched(t) \subseteq Keys /\ Due(t) \subseteq Watched(t)
  BY DEF Watched, Due
<1>3. \A k \in Keys : Condition(k, t) \in Reasons \cup {"none"}
  BY DEF Condition, Reasons
<1>4. \A k \in Due(t) : ExitFor(k, t) \in Exit
  BY <1>1, <1>2, <1>3 DEF Due, ExitFor, Exit
<1> QED BY <1>1, <1>2, <1>3, <1>4

LEMMA InitExits == Init => ExitInv
BY DEF Init, ExitInv, ExitShapes, LoopInv, ExitTypeOK, OnRecord, OneExitPerCondition,
       PeakIsHighest, Loop, Passes, Idle, NoPeak

LEMMA CollectShapes == ASSUME ExitShapes, Collect PROVE ExitShapes'
<1> DEFINE t == loop.tick
<1>1. t \in Ticks
  BY DEF Collect, ExitShapes, LoopInv
<1>2. /\ t.symbol \in Tickers /\ t.at \in Nat /\ t.price \in Nat \ {0}
      /\ Watched(t) \subseteq Keys /\ Due(t) \subseteq Watched(t)
      /\ \A k \in Due(t) : ExitFor(k, t) \in Exit
  BY <1>1, ExitsTyped
<1>3. pending' \subseteq Exit /\ standing' \subseteq Exit
  BY <1>2 DEF Collect, PendingAfter, ExitShapes, ExitTypeOK
<1>4. \A p, q \in pending' : p.key = q.key /\ p.reason = q.reason => p = q
  <2> SUFFICES ASSUME NEW p \in pending', NEW q \in pending', p.key = q.key,
                      p.reason = q.reason
               PROVE  p = q
    OBVIOUS
  <2> DEFINE kept == {r \in pending : ~(r.key \in Due(t) /\ r.reason = Condition(r.key, t))}
             new  == {ExitFor(k, t) : k \in Due(t)}
  <2>1. p \in kept \cup new /\ q \in kept \cup new
    BY DEF Collect, PendingAfter
  <2>2. \A x \in new : x.key \in Due(t) /\ x.reason = Condition(x.key, t)
                       /\ x = ExitFor(x.key, t)
    BY DEF ExitFor
  <2>3. CASE p \in kept /\ q \in kept
    BY <2>3 DEF ExitShapes, ExitTypeOK
  <2>4. CASE p \in new /\ q \in new
    BY <2>2, <2>4
  <2>5. ~(p \in kept /\ q \in new) /\ ~(p \in new /\ q \in kept)
    BY <2>2
  <2> HIDE DEF kept, new
  <2> QED BY <2>1, <2>3, <2>4, <2>5
<1>5. peaks' \in [Keys -> Nat]
  BY <1>1, PeakOfNumbers DEF Collect, PeaksAfter, NoPeak
<1>6. seen' \in [Keys -> SUBSET (Nat \ {0})]
  BY <1>2 DEF Collect, ExitShapes, LoopInv
<1>7. loop' \in Loop /\ loop'.tick = t /\ loop'.pc = "exits"
  <2>1. {ExitFor(k, t) : k \in Due(t)} \subseteq Exit /\ Watched(t) \subseteq Keys
    BY <1>2
  <2> QED BY <2>1 DEF Collect, ExitShapes, LoopInv, Loop, Passes
<1>8. UNCHANGED <<rows, lastAt, acked, handled>>
  BY DEF Collect
<1> QED BY <1>1, <1>3, <1>4, <1>5, <1>6, <1>7, <1>8 DEF ExitShapes, ExitTypeOK, LoopInv, Loop

LEMMA PatchedTyped ==
  ASSUME ExitShapes, NEW k \in Keys, NEW t \in Ticks
  PROVE  Patched(k, t) \in [Keys -> Row \cup {NoRow}]
<1>1. t.price \in Nat \ {0}
  BY ExitAssumption DEF Tick
<1>2. rows[k] # NoRow => [rows[k] EXCEPT !.current = t.price] \in Row
  BY <1>1 DEF ExitShapes, ExitTypeOK, Row
<1> QED BY <1>2 DEF Patched, ExitShapes, ExitTypeOK

(* Everything but a tick's own publications.                               *)
LEMMA StepShapes == ASSUME ExitShapes, [Next]_exitVars PROVE ExitShapes'
<1>1. ASSUME NEW batch \in SUBSET Ticks, Pull(batch)
      PROVE  ExitShapes'
  BY <1>1 DEF Pull, ExitShapes, ExitTypeOK, LoopInv, Loop, Passes, Idle, monitorVars, historyVars
<1>2. ASSUME NEW t \in Ticks, Drop(t)
      PROVE  ExitShapes'
  BY <1>2 DEF Drop, ExitShapes, ExitTypeOK, LoopInv, Loop, Passes, monitorVars, historyVars
<1>3. ASSUME NEW t \in Ticks, Accept(t)
      PROVE  ExitShapes'
  <2>1. t.symbol \in Tickers /\ t.at \in Nat
    BY ExitAssumption DEF Tick
  <2> QED BY <1>3, <2>1 DEF Accept, ExitShapes, ExitTypeOK, LoopInv, Loop, Passes, historyVars
<1>4. CASE FeaturesPublished
  BY <1>4 DEF FeaturesPublished, ExitShapes, ExitTypeOK, LoopInv, Loop, Passes, monitorVars,
     historyVars
<1>5. CASE Collect
  BY <1>5, CollectShapes
<1>6. ASSUME NEW x \in loop.exits, PublishExit(x)
      PROVE  ExitShapes'
  BY <1>6 DEF PublishExit, ExitShapes, ExitTypeOK, LoopInv, Loop, Passes, monitorVars
<1>7. ASSUME NEW k \in Keys, UpdatePrice(k)
      PROVE  ExitShapes'
  <2>1. loop.tick \in Ticks
    BY <1>7 DEF UpdatePrice, ExitShapes, LoopInv
  <2>2. rows' \in [Keys -> Row \cup {NoRow}]
    BY <1>7, <2>1, PatchedTyped DEF UpdatePrice
  <2> QED BY <1>7, <2>2 DEF UpdatePrice, ExitShapes, ExitTypeOK, LoopInv, Loop, Passes,
        monitorVars, historyVars
<1>8. CASE TickProcessed
  BY <1>8 DEF TickProcessed, NextTick, ExitShapes, ExitTypeOK, LoopInv, Loop, Passes, monitorVars
<1>9. CASE ProcessError
  <2>1. loop.tick \in Ticks
    BY <1>9 DEF ProcessError, ExitShapes, LoopInv
  <2>2. rows' \in [Keys -> Row \cup {NoRow}] /\ standing' \subseteq Exit
    <3>1. loop.updates \subseteq Keys /\ loop.exits \subseteq Exit
      BY DEF ExitShapes, LoopInv, Loop
    <3> QED BY <1>9, <2>1, <3>1, PatchedTyped DEF ProcessError, ExitShapes, ExitTypeOK
  <2> QED BY <1>9, <2>2 DEF ProcessError, NextTick, ExitShapes, ExitTypeOK, LoopInv, Loop,
        Passes, monitorVars
<1>10. CASE Acknowledge
  BY <1>10 DEF Acknowledge, ExitShapes, ExitTypeOK, LoopInv, Loop, Passes, Idle, monitorVars,
     historyVars
<1>11. CASE Crash
  BY <1>11 DEF Crash, ExitShapes, ExitTypeOK, LoopInv, Loop, Passes, Idle, NoPeak
<1>12. ASSUME NEW k \in Keys, NEW row \in Rows \cup {NoRow}, WriteRow(k, row)
       PROVE  ExitShapes'
  <2>1. row \in Row \cup {NoRow}
    BY ExitAssumption
  <2> QED BY <1>12, <2>1 DEF WriteRow, ExitShapes, ExitTypeOK, LoopInv, Loop, Passes,
        monitorVars, historyVars
<1>13. CASE UNCHANGED exitVars
  BY <1>13 DEF exitVars, ExitShapes, ExitTypeOK, LoopInv, monitorVars, historyVars
<1> QED BY <1>1, <1>2, <1>3, <1>4, <1>5, <1>6, <1>7, <1>8, <1>9, <1>10, <1>11, <1>12, <1>13
       DEF Next

----------------------------------------------------------------------------
(* The other steps leave the monitor's maps alone, or empty them.          *)
LEMMA CollectRecords ==
  ASSUME \A s, u \in Tickers : s = u, ExitInv, Collect
  PROVE  OnRecord' /\ OneExitPerCondition'
<1> DEFINE t == loop.tick
<1>1. t \in Ticks /\ ExitShapes
  BY DEF Collect, ExitInv, ExitShapes, LoopInv
<1>2. /\ t.symbol \in Tickers /\ t.at \in Nat
      /\ Watched(t) \subseteq Keys /\ Due(t) \subseteq Watched(t)
      /\ \A k \in Keys : Condition(k, t) \in Reasons \cup {"none"}
  BY <1>1, ExitsTyped
<1>3. pending \subseteq Exit /\ standing \subseteq Exit
  BY <1>1 DEF ExitShapes, ExitTypeOK
<1>4. standing' \subseteq standing
      /\ \A x \in standing' : x.key \in Watched(t) /\ x.reason = Condition(x.key, t)
  BY <1>2, <1>3 DEF Collect, Exit, Keys
<1>5. OneExitPerCondition'
  BY <1>4 DEF ExitInv, OneExitPerCondition
<1>6. loop'.exits \subseteq pending'
  BY <1>1 DEF Collect, PendingAfter, ExitShapes, LoopInv, Loop
<1>7. ASSUME NEW x \in standing'
      PROVE  \E p \in pending' : p.key = x.key /\ p.reason = x.reason /\ (p = x \/ Apart(x, p))
  <2>1. PICK p \in pending : p.key = x.key /\ p.reason = x.reason /\ (p = x \/ Apart(x, p))
    BY <1>4 DEF ExitInv, OnRecord
  <2>2. p \in Exit /\ x \in Exit
    BY <1>3, <1>4
  <2>3. x.key \in Watched(t) /\ x.reason = Condition(x.key, t) /\ Condition(x.key, t) # "none"
    BY <1>4, <2>2 DEF Exit, Reasons
  <2>4. CASE p.key \notin Due(t)
    <3>1. p \in pending'
      BY <2>1, <2>3, <2>4 DEF Collect, PendingAfter
    <3> QED BY <2>1, <3>1
  <2>5. CASE p.key \in Due(t)
    <3> DEFINE q == ExitFor(p.key, t)
    <3>1. q \in pending' /\ q.key = x.key /\ q.reason = x.reason /\ q.at = t.at
      BY <2>1, <2>3, <2>5 DEF Collect, PendingAfter, ExitFor
    <3>2. p.reason = "stop_loss" /\ RetryAfter > 0 /\ t.at - p.at >= RetryAfter
      <4>1. ~Blocks(p, p.key, t)
        BY <2>5 DEF Due
      <4> QED BY <2>1, <2>3, <4>1 DEF Blocks
    <3>3. x.at \in Nat /\ p.at \in Nat /\ x.at <= p.at /\ RetryAfter \in Nat
      BY <2>1, <2>2, ExitAssumption DEF Exit, Apart
    <3>4. Apart(x, q)
      <4> HIDE DEF q
      <4> QED BY <1>2, <2>1, <3>1, <3>2, <3>3 DEF Apart
    <3> HIDE DEF q
    <3> QED BY <3>1, <3>4
  <2> QED BY <2>4, <2>5
<1> QED BY <1>5, <1>6, <1>7 DEF OnRecord

LEMMA CollectPeaks ==
  ASSUME \A s, u \in Tickers : s = u, ExitInv, Collect
  PROVE  PeakIsHighest'
<1> DEFINE t == loop.tick
<1>1. t \in Ticks /\ ExitShapes
  BY DEF Collect, ExitInv, ExitShapes, LoopInv
<1>2. t.symbol \in Tickers /\ t.price \in Nat
  BY <1>1, ExitsTyped
<1> SUFFICES ASSUME NEW k \in Keys, NEW price \in seen'[k]
             PROVE  price <= peaks'[k]
  BY DEF PeakIsHighest
<1>3. k[1] = t.symbol
  BY <1>2 DEF Keys
<1>4. k \in Watched(t) /\ rows[k].trail # 0 /\ price \in seen[k] \cup {t.price}
  BY <1>3 DEF Collect
<1>5. peaks'[k] = PeakOf(k, t)
  BY <1>4 DEF Collect, PeaksAfter
<1>6. PeakOf(k, t) \in Nat /\ PeakOf(k, t) >= t.price /\ PeakOf(k, t) >= peaks[k]
  BY <1>1, <1>4, PeakOfNumbers
<1>7. price \in seen[k] => price <= peaks[k]
  BY DEF ExitInv, PeakIsHighest
<1>8. price \in Nat /\ peaks[k] \in Nat
  BY <1>1, <1>2, <1>4 DEF ExitShapes, ExitTypeOK, LoopInv
<1> QED BY <1>2, <1>4, <1>5, <1>6, <1>7, <1>8

LEMMA PublishedOnRecord ==
  ASSUME ExitInv, NEW x \in loop.exits,
         standing' = standing \cup {x}, pending' = pending, loop'.exits \subseteq loop.exits
  PROVE  OnRecord' /\ OneExitPerCondition'
<1>1. x \in pending /\ pending \subseteq Exit /\ standing \subseteq Exit
  BY DEF ExitInv, OnRecord, ExitShapes, ExitTypeOK
<1>2. OnRecord'
  BY <1>1 DEF ExitInv, OnRecord
<1>3. \A y \in standing : y.key = x.key /\ y.reason = x.reason => y = x \/ Apart(y, x)
  BY <1>1 DEF ExitInv, OnRecord, ExitShapes, ExitTypeOK
<1>4. OneExitPerCondition'
  <2> SUFFICES ASSUME NEW y \in standing', NEW z \in standing', y.key = z.key,
                      y.reason = z.reason, y.at < z.at
               PROVE  y.reason = "stop_loss" /\ RetryAfter > 0 /\ z.at - y.at >= RetryAfter
    BY DEF OneExitPerCondition
  <2>1. CASE y \in standing /\ z \in standing
    BY <2>1 DEF ExitInv, OneExitPerCondition
  <2>2. CASE z = x /\ y \in standing
    <3>1. y # x
      BY <1>1, <2>2 DEF Exit
    <3> QED BY <1>3, <2>2, <3>1 DEF Apart
  <2>3. CASE y = x
    <3>1. z \in standing /\ z # x
      BY <1>1, <2>3 DEF Exit
    <3>2. Apart(z, x) /\ z \in Exit /\ x \in Exit
      BY <1>1, <1>3, <2>3, <3>1
    <3> QED BY <2>3, <3>2 DEF Apart, Exit
  <2> QED BY <2>1, <2>2, <2>3
<1> QED BY <1>2, <1>4

LEMMA SameRecords ==
  ASSUME ExitInv, standing' = standing, pending' = pending, peaks' = peaks, seen' = seen,
         loop'.exits \subseteq loop.exits
  PROVE  OnRecord' /\ OneExitPerCondition' /\ PeakIsHighest'
BY DEF ExitInv, OnRecord, OneExitPerCondition, PeakIsHighest

LEMMA NextExits ==
  ASSUME \A s, u \in Tickers : s = u, ExitInv, [Next]_exitVars
  PROVE  ExitInv'
<1>1. ExitShapes'
  BY StepShapes DEF ExitInv
<1>2. loop \in Loop
  BY DEF ExitInv, ExitShapes, LoopInv
<1>3. CASE Collect
  BY <1>1, <1>3, CollectRecords, CollectPeaks DEF ExitInv
<1>4. ASSUME NEW x \in loop.exits, PublishExit(x)
      PROVE  ExitInv'
  <2>1. standing' = standing \cup {x} /\ pending' = pending /\ loop'.exits \subseteq loop.exits
    BY <1>2, <1>4 DEF PublishExit, monitorVars, Loop
  <2>2. PeakIsHighest'
    BY <1>4 DEF PublishExit, monitorVars, ExitInv, PeakIsHighest
  <2> QED BY <1>1, <2>1, <2>2, PublishedOnRecord DEF ExitInv
<1>5. CASE ProcessError
  <2>1. pending' = pending /\ peaks' = peaks /\ seen' = seen /\ loop'.exits = {}
    BY <1>2, <1>5 DEF ProcessError, NextTick, monitorVars, Loop
  <2>2. standing' = standing \/ \E x \in loop.exits : standing' = standing \cup {x}
    BY <1>5 DEF ProcessError
  <2>3. PeakIsHighest'
    BY <2>1 DEF ExitInv, PeakIsHighest
  <2> QED BY <1>1, <2>1, <2>2, <2>3, SameRecords, PublishedOnRecord DEF ExitInv
<1>6. CASE Crash
  BY <1>1, <1>6 DEF Crash, Idle, ExitInv, OnRecord, OneExitPerCondition, PeakIsHighest, NoPeak
<1>7. CASE \/ \E batch \in SUBSET Ticks : Pull(batch)
           \/ \E t \in Ticks : Drop(t) \/ Accept(t)
           \/ FeaturesPublished \/ TickProcessed \/ Acknowledge
           \/ \E k \in Keys : UpdatePrice(k)
           \/ \E k \in Keys, row \in Rows \cup {NoRow} : WriteRow(k, row)
           \/ UNCHANGED exitVars
  <2>1. standing' = standing /\ pending' = pending /\ peaks' = peaks /\ seen' = seen
    BY <1>7 DEF Pull, Drop, Accept, FeaturesPublished, TickProcessed, Acknowledge,
       UpdatePrice, WriteRow, exitVars, monitorVars, historyVars
  <2>2. loop'.exits \subseteq loop.exits
    <3>1. CASE \/ \E batch \in SUBSET Ticks : Pull(batch)
               \/ TickProcessed \/ Acknowledge
      <4>1. \A batch \in SUBSET Ticks : Pull(batch) => loop'.exits = {}
        BY DEF Pull, Idle
      <4>2. TickProcessed => loop'.exits = {}
        BY <1>2 DEF TickProcessed, NextTick, Loop
      <4>3. Acknowledge => loop'.exits = {}
        BY DEF Acknowledge, Idle
      <4> QED BY <3>1, <4>1, <4>2, <4>3
    <3>2. CASE \/ \E t \in Ticks : Drop(t) \/ Accept(t)
               \/ FeaturesPublished
               \/ \E k \in Keys : UpdatePrice(k)
      BY <1>2, <3>2 DEF Drop, Accept, FeaturesPublished, UpdatePrice, Loop
    <3>3. CASE \/ \E k \in Keys, row \in Rows \cup {NoRow} : WriteRow(k, row)
               \/ UNCHANGED exitVars
      BY <3>3 DEF WriteRow, exitVars
    <3> QED BY <1>7, <3>1, <3>2, <3>3
  <2> QED BY <1>1, <2>1, <2>2, SameRecords DEF ExitInv
<1> QED BY <1>3, <1>4, <1>5, <1>6, <1>7 DEF Next

(* The monitor's maps hold one time for each position and reason, whatever *)
(* symbols there are, and whatever fails.                                  *)
THEOREM ExitTypes == Spec => []ExitTypeOK
<1>1. Init => ExitShapes
  BY InitExits DEF ExitInv
<1>2. ExitShapes /\ [Next]_exitVars => ExitShapes'
  BY StepShapes
<1>3. ExitShapes => ExitTypeOK
  BY DEF ExitShapes
<1> QED BY <1>1, <1>2, <1>3, PTL DEF Spec

(* Where one symbol is followed, the pending entries are a record of the   *)
(* exits whose condition lasts, and the peaks of the prices that were      *)
(* seen.  With two symbols neither is so: a tick of the one erases what is *)
(* kept for the other (the run ExitTwoSymbols).                            *)
THEOREM ExitSafe ==
  ASSUME \A s, u \in Tickers : s = u
  PROVE  Spec => []ExitInv
<1>1. Init => ExitInv
  BY InitExits
<1>2. ExitInv /\ [Next]_exitVars => ExitInv'
  BY NextExits
<1> QED BY <1>1, <1>2, PTL DEF Spec

(* The promise of ExitOrderMonitor's class comment, for one symbol: an     *)
(* exit is published once while its condition lasts, a stop loss again     *)
(* only after the retry interval, whatever fails or is redelivered.        *)
THEOREM ExitOnce ==
  ASSUME \A s, u \in Tickers : s = u
  PROVE  Spec => []OneExitPerCondition
<1>1. Spec => []ExitInv
  BY ExitSafe
<1>2. ExitInv => OneExitPerCondition
  BY DEF ExitInv
<1> QED BY <1>1, <1>2, PTL

(* The trailing stop of a watched position is measured from its high, for  *)
(* any distances, rows and prices.                                         *)
THEOREM ExitPeaks ==
  ASSUME \A s, u \in Tickers : s = u
  PROVE  Spec => []PeakIsHighest
<1>1. Spec => []ExitInv
  BY ExitSafe
<1>2. ExitInv => PeakIsHighest
  BY DEF ExitInv
<1> QED BY <1>1, <1>2, PTL
==============================================================================
