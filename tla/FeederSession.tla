--------------------------- MODULE FeederSession ----------------------------
(***************************************************************************)
(* The feeder: a cycle fetches a token, clears the broker's registrations, *)
(* registers the watchlist and opens the websocket; then one task receives *)
(* what the broker pushes and sends it on, and another polls the watchlist *)
(* and applies its changes, until either of them ends.  Some errors lead   *)
(* to the next cycle, others end the process, which its container starts   *)
(* again.  An action is the code between two awaits; the broker and the    *)
(* watchlist are modelled from how the feeder uses them.                   *)
(*                                                                         *)
(* The broker accepts one token at a time, and other services fetch it     *)
(* too.  A call that fails took effect or not; one that takes effect after *)
(* its failure is left out, and so is the length of the backoff.           *)
(***************************************************************************)
EXTENDS Integers, FiniteSets

CONSTANTS
  Instruments,
  Pushes,          \* the records the broker pushes
  MaxSends,        \* max_pending_sends
  Relistings,      \* bound on the changes of the watchlist
  Disturbances     \* bound on errors, closed sockets, lost tokens and crashes

ASSUME FeederAssumption ==
  MaxSends \in Nat \ {0} /\ Relistings \in Nat /\ Disturbances \in Nat

VARIABLES
  kabu,         \* instruments registered at the broker
  listed,       \* the watchlist table
  cached,       \* the token in the shared cache file: none, good or stale
  token,        \* the token the process holds, likewise
  registered,   \* FeederSession._registered
  feed,         \* the generator of watchlist_feed: open or closed
  step,         \* where the cycle and its watchlist task stand, and the
                \* registrations they have to remove and to add
  ws,           \* where the websocket task stands
  unpushed,     \* records not pushed yet
  pushed,       \* records received in this cycle
  sends,        \* pending_sends: on their way, and failed
  orphans,      \* records on their way whose task was cancelled
  sent,         \* records published on raw-market-data
  relistings, disturbances,   \* what is left of the two bounds
  uncleared     \* history: registrations the cycle found and did not clear

feederTask == <<registered, feed, step, ws, pushed, sends, orphans>>
feederEnv == <<kabu, listed, unpushed, sent, relistings, disturbances, uncleared>>
feederVars == <<feederTask, cached, token, feederEnv>>

Place(pc) == [pc |-> pc, remove |-> {}, add |-> {}]
NoSends == [open |-> {}, failed |-> {}]
CycleAt(pc) == step.cycle.pc = pc
Disturbed == disturbances > 0 /\ disturbances' = disturbances - 1

----------------------------------------------------------------------------
(* run: what the end of a cycle leads to.                                  *)

Begins(pc) == step' = [cycle |-> Place(pc), watchlist |-> Place("off")] /\ ws' = "off"

(* A lost token is erased from the file as well.                           *)
Reconnect_KeepsToken(error) ==
  /\ Begins(IF error = "closed" THEN "token" ELSE "backoff")
  /\ UNCHANGED <<token, cached, registered>>

Reconnect(error) ==
  /\ Begins(IF error = "closed" THEN "token" ELSE "backoff")
  /\ IF error = "auth"
     THEN token' = "none" /\ cached' = "none" /\ registered' = {}
     ELSE UNCHANGED <<token, cached, registered>>

(* The process ends, and what is on its way may be lost.                   *)
Quit ==
  /\ Begins("exited")
  /\ \E landed \in SUBSET (sends.open \cup orphans) : sent' = sent \cup landed
  /\ token' = "none" /\ registered' = {} /\ feed' = "open"
  /\ pushed' = {} /\ sends' = NoSends /\ orphans' = {}
  /\ UNCHANGED cached

Caught == {"closed", "auth", "api", "os"}

(* An error outside the tasks.                                             *)
Fails(error) ==
  IF error \in Caught
  THEN Reconnect(error) /\ UNCHANGED <<feed, pushed, sends, orphans, sent>>
  ELSE Quit

----------------------------------------------------------------------------
(* _run_one_cycle up to the websocket.                                     *)

Goes(pc) == step' = [step EXCEPT !.cycle = Place(pc)]

EnsureToken ==
  /\ CycleAt("token")
  /\ IF token = "none" /\ cached = "none"
     THEN token' = "good" /\ cached' = "good"
     ELSE token' = (IF token = "none" THEN cached ELSE token) /\ UNCHANGED cached
  /\ Goes("clear")
  /\ UNCHANGED <<registered, feed, ws, pushed, sends, orphans, feederEnv>>

(* unregister_all: a refusal of the API is passed over.                    *)
ClearAll_KeepsRegistered ==
  /\ CycleAt("clear")
  /\ kabu' = (IF token = "good" THEN {} ELSE kabu)
  /\ uncleared' = kabu'
  /\ Goes("first")
  /\ UNCHANGED <<registered, feed, ws, pushed, sends, orphans, cached, token,
                 listed, unpushed, sent, relistings, disturbances>>

ClearAll ==
  /\ CycleAt("clear")
  /\ \/ kabu' = (IF token = "good" THEN {} ELSE kabu) /\ UNCHANGED disturbances
     \/ Disturbed /\ kabu' \in {kabu, {}}
  /\ uncleared' = kabu'
  /\ registered' = {}
  /\ Goes("first")
  /\ UNCHANGED <<feed, ws, pushed, sends, orphans, cached, token, listed,
                 unpushed, sent, relistings>>

(* compute_diff, and where _apply_diff begins.                             *)
Difference(otherwise) ==
  LET remove == registered \ listed
      add    == listed \ registered
  IN  [ pc |-> IF remove # {} THEN "unregister"
               ELSE IF add # {} THEN "register" ELSE otherwise,
        remove |-> remove, add |-> add ]

(* A closed generator ends the session, and the process with it.           *)
FirstRows ==
  /\ CycleAt("first")
  /\ IF feed = "closed" THEN Quit
     ELSE /\ step' = [step EXCEPT !.cycle = Difference("connect")]
          /\ UNCHANGED <<registered, feed, ws, pushed, sends, orphans, cached, token, sent>>
  /\ UNCHANGED <<kabu, listed, unpushed, relistings, disturbances, uncleared>>

(* No handler is for a refused handshake.                                  *)
Connect ==
  /\ CycleAt("connect")
  /\ IF token = "stale" THEN Quit
     ELSE /\ step' = [cycle |-> Place("stream"), watchlist |-> Place("poll")]
          /\ ws' = "receive" /\ pushed' = {} /\ sends' = NoSends
          /\ UNCHANGED <<registered, feed, orphans, cached, token, sent>>
  /\ UNCHANGED <<kabu, listed, unpushed, relistings, disturbances, uncleared>>

(* The API, the connection or the watchlist's database fails.              *)
StartFails ==
  /\ Disturbed
  /\ \/ /\ CycleAt("token") /\ token = "none" /\ cached = "none"
        /\ \E error \in {"api", "auth", "http"} : Fails(error)
     \/ CycleAt("clear") /\ Fails("http")
     \/ CycleAt("first") /\ Fails("database")
     \/ CycleAt("connect") /\ \E error \in {"os", "handshake"} : Fails(error)
  /\ UNCHANGED <<kabu, listed, unpushed, relistings, uncleared>>

EndsBackoff ==
  /\ CycleAt("backoff") /\ Goes("token")
  /\ UNCHANGED <<registered, feed, ws, pushed, sends, orphans, cached, token, feederEnv>>

Starts ==
  /\ CycleAt("exited") /\ Goes("token")
  /\ UNCHANGED <<registered, feed, ws, pushed, sends, orphans, cached, token, feederEnv>>

----------------------------------------------------------------------------
(* _apply_diff, by the cycle and by its watchlist task.                    *)

Appliers == {"cycle", "watchlist"}
Calling(a) == step[a].pc \in {"unregister", "register"}
Effect(a) == IF step[a].pc = "unregister" THEN kabu \ step[a].remove
             ELSE kabu \cup step[a].add

Unregister(a) ==
  /\ step[a].pc = "unregister" /\ token = "good"
  /\ kabu' = Effect(a) /\ registered' = registered \ step[a].remove
  /\ step' = [step EXCEPT ![a].pc = IF step[a].add # {} THEN "register"
                                    ELSE IF a = "cycle" THEN "connect" ELSE "poll"]
  /\ UNCHANGED <<feed, ws, pushed, sends, orphans, cached, token, listed,
                 unpushed, sent, relistings, disturbances, uncleared>>

Register(a) ==
  /\ step[a].pc = "register" /\ token = "good"
  /\ kabu' = Effect(a) /\ registered' = registered \cup step[a].add
  /\ step' = [step EXCEPT ![a].pc = IF a = "cycle" THEN "connect" ELSE "poll"]
  /\ UNCHANGED <<feed, ws, pushed, sends, orphans, cached, token, listed,
                 unpushed, sent, relistings, disturbances, uncleared>>

(* The watchlist task ends with its error, which _run_one_cycle finds.     *)
CallFails(a) ==
  /\ Calling(a)
  /\ \E error \in {"auth", "api", "http"} :
       /\ IF error = "auth"
          THEN token = "stale" /\ UNCHANGED <<kabu, disturbances>>
          ELSE Disturbed /\ kabu' \in {kabu, Effect(a)}
       /\ IF a = "cycle" THEN Fails(error)
          ELSE /\ step' = [step EXCEPT !.watchlist = Place(error)]
               /\ UNCHANGED <<registered, feed, ws, pushed, sends, orphans, cached,
                              token, sent>>
  /\ UNCHANGED <<listed, unpushed, relistings, uncleared>>

(* PollingWatchlistFeed: a failed read ends the generator.                 *)
PollWatchlist ==
  /\ step.watchlist.pc = "poll"
  /\ step' = [step EXCEPT !.watchlist = Difference("poll")]
  /\ UNCHANGED <<registered, feed, ws, pushed, sends, orphans, cached, token, feederEnv>>

WatchlistFails ==
  /\ step.watchlist.pc = "poll" /\ Disturbed
  /\ step' = [step EXCEPT !.watchlist = Place("database")] /\ feed' = "closed"
  /\ UNCHANGED <<registered, ws, pushed, sends, orphans, cached, token, kabu, listed,
                 unpushed, sent, relistings, uncleared>>

----------------------------------------------------------------------------
(* _consume_ws and its sends.                                              *)

streamVars == <<registered, cached, token, kabu, listed, relistings, uncleared>>

Receive(r) ==
  /\ ws = "receive" /\ r \in unpushed /\ kabu # {}
  /\ Cardinality(sends.open \cup sends.failed) < MaxSends
  /\ unpushed' = unpushed \ {r} /\ pushed' = pushed \cup {r}
  /\ sends' = [sends EXCEPT !.open = @ \cup {r}]
  /\ UNCHANGED <<streamVars, feed, step, ws, orphans, sent, disturbances>>

SendDone(r) ==
  /\ r \in sends.open \cup orphans
  /\ sent' = sent \cup {r}
  /\ sends' = [sends EXCEPT !.open = @ \ {r}] /\ orphans' = orphans \ {r}
  /\ UNCHANGED <<streamVars, feed, step, ws, pushed, unpushed, disturbances>>

(* The attempts of the publisher are used up; the topic may have it.       *)
SendFails(r) ==
  /\ r \in sends.open \cup orphans /\ Disturbed
  /\ sent' \in {sent, sent \cup {r}}
  /\ sends' = [open |-> sends.open \ {r}, failed |-> sends.failed \cup (sends.open \cap {r})]
  /\ orphans' = orphans \ {r}
  /\ UNCHANGED <<streamVars, feed, step, ws, pushed, unpushed>>

(* _cancel_pending_sends.                                                  *)
CancelSends ==
  /\ \E landed \in SUBSET sends.open : sent' = sent \cup landed
  /\ sends' = NoSends /\ ws' = "os"

NoticeFailure ==
  /\ ws \in {"receive", "finish"} /\ sends.failed # {}
  /\ CancelSends
  /\ UNCHANGED <<streamVars, feed, step, pushed, orphans, unpushed, disturbances>>

(* The broker closes the websocket, in order or not.                       *)
SocketCloses ==
  /\ ws = "receive" /\ Disturbed /\ ws' = "finish"
  /\ UNCHANGED <<streamVars, feed, step, pushed, sends, orphans, sent, unpushed>>

SocketBreaks ==
  /\ ws = "receive" /\ Disturbed /\ CancelSends
  /\ UNCHANGED <<streamVars, feed, step, pushed, orphans, unpushed>>

FinishSends_IgnoresFailed ==
  /\ ws = "finish" /\ sends.open = {} /\ ws' = "closed" /\ sends' = NoSends
  /\ UNCHANGED <<streamVars, feed, step, pushed, orphans, sent, unpushed, disturbances>>

FinishSends ==
  /\ ws = "finish" /\ sends = NoSends /\ ws' = "closed"
  /\ UNCHANGED <<streamVars, feed, step, pushed, sends, orphans, sent, unpushed,
                 disturbances>>

----------------------------------------------------------------------------
(* _run_one_cycle when a task is done.  The watchlist task is cancelled in *)
(* the generator, which that closes, or in a call; its own error, if it    *)
(* has one, is not looked at.  The websocket task leaves its sends behind. *)
StreamDone ==
  /\ CycleAt("stream") /\ ws \in {"closed", "os"}
  /\ feed' = (IF step.watchlist.pc = "poll" THEN "closed" ELSE feed)
  /\ kabu' \in (IF Calling("watchlist") THEN {kabu, Effect("watchlist")} ELSE {kabu})
  /\ Reconnect(ws)
  /\ UNCHANGED <<pushed, sends, orphans, listed, unpushed, sent, relistings,
                 disturbances, uncleared>>

WatchlistDone ==
  /\ CycleAt("stream") /\ ws \in {"receive", "finish"}
  /\ LET error == step.watchlist.pc
     IN  \/ /\ error \in Caught /\ Reconnect(error)
            /\ orphans' = orphans \cup sends.open /\ sends' = NoSends
            /\ UNCHANGED <<feed, pushed, sent>>
         \/ error \in {"http", "database"} /\ Quit
  /\ UNCHANGED <<kabu, listed, unpushed, relistings, disturbances, uncleared>>

----------------------------------------------------------------------------
(* The universe scanner, the clock and the operator change the watchlist.  *)
Relist(S) ==
  /\ relistings > 0 /\ relistings' = relistings - 1
  /\ listed' = S
  /\ UNCHANGED <<feederTask, cached, token, kabu, unpushed, sent, disturbances, uncleared>>

(* The token expires, or another service fetches one: the file holds the   *)
(* old one, the new one, or neither.                                       *)
TokenLost ==
  /\ Disturbed
  /\ token' = (IF token = "none" THEN "none" ELSE "stale")
  /\ cached' \in {"none", "good"} \cup {IF cached = "none" THEN "none" ELSE "stale"}
  /\ UNCHANGED <<feederTask, kabu, listed, unpushed, sent, relistings, uncleared>>

FeederCrash ==
  /\ ~CycleAt("exited") /\ Disturbed /\ Quit
  /\ UNCHANGED <<kabu, listed, unpushed, relistings, uncleared>>

FeederInit ==
  /\ kabu \in SUBSET Instruments /\ listed = {}
  /\ cached \in {"none", "stale"} /\ token = "none"
  /\ registered = {} /\ feed = "open"
  /\ step = [cycle |-> Place("token"), watchlist |-> Place("off")] /\ ws = "off"
  /\ unpushed = Pushes /\ pushed = {} /\ sends = NoSends /\ orphans = {} /\ sent = {}
  /\ relistings = Relistings /\ disturbances = Disturbances /\ uncleared = {}

Cycle ==
  \/ EnsureToken \/ ClearAll \/ FirstRows \/ Connect \/ EndsBackoff \/ Starts
  \/ StreamDone \/ WatchlistDone
  \/ \E a \in Appliers : Unregister(a) \/ Register(a)
  \/ PollWatchlist \/ NoticeFailure \/ FinishSends
  \/ \E r \in Pushes : SendDone(r)

FeederNext ==
  \/ Cycle \/ \E r \in Pushes : Receive(r) \/ SendFails(r)
  \/ StartFails \/ (\E a \in Appliers : CallFails(a)) \/ WatchlistFails
  \/ SocketCloses \/ SocketBreaks
  \/ (\E S \in SUBSET Instruments : Relist(S)) \/ TokenLost \/ FeederCrash

(* The event loop goes on, the API answers what is not disturbed, refuses  *)
(* a stale token, and the container restarts.                              *)
FeederFairness ==
  /\ WF_feederVars(Cycle)
  /\ \A a \in Appliers : WF_feederVars(token = "stale" /\ CallFails(a))

FeederSpec == FeederInit /\ [][FeederNext]_feederVars /\ FeederFairness

----------------------------------------------------------------------------
(* While both tasks run, the broker has what the feeder believes to be     *)
(* registered, and beyond that only what the cycle could not clear:        *)
(* whatever a call that failed or was cancelled in an earlier cycle did.   *)
BrokerFollows ==
  CycleAt("stream") /\ step.watchlist.pc \in {"poll", "unregister", "register"} =>
    registered \subseteq kabu /\ kabu \subseteq registered \cup uncleared

(* A websocket that was closed in order ends its cycle as one that lost    *)
(* nothing: all it received was published.                                 *)
CleanCloseKeepsRecords == ws = "closed" => pushed \subseteq sent

(* Once disturbances and changes of the watchlist are over, a watchlist    *)
(* that is not empty is registered and stays so: reconnections, expired    *)
(* tokens and sessions that end do not leave the feeder without it.  With  *)
(* an empty one a stale token in the file is never found out, for only     *)
(* registering does that, and the websocket is refused at every restart.   *)
WatchlistServed ==
  <>[](listed # {}) =>
    <>[](CycleAt("stream") /\ registered = listed /\ listed \subseteq kabu)
=============================================================================
