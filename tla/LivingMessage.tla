--------------------------- MODULE LivingMessage ---------------------------
(***************************************************************************)
(* The living messages of the reference Slack bot: one message per chat    *)
(* session, posted when the session starts, rewritten while it works and   *)
(* finalised when it ends (living-message.ts), with a record on disk       *)
(* (living-message-persistence.ts); the message handler that posts it and  *)
(* the watch forwarder that rewrites it (slack.ts), on top of the registry *)
(* of sessions (session.ts).                                               *)
(*                                                                         *)
(* Calls of Slack and of the file system are answered later and in any     *)
(* order, and one that fails may have had its effect.  A LivingMessage is  *)
(* an object that timers and calls keep hold of after its key, the thread, *)
(* has been deleted or given to another session of the thread.             *)
(*                                                                         *)
(* Of a text only the state is kept; turns, cost and activity are not.     *)
(* Sessions are processMessage's, which the repository leaves to the       *)
(* deployment; their messages come in any order, a result at each turn's   *)
(* end and each error line, with others after it.  The bot runs with       *)
(* living messages enabled, in a DM or in a channel of dev mode.           *)
(***************************************************************************)
EXTENDS Naturals, Sequences, Bags

CONSTANTS
  Sessions, Threads,
  ThreadOf,     \* the thread a session was asked for in
  MaxMessages,  \* bound on the messages of a session
  MaxPosts,     \* bound on living messages posted
  MaxCalls      \* bound on calls under way

ASSUME LivingAssumption ==
  /\ ThreadOf \in [Sessions -> Threads]
  /\ {MaxMessages, MaxPosts, MaxCalls} \subseteq Nat

VARIABLES
  persistenceDir, \* whether the deployment sets one
  phase,          \* "new", "live", "result" (has sent one, and goes on), "ended"
                  \* (unregistered), "over"
  said,           \* how many messages a session has sent
  watched,        \* sessions with their thread among their watchers
  lms,            \* LivingMessage objects, numbered by their messageTs
  livingMessages, \* the object under a thread's key, 0 without one
  pendingUpdates, \* the keys with a patch that waits
  updateTimers,   \* the object a key's timer has hold of, 0 without a timer
  lastUpdated,    \* the keys updated in the last three seconds
  calls,          \* the bag of calls under way
  disk,           \* sessions with a record
  shown,          \* the state Slack shows in each object's message
  posts           \* session and state of the messages nothing rewrites

sessionVars == <<persistenceDir, phase, said, watched>>
memoryVars == <<lms, livingMessages, pendingUpdates, updateTimers, lastUpdated>>
livingVars == <<sessionVars, memoryVars, calls, disk, shown, posts>>

Outcome == {"complete", "failed"}
Registered == {s \in Sessions : phase[s] \in {"live", "result"}}

Call(op, s, ts, state) == [op |-> op, session |-> s, ts |-> ts, state |-> state]
InFlight == BagToSet(calls)
Issue(c) == BagCardinality(calls) < MaxCalls /\ calls' = calls (+) SetToBag({c})
Answered(c) == calls' = calls (-) SetToBag({c})
Continue(c, d) == calls' = (calls (-) SetToBag({c})) (+) SetToBag({d})

(* Faulty variant: the message under the key of the session's thread. *)
findByThread(s) == {k \in Threads : livingMessages[k] # 0 /\ k = ThreadOf[s]}

findLivingMessage(s) ==
  {k \in Threads : livingMessages[k] # 0 /\ lms[livingMessages[k]].session = s}

LivingInit ==
  /\ persistenceDir \in BOOLEAN
  /\ phase = [s \in Sessions |-> "new"] /\ said = [s \in Sessions |-> 0]
  /\ watched = {} /\ disk = {} /\ posts = {}
  /\ lms = <<>> /\ shown = <<>> /\ calls = EmptyBag
  /\ livingMessages = [k \in Threads |-> 0]
  /\ updateTimers = [k \in Threads |-> 0]
  /\ pendingUpdates = {} /\ lastUpdated = {}

-----------------------------------------------------------------------------
(* createLivingMessage: "create" is its post for the message handler, which *)
(* watches the session afterwards, "recreate" its post for the forwarder.   *)

StartSession(s) ==
  /\ phase[s] = "new"
  /\ phase' = [phase EXCEPT ![s] = "live"]
  /\ Issue(Call("create", s, 0, "working"))
  /\ UNCHANGED <<persistenceDir, said, watched, memoryVars, disk, shown, posts>>

addWatcher(s) == watched' = watched \cup ({s} \cap Registered)

Created(c) ==
  /\ c.op \in {"create", "recreate"} /\ Len(lms) < MaxPosts
  /\ lms' = Append(lms, [session |-> c.session, state |-> "working"])
  /\ shown' = Append(shown, "working")
  /\ livingMessages' = [livingMessages EXCEPT ![ThreadOf[c.session]] = Len(lms) + 1]
  /\ \/ /\ persistenceDir
        /\ Continue(c, [c EXCEPT !.op = IF @ = "create" THEN "persist" ELSE "repersist"])
        /\ UNCHANGED watched
     \/ /\ ~persistenceDir
        /\ Answered(c)
        /\ IF c.op = "create" THEN addWatcher(c.session) ELSE UNCHANGED watched
  /\ UNCHANGED <<persistenceDir, phase, said, pendingUpdates, updateTimers, lastUpdated,
                 disk, posts>>

CreateFails(c) ==
  /\ c.op \in {"create", "recreate"}
  /\ posts' \in {posts, posts \cup {<<c.session, "working">>}}
  /\ Answered(c)
  /\ UNCHANGED <<sessionVars, memoryVars, disk, shown>>

persistLivingMessage(c) ==
  /\ c.op \in {"persist", "repersist"}
  /\ disk' \in {disk, disk \cup {c.session}}
  /\ IF c.op = "persist" THEN addWatcher(c.session) ELSE UNCHANGED watched
  /\ Answered(c)
  /\ UNCHANGED <<persistenceDir, phase, said, memoryVars, shown, posts>>

-----------------------------------------------------------------------------
(* scheduleLivingMessageUpdate and flushUpdate *)

flushUpdate(k, ts) ==
  /\ pendingUpdates' = pendingUpdates \ {k}
  /\ Issue(Call("flush", lms[ts].session, ts, lms[ts].state))

scheduleLivingMessageUpdate(k) ==
  \/ k \notin lastUpdated /\ flushUpdate(k, livingMessages[k]) /\ UNCHANGED updateTimers
  \/ /\ k \in lastUpdated
     /\ pendingUpdates' = pendingUpdates \cup {k}
     /\ updateTimers' =
          [updateTimers EXCEPT ![k] = IF @ = 0 THEN livingMessages[k] ELSE @]
     /\ UNCHANGED calls

Sends(s) ==
  /\ s \in Registered /\ said[s] < MaxMessages
  /\ said' = [said EXCEPT ![s] = @ + 1]

\* bufferMessage and the forwarder, of any message but a result.
Says(s) ==
  /\ Sends(s)
  /\ \/ s \notin watched /\ UNCHANGED <<pendingUpdates, updateTimers, calls>>
     \/ s \in watched /\ \E k \in findLivingMessage(s) : scheduleLivingMessageUpdate(k)
     \/ /\ s \in watched /\ findLivingMessage(s) = {}
        /\ Issue(Call("recreate", s, 0, "working"))
        /\ UNCHANGED <<pendingUpdates, updateTimers>>
  /\ UNCHANGED <<persistenceDir, phase, watched, lms, livingMessages, lastUpdated,
                 disk, shown, posts>>

TimerFires(k) ==
  /\ updateTimers[k] # 0
  /\ updateTimers' = [updateTimers EXCEPT ![k] = 0]
  /\ \/ k \in pendingUpdates /\ flushUpdate(k, updateTimers[k])
     \/ k \notin pendingUpdates /\ UNCHANGED <<pendingUpdates, calls>>
  /\ UNCHANGED <<sessionVars, lms, livingMessages, lastUpdated, disk, shown, posts>>

IntervalPasses(k) ==
  /\ k \in lastUpdated
  /\ lastUpdated' = lastUpdated \ {k}
  /\ UNCHANGED <<sessionVars, lms, livingMessages, pendingUpdates, updateTimers,
                 calls, disk, shown, posts>>

Updated(c) ==
  /\ c.op = "flush"
  /\ shown' = [shown EXCEPT ![c.ts] = c.state]
  /\ lastUpdated' = lastUpdated \cup {ThreadOf[c.session]}
  /\ Answered(c)
  /\ UNCHANGED <<sessionVars, lms, livingMessages, pendingUpdates, updateTimers, disk, posts>>

UpdateFails(c) ==
  /\ c.op = "flush"
  /\ shown' \in {shown, [shown EXCEPT ![c.ts] = c.state]}
  /\ Continue(c, [c EXCEPT !.op = "fallback"])
  /\ UNCHANGED <<sessionVars, memoryVars, disk, posts>>

FallbackPosted(c) ==
  /\ c.op = "fallback"
  /\ posts' \in {posts, posts \cup {<<c.session, c.state>>}}
  /\ Answered(c)
  /\ UNCHANGED <<sessionVars, memoryVars, disk, shown>>

-----------------------------------------------------------------------------
(* finalizeLivingMessage, in memory or from the record on disk *)

finalizeLivingMessage(s, state) ==
  \/ \E k \in findLivingMessage(s) :
       /\ updateTimers' = [updateTimers EXCEPT ![k] = 0]
       /\ lms' = [lms EXCEPT ![livingMessages[k]].state = state]
       /\ Issue(Call("finalise", s, livingMessages[k], state))
  \/ /\ findLivingMessage(s) = {}
     /\ IF persistenceDir THEN Issue(Call("read", s, 0, state)) ELSE UNCHANGED calls
     /\ UNCHANGED <<lms, updateTimers>>

\* A result message: the forwarder finalises a session that is watched.
Result(s) ==
  /\ Sends(s)
  /\ phase' = [phase EXCEPT ![s] = "result"]
  /\ \/ s \notin watched /\ UNCHANGED <<lms, updateTimers, calls>>
     \/ s \in watched /\ \E state \in Outcome : finalizeLivingMessage(s, state)
  /\ UNCHANGED <<persistenceDir, watched, livingMessages, pendingUpdates, lastUpdated,
                 disk, shown, posts>>

unregisterSession(s) ==
  /\ s \in Registered
  /\ phase' = [phase EXCEPT ![s] = "ended"]
  /\ watched' = watched \ {s}
  /\ UNCHANGED <<persistenceDir, said, memoryVars, calls, disk, shown, posts>>

onComplete(s) ==
  /\ phase[s] = "ended"
  /\ phase' = [phase EXCEPT ![s] = "over"]
  /\ finalizeLivingMessage(s, "complete")
  /\ UNCHANGED <<persistenceDir, said, watched, livingMessages, pendingUpdates, lastUpdated,
                 disk, shown, posts>>

(* Faulty variant: the patch that waits is left behind. *)
FinalisedKeepingPatch(c) ==
  LET k == ThreadOf[c.session] IN
  /\ c.op = "finalise"
  /\ shown' \in {shown, [shown EXCEPT ![c.ts] = c.state]}
  /\ livingMessages' = [livingMessages EXCEPT ![k] = 0]
  /\ lastUpdated' = lastUpdated \ {k}
  /\ IF persistenceDir THEN Continue(c, [c EXCEPT !.op = "unpersist"]) ELSE Answered(c)
  /\ UNCHANGED <<sessionVars, lms, pendingUpdates, updateTimers, disk, posts>>

\* The deletions go by the key, whoever's it is by now.
Finalised(c) ==
  LET k == ThreadOf[c.session] IN
  /\ c.op = "finalise"
  /\ shown' \in {shown, [shown EXCEPT ![c.ts] = c.state]}
  /\ livingMessages' = [livingMessages EXCEPT ![k] = 0]
  /\ pendingUpdates' = pendingUpdates \ {k}
  /\ lastUpdated' = lastUpdated \ {k}
  /\ IF persistenceDir THEN Continue(c, [c EXCEPT !.op = "unpersist"]) ELSE Answered(c)
  /\ UNCHANGED <<sessionVars, lms, updateTimers, disk, posts>>

\* A record that cannot be read is as good as none.
readPersistedLivingMessages(c) ==
  /\ c.op = "read"
  /\ \/ c.session \in disk /\ Continue(c, [c EXCEPT !.op = "note"])
     \/ Answered(c)
  /\ UNCHANGED <<sessionVars, memoryVars, disk, shown, posts>>

FinalisedFromDisk(c) ==
  /\ c.op = "note"
  /\ posts' \in {posts, posts \cup {<<c.session, c.state>>}}
  /\ Continue(c, [c EXCEPT !.op = "unpersist"])
  /\ UNCHANGED <<sessionVars, memoryVars, disk, shown>>

unpersistLivingMessage(c) ==
  /\ c.op = "unpersist"
  /\ disk' \in {disk, disk \ {c.session}}
  /\ Answered(c)
  /\ UNCHANGED <<sessionVars, memoryVars, shown, posts>>

Answer(c) ==
  \/ Created(c) \/ CreateFails(c) \/ persistLivingMessage(c)
  \/ Updated(c) \/ UpdateFails(c) \/ FallbackPosted(c) \/ Finalised(c)
  \/ readPersistedLivingMessages(c) \/ FinalisedFromDisk(c) \/ unpersistLivingMessage(c)

LivingNext ==
  \/ \E s \in Sessions :
       StartSession(s) \/ Says(s) \/ Result(s) \/ unregisterSession(s) \/ onComplete(s)
  \/ \E k \in Threads : TimerFires(k) \/ IntervalPasses(k)
  \/ \E c \in InFlight : Answer(c)

LivingSpec == LivingInit /\ [][LivingNext]_livingVars

-----------------------------------------------------------------------------
(* Nothing in Slack says of a session that it is over before the session    *)
(* itself has sent a result or ended: not its message, which flushes of     *)
(* older objects under its thread's key may rewrite, and none of the        *)
(* messages posted when an update failed or a record was found on disk,     *)
(* whichever session of the thread was finalised meanwhile.                 *)
OnlyItsResultEndsIt ==
  LET Working(s) == phase[s] \in {"new", "live"} IN
  /\ \A i \in DOMAIN shown : Working(lms[i].session) => shown[i] = "working"
  /\ \A p \in posts : Working(p[1]) => p[2] = "working"

(* A patch never waits without a timer that will flush it, unless the       *)
(* message under its key is being finalised, which drops the patch: neither *)
(* a timer that has fired, nor the finalisation of another session of the   *)
(* thread, nor an update answered late strands it.                          *)
DeferredUpdateHasTimer ==
  \A k \in pendingUpdates :
    \/ updateTimers[k] # 0
    \/ \E c \in InFlight : c.op = "finalise" /\ ThreadOf[c.session] = k
=============================================================================
