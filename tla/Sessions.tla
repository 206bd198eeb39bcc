------------------------------ MODULE Sessions ------------------------------
(***************************************************************************)
(* The session registry of a pty.Manager (pty/manager.go): Open starts a   *)
(* process and registers it, Session.run reaps it, drains its attachments  *)
(* and retains or removes the session, retention evicts the oldest, Remove *)
(* deletes, Kill signals, and Close ends everything.                       *)
(*                                                                         *)
(* A step is one critical section of Manager.mu or one blocking call       *)
(* outside it.  A session is its id; ids are never used again, so IDs      *)
(* bounds a behaviour as 2^64 does in the code.  The process behind a      *)
(* session is external: it may exit, and end its output, by itself or      *)
(* after Terminate, and does so after Kill; Terminate may block as long as *)
(* it lives.  An attachment appears here as an entry of                    *)
(* Session.attachments and a sink worker, which go in either order:        *)
(* recordAttachmentClose does not wait for the worker, nor the worker for  *)
(* it.                                                                     *)
(***************************************************************************)
EXTENDS Integers, FiniteSets, Slices

CONSTANTS
  IDs,                     \* session ids are below IDs
  MaxSessions,
  Retain,                  \* ExitPolicy is ExitedSessionRetain
  MaxRetainedSessions,
  Attachment,              \* attachments, reused once both entry and worker are gone
  MaxAttachmentsPerSession,
  Bounds                   \* what bounds a behaviour: the ids and the attachments there
                           \* are, and whether a client lists the sessions

Session == 1..(IDs - 1)

ASSUME SessionsAssumption ==
  /\ IDs \in Nat \ {0, 1}
  /\ MaxSessions \in Nat \ {0} /\ MaxAttachmentsPerSession \in Nat \ {0}
  /\ Retain \in BOOLEAN /\ MaxRetainedSessions \in Nat
  /\ Retain <=> MaxRetainedSessions > 0
  /\ \A bound \in Bounds : bound.ids \in 2..IDs /\ bound.attachments \subseteq Attachment

VARIABLES
  bound,           \* the member of Bounds for this behaviour
  listing,         \* what a client has: ids, and generation and position of its cursor
  nextSession, sessionIDExhausted,
  starting, activeSessions, generation,
  sessions,        \* the keys of the map Manager.sessions
  retainedExited,
  open,            \* open[s]: where the call of Open is that has reserved s
  process,         \* process[s]: "none", "alive", "killed" or "dead"
  state,           \* state[s]: Session.state, "none" before registration
  run,             \* run[s]: where Session.run is; "done" once Session.done is closed
  retained, removing,
  removal,         \* removal[s]: what removes s: "none", "Removed" or "Evicted"
  evictedBy,       \* evictedBy[s]: the session whose run evicts s, or 0
  at,              \* at[a]: the session attachment a belongs to, or 0
  attached,        \* the attachments that are entries of their Session.attachments
  workers,         \* the attachments whose sink worker runs
  awaited,         \* awaited[s]: workers that run or a removal of s waits for
  closing, closer, \* Manager.closing, and where Close is
  owned            \* the sessions Close found registered

registry == <<activeSessions, generation, sessions, retainedExited, retained, removing>>
ids == <<bound, listing, nextSession, sessionIDExhausted>>
removals == <<removal, evictedBy>>
attachments == <<at, attached, workers, awaited>>
close == <<closing, closer, owned>>
vars == <<ids, starting, registry, open, process, state, run, removals, attachments, close>>

Init ==
  /\ bound \in Bounds /\ listing = [generation |-> 0, position |-> 0, ids |-> <<>>]
  /\ nextSession = 0 /\ sessionIDExhausted = FALSE
  /\ starting = 0 /\ activeSessions = 0 /\ generation = 0
  /\ sessions = {} /\ retainedExited = <<>>
  /\ open = [s \in Session |-> "none"]
  /\ process = [s \in Session |-> "none"]
  /\ state = [s \in Session |-> "none"]
  /\ run = [s \in Session |-> "none"]
  /\ retained = [s \in Session |-> FALSE] /\ removing = [s \in Session |-> FALSE]
  /\ removal = [s \in Session |-> "none"] /\ evictedBy = [s \in Session |-> 0]
  /\ at = [a \in Attachment |-> 0] /\ attached = {} /\ workers = {}
  /\ awaited = [s \in Session |-> {}]
  /\ closing = FALSE /\ closer = "open" /\ owned = {}

Live(s) == process[s] \in {"alive", "killed"}

Kill(p) == IF p = "alive" THEN "killed" ELSE p
-----------------------------------------------------------------------------
(* Open *)

Reserve(used) ==
  /\ ~closing /\ used < MaxSessions /\ ~sessionIDExhausted
  /\ LET id == (nextSession + 1) % bound.ids
     IN /\ nextSession' = id
        /\ sessionIDExhausted' = (id = 0)
        /\ starting' = IF id = 0 THEN starting ELSE starting + 1
        /\ open' = [s \in Session |-> IF s = id THEN "starting" ELSE open[s]]
  /\ UNCHANGED <<bound, listing, registry, process, state, run, removals, attachments, close>>

\* Mutant: sessions that are starting are not counted.
OpenUncounted == Reserve(activeSessions)

\* The first critical section: an id and a place are reserved, unless the ids
\* have run out.
Open == Reserve(activeSessions + starting)

\* StartManaged fails, for instance because its context was canceled.
OpenFails(s) ==
  /\ open[s] = "starting"
  /\ starting' = starting - 1
  /\ open' = [open EXCEPT ![s] = "returned"]
  /\ UNCHANGED <<ids, registry, process, state, run, removals, attachments, close>>

OpenStarts(s) ==
  /\ open[s] = "starting"
  /\ process' = [process EXCEPT ![s] = "alive"]
  /\ open' = [open EXCEPT ![s] = "started"]
  /\ UNCHANGED <<ids, starting, registry, state, run, removals, attachments, close>>

\* The context of Open ended meanwhile: the place is given back first, then
\* the process is killed.
OpenCanceled(s) ==
  /\ open[s] = "started"
  /\ starting' = starting - 1
  /\ process' = [process EXCEPT ![s] = Kill(@)]
  /\ open' = [open EXCEPT ![s] = "reaping"]
  /\ UNCHANGED <<ids, registry, state, run, removals, attachments, close>>

RegisterUnless(refused, s) ==
  /\ open[s] = "started"
  /\ starting' = starting - 1
  /\ IF refused
     THEN /\ process' = [process EXCEPT ![s] = Kill(@)]
          /\ open' = [open EXCEPT ![s] = "reaping"]
          /\ UNCHANGED <<registry, state, run>>
     ELSE /\ open' = [open EXCEPT ![s] = "returned"]
          /\ sessions' = sessions \cup {s}
          /\ activeSessions' = activeSessions + 1 /\ generation' = generation + 1
          /\ state' = [state EXCEPT ![s] = "running"]
          /\ run' = [run EXCEPT ![s] = "pump"]
          /\ UNCHANGED <<retainedExited, retained, removing, process>>
  /\ UNCHANGED <<ids, removals, attachments, close>>

\* Mutant: the new session is registered although Close has begun.
RegisterClosing(s) == RegisterUnless(activeSessions >= MaxSessions, s)

\* The second critical section: the session is registered and its goroutine
\* started, or, too late or over the limit, the process is killed.
Register(s) == RegisterUnless(closing \/ activeSessions >= MaxSessions, s)

\* WaitStatus and Close of a process that is not kept.
OpenReaps(s) ==
  /\ open[s] = "reaping" /\ process[s] = "dead"
  /\ open' = [open EXCEPT ![s] = "returned"]
  /\ UNCHANGED <<ids, starting, registry, process, state, run, removals, attachments, close>>
-----------------------------------------------------------------------------
(* The process, Session.Kill, Attach and the attachment workers *)

ProcessExits(s) ==
  /\ Live(s)
  /\ process' = [process EXCEPT ![s] = "dead"]
  /\ UNCHANGED <<ids, starting, registry, open, state, run, removals, attachments, close>>

\* Whoever holds a session can kill it; a process that is dead or was killed
\* before is left alone (killOnce).
SessionKill(s) ==
  /\ state[s] \in {"running", "stopping"}
  /\ state' = [state EXCEPT ![s] = "stopping"]
  /\ process' = [process EXCEPT ![s] = Kill(@)]
  /\ UNCHANGED <<ids, starting, registry, open, run, removals, attachments, close>>

\* Reading the output fails: run kills the process, of a running session too.
OutputFails(s) ==
  /\ run[s] = "pump" /\ process[s] = "alive"
  /\ process' = [process EXCEPT ![s] = "killed"]
  /\ UNCHANGED <<ids, starting, registry, open, state, run, removals, attachments, close>>

Attachments(s) == {a \in attached : at[a] = s}

AttachIf(attachable, room, a, s) ==
  /\ a \in bound.attachments
  /\ at[a] = 0 /\ ~closing /\ attachable /\ room
  /\ at' = [at EXCEPT ![a] = s]
  /\ attached' = attached \cup {a}
  /\ workers' = workers \cup {a}
  /\ UNCHANGED <<ids, starting, registry, open, process, state, run, removals, awaited, close>>

Attachable(s) == state[s] = "running" \/ (state[s] = "exited" /\ retained[s])

\* Mutant: sessions on their way out are still attachable.
AttachExited(a, s) ==
  AttachIf(state[s] \in {"running", "exited"},
           Cardinality(Attachments(s)) < MaxAttachmentsPerSession, a, s)

Attach(a, s) ==
  AttachIf(Attachable(s), Cardinality(Attachments(s)) < MaxAttachmentsPerSession, a, s)

\* recordAttachmentClose, or publish that meets a full queue: the entry goes.
Detach(a) ==
  /\ a \in attached
  /\ attached' = attached \ {a}
  /\ at' = [at EXCEPT ![a] = IF a \in workers THEN @ ELSE 0]
  /\ UNCHANGED <<ids, starting, registry, open, process, state, run, removals, workers, awaited,
                 close>>

\* Attachment.run returns and closes Attachment.done.
WorkerStops(a) ==
  /\ a \in workers
  /\ workers' = workers \ {a}
  /\ awaited' = [s \in Session |-> awaited[s] \ {a}]
  /\ at' = [at EXCEPT ![a] = IF a \in attached THEN @ ELSE 0]
  /\ UNCHANGED <<ids, starting, registry, open, process, state, run, removals, attached, close>>

\* The attachments map of each of these sessions is cleared.
ClearAttachments(ss) ==
  /\ attached' = {a \in attached : at[a] \notin ss}
  /\ at' = [a \in Attachment |-> IF a \in attached \ workers /\ at[a] \in ss THEN 0 ELSE at[a]]
  /\ UNCHANGED workers
-----------------------------------------------------------------------------
(* Session.run, retention and removal *)

\* WaitStatus and the output pump have ended.
RunExited(s) ==
  /\ run[s] = "pump" /\ process[s] = "dead"
  /\ state' = [state EXCEPT ![s] = "exited"]
  /\ activeSessions' = IF activeSessions > 0 THEN activeSessions - 1 ELSE 0
  /\ run' = [run EXCEPT ![s] = "drain"]
  /\ awaited' = [awaited EXCEPT ![s] = Attachments(s) \cap workers]
  /\ UNCHANGED <<ids, starting, generation, sessions, retainedExited, retained, removing, open,
                 process, removals, at, attached, workers, close>>

Without(order, s) ==
  IF \E k \in 1..Len(order) : order[k] = s
  THEN RemoveIndex(order, CHOOSE k \in 1..Len(order) :
                            order[k] = s /\ \A j \in 1..(k - 1) : order[j] # s)
  ELSE order

\* The session joins the retained ones; the oldest of too many begins to go.
\* One is enough, since RegistryExact held before.
RetainExited(s) ==
  LET order == Append(retainedExited, s)
      full == Len(order) > MaxRetainedSessions
      victim == Head(order)
  IN /\ retained' = [retained EXCEPT ![s] = TRUE, ![victim] = ~full]
     /\ retainedExited' = IF full THEN Tail(order) ELSE order
     /\ removing' = [removing EXCEPT ![victim] = full]
     /\ removal' = [removal EXCEPT ![victim] = IF full THEN "Evicted" ELSE @]
     /\ evictedBy' = [evictedBy EXCEPT ![victim] = IF full THEN s ELSE @]
     /\ awaited' = [awaited EXCEPT ![victim] = IF full THEN Attachments(victim) \cap workers ELSE @]
     /\ ClearAttachments(IF full THEN {s, victim} ELSE {s})
     /\ generation' = generation + 1
     /\ UNCHANGED sessions

\* Mutant: removal leaves the generation alone.
UnregisterSilently(s) ==
  /\ sessions' = sessions \ {s}
  /\ retainedExited' = Without(retainedExited, s)
  /\ retained' = [retained EXCEPT ![s] = FALSE]
  /\ removing' = [removing EXCEPT ![s] = FALSE]
  /\ UNCHANGED generation

\* removeSessionLocked.
Unregister(s) ==
  /\ sessions' = sessions \ {s}
  /\ retainedExited' = Without(retainedExited, s)
  /\ retained' = [retained EXCEPT ![s] = FALSE]
  /\ removing' = [removing EXCEPT ![s] = FALSE]
  /\ generation' = generation + 1

\* The attachments present at exit have drained: the session is retained, or
\* removed at once.
RunDrained(s) ==
  /\ run[s] = "drain" /\ awaited[s] = {}
  /\ IF ~closing /\ Retain THEN RetainExited(s)
     ELSE Unregister(s) /\ ClearAttachments({s}) /\ UNCHANGED <<removals, awaited>>
  /\ run' = [run EXCEPT ![s] = "evict"]
  /\ UNCHANGED <<ids, starting, activeSessions, open, process, state, close>>

\* Session.done is closed after the evictions this session caused.
RunDone(s) ==
  /\ run[s] = "evict"
  /\ \A v \in Session : evictedBy[v] = s => removal[v] # "Evicted"
  /\ run' = [run EXCEPT ![s] = "done"]
  /\ UNCHANGED <<ids, starting, registry, open, process, state, removals, attachments, close>>

\* Manager.Remove begins to remove a retained session.
Remove(s) ==
  /\ ~closing /\ s \in sessions /\ state[s] = "exited"
  /\ retained[s] /\ ~removing[s]
  /\ retainedExited' = Without(retainedExited, s)
  /\ retained' = [retained EXCEPT ![s] = FALSE]
  /\ removing' = [removing EXCEPT ![s] = TRUE]
  /\ removal' = [removal EXCEPT ![s] = "Removed"]
  /\ awaited' = [awaited EXCEPT ![s] = Attachments(s) \cap workers]
  /\ ClearAttachments({s})
  /\ UNCHANGED <<ids, starting, activeSessions, generation, sessions, open, process, state, run,
                 evictedBy, close>>

\* finishRetainedRemoval: the attachments taken have stopped; nothing is left to do
\* if Close has cleared the registry.
FinishRemoval(s) ==
  /\ removal[s] \in {"Removed", "Evicted"} /\ awaited[s] = {}
  /\ removal' = [removal EXCEPT ![s] = "none"]
  /\ IF s \in sessions /\ removing[s] THEN Unregister(s)
     ELSE UNCHANGED <<sessions, retainedExited, retained, removing, generation>>
  /\ UNCHANGED <<ids, starting, activeSessions, open, process, state, run, evictedBy, attachments,
                 close>>
-----------------------------------------------------------------------------
(* Close *)

\* New work is refused, running sessions are stopping, and the context of the
\* Manager is canceled.
Close ==
  /\ closer = "open"
  /\ closing' = TRUE
  /\ state' = [s \in Session |-> IF s \in sessions /\ state[s] = "running" THEN "stopping"
                                ELSE state[s]]
  /\ owned' = sessions
  /\ closer' = "starts"
  /\ UNCHANGED <<ids, starting, registry, open, process, run, removals, attachments>>

\* starts.Wait: every Open has returned.
CloseStarts ==
  /\ closer = "starts"
  /\ \A s \in Session : open[s] \in {"none", "returned"}
  /\ closer' = "terminate"
  /\ UNCHANGED <<ids, starting, registry, open, process, state, run, removals, attachments, closing,
                 owned>>

\* runSessionOperation waits until Terminate has returned for every session
\* that was active: at once, or, where Terminate closes a pseudoconsole, perhaps
\* not while the process lives.
TerminatesReturn ==
  /\ closer = "terminate"
  /\ closer' = "timer"
  /\ UNCHANGED <<ids, starting, registry, open, process, state, run, removals, attachments, closing,
                 owned>>

\* Kill, of the sessions that remain.
KillAll(remaining) ==
  /\ closer = "timer"
  /\ process' = [s \in Session |-> IF s \in remaining THEN Kill(process[s]) ELSE process[s]]
  /\ closer' = "join"
  /\ UNCHANGED <<ids, starting, registry, open, state, run, removals, attachments, closing, owned>>

\* Mutant: sessions that ignore Terminate are not killed.
CloseTerminates == KillAll({})

\* The grace period ends, or all sessions are done before it does.
CloseKills == KillAll({s \in owned : run[s] # "done"})

\* Every session found and every worker has ended; the registry is cleared.
CloseJoins ==
  /\ closer = "join"
  /\ \A s \in owned : run[s] = "done"
  /\ workers = {}
  /\ sessions' = {} /\ retainedExited' = <<>>
  /\ retained' = [s \in Session |-> FALSE] /\ removing' = [s \in Session |-> FALSE]
  /\ activeSessions' = 0 /\ generation' = generation + 1
  /\ closer' = "closed"
  /\ UNCHANGED <<ids, starting, open, process, state, run, removals, attachments, closing, owned>>
-----------------------------------------------------------------------------
(* A client that lists the sessions page by page, with Protocol.handleList *)

\* ListSnapshot: the sessions in the order of their IDs.
All == CHOOSE q \in [1..Cardinality(sessions) -> sessions] :
         \A j, k \in DOMAIN q : j < k => q[j] < q[k]

\* A page ends where the limit or the size of a frame says; it is empty only at
\* the end, and the cursor of the next page has its generation and its end.
Page(position) ==
  \E end \in position..Len(All) :
    /\ end = position => position = Len(All)
    /\ listing' = [generation |-> generation, position |-> end,
                   ids |-> SubSeq(listing.ids, 1, position) \o SubSeq(All, position + 1, end)]
    /\ UNCHANGED <<bound, nextSession, sessionIDExhausted, starting, registry, open, process, state,
                   run, removals, attachments, close>>

List == bound.lists /\ Page(0)

\* A cursor is good for one generation; with another one the client starts again.
ListNext ==
  /\ listing.ids # <<>> /\ listing.position < Len(All)
  /\ listing.generation = generation
  /\ Page(listing.position)
-----------------------------------------------------------------------------
Opening(s) == OpenFails(s) \/ OpenStarts(s) \/ OpenCanceled(s) \/ Register(s) \/ OpenReaps(s)

Running(s) == RunExited(s) \/ RunDrained(s) \/ RunDone(s)

Closing == CloseStarts \/ CloseKills \/ CloseJoins

Next ==
  \/ Open \/ List \/ ListNext \/ Close \/ TerminatesReturn \/ Closing
  \/ \E s \in Session :
       \/ Opening(s) \/ Running(s) \/ FinishRemoval(s)
       \/ ProcessExits(s) \/ SessionKill(s) \/ OutputFails(s)
       \/ Remove(s)
       \/ \E a \in Attachment : Attach(a, s)
  \/ \E a \in Attachment : Detach(a) \/ WorkerStops(a)

Spec == Init /\ [][Next]_vars

\* Goroutines that can run do run.  A killed process dies, StartManaged returns
\* when its context is canceled, and so does OutputSink.Send ("It must honor
\* its context", README.md:92): run cancels attachments after the drain
\* timeout, a removal and Close cancel them at once.  Terminate need not
\* return.
Fairness ==
  /\ WF_vars(Closing)
  /\ \A s \in Session :
       /\ WF_vars(Running(s)) /\ WF_vars(FinishRemoval(s))
       /\ WF_vars(closing /\ Opening(s)) /\ WF_vars(OpenReaps(s))
       /\ WF_vars(process[s] = "killed" /\ ProcessExits(s))
  /\ \A a \in Attachment :
       WF_vars((closing \/ \E s \in Session : a \in awaited[s]) /\ WorkerStops(a))

FairSpec == Spec /\ Fairness

\* What Close needs of the processes: Terminate returns, though the process may
\* ignore it and live on.
Prompt == WF_vars(TerminatesReturn)
-----------------------------------------------------------------------------
(* Properties *)

\* The counters that admit new sessions count what they are meant to, however
\* opens, exits, removals and Close overlap, so the limit holds and a failed
\* start never costs a place for good.  retainedExited lists the retained
\* sessions, each once and within the limit; a retained session is registered,
\* has exited and is not being removed.
RegistryExact ==
  /\ starting = Cardinality({s \in Session : open[s] \in {"starting", "started"}})
  /\ activeSessions = Cardinality({s \in Session : state[s] \in {"running", "stopping"}})
  /\ activeSessions + starting <= MaxSessions
  /\ \A j, k \in 1..Len(retainedExited) : retainedExited[j] = retainedExited[k] => j = k
  /\ {retainedExited[k] : k \in 1..Len(retainedExited)} = {s \in Session : retained[s]}
  /\ Len(retainedExited) <= MaxRetainedSessions
  /\ \A s \in Session : retained[s] => s \in sessions /\ state[s] = "exited" /\ ~removing[s]

\* Every live process has someone who will reap it: the Open that started it,
\* or the run of a registered session.  Close "terminates then force-kills
\* remaining sessions, reaps and closes every process, closes all observers, and
\* joins all Manager workers" (manager.go:531): afterwards no process, attachment
\* or Open is left.  Close does not wait for the goroutine of a session that left
\* the registry before it began; all that one has still to do is to close
\* Session.done.
NoOrphans ==
  /\ \A s \in Session : Live(s) => open[s] \in {"started", "reaping"}
                                   \/ (run[s] = "pump" /\ s \in sessions)
  /\ closer = "closed" =>
       /\ sessions = {} /\ workers = {}
       /\ \A s \in Session : /\ ~Live(s) /\ open[s] \in {"none", "returned"}
                             /\ run[s] \in {"none", "evict", "done"}

\* The live entries of the attachments maps are those of registered sessions,
\* at most MaxAttachmentsPerSession of each: nobody attaches to a session that
\* is draining or leaving, so every entry whose worker runs when a drain begins
\* is waited for.  (Workers that have left the map are nobody's to wait for.)
AttachmentsExact ==
  /\ \A a \in attached \cap workers : at[a] \in sessions /\ ~removing[at[a]]
  /\ \A s \in Session : /\ Cardinality(Attachments(s)) <= MaxAttachmentsPerSession
                        /\ run[s] = "drain" => Attachments(s) \cap workers \subseteq awaited[s]

\* While the server accepts a client's cursor, what the client has is the first
\* part of the registry as it is: "sorted Session snapshots suitable for stable
\* protocol pagination" (manager.go:437), so no session is skipped or repeated
\* between two pages, whatever is opened, removed or evicted in between.
PagesExact ==
  listing.generation = generation =>
    listing.position <= Len(All) /\ listing.ids = SubSeq(All, 1, listing.position)

\* Close returns, whatever it interrupts, if every process.Terminate it calls
\* does: it waits for all of them before the grace period and Kill.  A Terminate
\* that blocks until its process exits, of a process that does not, keeps Close
\* from ever killing it.
CloseReturns == Prompt => (closing ~> closer = "closed")
=============================================================================
