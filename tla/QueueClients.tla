---------------------------- MODULE QueueClients ----------------------------
(***************************************************************************)
(* The ready queue under the most general clients: anyone enqueues any job *)
(* at any time, and whoever has once seen a member, by peeking at the head *)
(* or by looking a job up, may remove it at any later time, again and      *)
(* again.  Runners, cancellations and schedulers do nothing else.          *)
(*                                                                         *)
(* Redis itself may restart.  The server of docker-compose.yml saves its   *)
(* keys now and then and comes back with what it saved last, possibly      *)
(* nothing: entries that were removed are back, entries that were added    *)
(* are gone, and so are the numbers the counter gave out since.  Clients   *)
(* notice nothing and remove what they saw before.                         *)
(***************************************************************************)
EXTENDS ReadyQueue

CONSTANTS
    Priorities,    \* the priorities jobs are submitted with
    MaxSequence,   \* bound on the number of enqueues
    MaxRestarts    \* bound on the number of restarts

ASSUME ClientsAssumption ==
    /\ Priorities \subseteq Int
    /\ MaxSequence \in Nat /\ MaxRestarts \in Nat
    /\ NoEntry \notin Members

VARIABLES
    queue,      \* the three Redis keys
    saved,      \* the three keys as last written to disk
    seen,       \* every member a client has observed since the last restart
    late,       \* members clients observed before it
    base,       \* history: the counter right after the last restart
    rewound,    \* history: some restart set the counter back
    restarts    \* restarts so far

vars == <<queue, saved, seen, late, base, rewound, restarts>>

Init ==
    /\ queue = EmptyQueue /\ saved = EmptyQueue
    /\ seen = {} /\ late = {}
    /\ base = 0 /\ rewound = FALSE /\ restarts = 0

-----------------------------------------------------------------------------
(* Clients. *)

\* The member it returns to its caller is only logged.
Enqueue(j, p) ==
    /\ queue.sequence < MaxSequence
    /\ queue' = Enqueued(queue, j, entry_score(p))
    /\ UNCHANGED <<saved, seen, late, base, rewound, restarts>>

PeekHead ==
    \E e \in queue.ready :
        /\ IsHead(queue, e.member)
        /\ seen' = seen \union {e.member}
        /\ UNCHANGED <<queue, saved, late, base, rewound, restarts>>

\* The first half of remove_current.
LookUp(j) ==
    /\ CurrentMember(queue, j) # NoEntry
    /\ seen' = seen \union {CurrentMember(queue, j)}
    /\ UNCHANGED <<queue, saved, late, base, rewound, restarts>>

Remove(m) ==
    /\ queue' = Removed(queue, m)
    /\ UNCHANGED <<saved, seen, late, base, rewound, restarts>>

-----------------------------------------------------------------------------
(* The server. *)

Save ==
    /\ saved' = queue
    /\ UNCHANGED <<queue, seen, late, base, rewound, restarts>>

\* All three keys come back as of the same moment.
Restart ==
    /\ restarts < MaxRestarts
    /\ queue' = saved
    /\ seen' = {} /\ late' = late \union seen
    /\ base' = saved.sequence
    /\ rewound' = (rewound \/ saved.sequence < queue.sequence)
    /\ restarts' = restarts + 1
    /\ UNCHANGED saved

-----------------------------------------------------------------------------

Next ==
    \/ \E j \in Jobs, p \in Priorities : Enqueue(j, p)
    \/ PeekHead
    \/ \E j \in Jobs : LookUp(j)
    \/ \E m \in seen \union late : Remove(m)
    \/ Save
    \/ Restart

Spec == Init /\ [][Next]_vars

-----------------------------------------------------------------------------
(* Properties. *)

\* Scores stay within the band of the priorities whatever number a caller passes,
\* and members carry a sequence and a job of theirs.
TypeOK ==
    /\ queue \in Queues /\ saved \in Queues
    /\ seen \subseteq Members /\ late \subseteq Members
    /\ base \in Nat /\ rewound \in BOOLEAN /\ restarts \in Nat

\* The sorted set and the hash agree: a job is queued at most once, under the
\* member the hash names, and the hash names no member that is not queued.
\* A member left behind would be peeked for ever or block a cancellation's
\* clean-up, and no single script can see that the other half is missing.
SetMatchesHash ==
    /\ \A e \in queue.ready : queue.entries[e.member.job_id] = e.member
    /\ \A j \in Jobs : queue.entries[j] # NoEntry =>
           \E e \in queue.ready : e.member = queue.entries[j]

\* "A delayed cleanup of an old candidate cannot remove or invalidate a newer
\* entry for the same job": but for a restart, a job disappears from the queue
\* only through a removal of the very entry it has, by someone who saw that
\* entry.  Who saw it before a restart takes only an entry that is older than
\* the restart, too, unless some restart made the counter repeat its numbers.
LateRemovalHarmless ==
    [][\A j \in Jobs :
         /\ restarts' = restarts
         /\ queue.entries[j] # NoEntry
         /\ \A e \in queue'.ready : e.member.job_id # j
         => /\ queue'.entries[j] = NoEntry
            /\ \/ queue.entries[j] \in seen
               \/ /\ queue.entries[j] \in late
                  /\ queue.entries[j].sequence <= base \/ rewound]_vars

\* Order of service: an entry that is added goes behind everything waiting at its
\* priority or a higher one, also after removals, re-enqueues, an empty queue and
\* restarts, so waiting jobs are never overtaken by a later entry of their
\* priority.
NewcomersGoBehind ==
    [][restarts' = restarts =>
         \A e \in queue'.ready \ queue.ready, f \in queue'.ready \intersect queue.ready :
            f.score <= e.score => Before(f, e)]_vars
=============================================================================
