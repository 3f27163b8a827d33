------------------------ MODULE ConcurrentLifecycle ------------------------
(***************************************************************************)
(* The same memory store under overlapping requests.  FastAPI runs the     *)
(* synchronous handlers in a thread pool, each with a session of its own   *)
(* (database.py).  A handler first SELECTs the memory with its loaded      *)
(* collections: outside any transaction, so without a lock.  Its first     *)
(* INSERT or UPDATE takes SQLite's write lock and keeps it to the commit.  *)
(* A request is therefore two steps, Load and Commit, and what it decided  *)
(* from the row it loaded may be stale when it is written.                 *)
(*                                                                         *)
(* The statements of a load are one step, and the trace a feedback is      *)
(* about is given with the request.                                        *)
(***************************************************************************)
EXTENDS MemoryRow

CONSTANTS
    Worker,         \* threads of the pool
    Requests,       \* the requests clients may send
    MaxVersions     \* bound: versions, hence writes, per memory

Target == [memory : MemoryId, start : Start, source : Form, asr : BOOLEAN,
           context : Context]

Request ==
    [op : {"teach"}, form : Form, scope : Scope, variants : SUBSET Form,
     event : ClientEvent \cup {NoEvent}, context : Context \cup {NoContext}]
    \cup [op : {"correct"}, form : Form, source : Form,
          event : ClientEvent \cup {NoEvent}, context : Context, confirm : BOOLEAN]
    \cup [op : {"feedback"}, decision : DecisionId, target : Target,
          accepted : BOOLEAN, scope : FeedbackScope, suppress : BOOLEAN]
    \cup [op : {"patch"}, memory : MemoryId, change : Change]
    \cup [op : {"merge"}, memory : MemoryId, source : MemoryId]

ASSUME ConcurrentAssumption == Requests \subseteq Request /\ NoForm \notin Form

VARIABLES
    memories,   \* the committed rows, by id
    handlers    \* by worker, the requests being handled (at most one): the
                \* request, its memory and the rows it loaded

vars == <<memories, handlers>>

Handler == [request : Requests, memory : MemoryId, row : Row, other : Row]

Live(m) == memories[m].status = "live"

Taken(form) == \E m \in MemoryId : Live(m) /\ memories[m].canonical = form

(* The memory a request is about: the one it names, the one its canonical  *)
(* form finds, or a new one whose id nobody else has drawn.                *)
About(r, m) ==
    CASE r.op \in {"teach", "correct"} ->
            \/ Live(m) /\ memories[m].canonical = r.form
            \/ /\ memories[m].status = "unused" /\ ~Taken(r.form)
               /\ \A w \in Worker : \A h \in handlers[w] : h.memory # m
      [] r.op = "feedback" -> Live(m) /\ r.target.memory = m
      [] r.op = "patch" -> Live(m) /\ r.memory = m
      [] r.op = "merge" -> Live(m) /\ r.memory = m /\ r.source # m /\ Live(r.source)

(* What the handler makes of the rows it loaded.                           *)
Computed(h) ==
    LET r == h.request IN
    CASE r.op = "teach" ->
            Teach(h.row, r.form, r.scope, r.variants, r.event, r.context)
      [] r.op = "correct" ->
            Correct(h.row, r.form, r.source, r.event, r.context, r.confirm)
      [] r.op = "feedback" ->
            IF Observed(h.row, FeedbackId(r.decision, h.memory, r.target.start))
            THEN h.row
            ELSE Feedback(h.row, r.decision, r.target, r.accepted, r.scope,
                          r.suppress, r.target.context)
      [] r.op = "patch" -> Patch(h.row, r.change)
      [] r.op = "merge" -> Merge(h.row, h.other, r.source)

(* The observations a handler inserts, stored from position n + 1 on.      *)
Inserted(h, n) ==
    LET k == Len(h.row.observations)
        obs == Computed(h).observations
    IN [i \in 1 .. Len(obs) - k |->
          IF obs[k + i].event = ServerId(k + i)
          THEN [obs[k + i] EXCEPT !.event = ServerId(n + i)]
          ELSE obs[k + i]]

(* Mistake: positions are those the handler expected from its load.        *)
NewOutcomes_AsLoaded(h, n) == Computed(h).outcomes \ h.row.outcomes

(* The outcomes a handler inserts.  A merge asks for each outcome of the   *)
(* source it loaded whether the memory has one by now: it holds the lock   *)
(* since it flushed the first copy.                                        *)
NewOutcomes(h, n) ==
    IF h.request.op = "merge" THEN MovedOutcomes(memories[h.memory], h.other, n)
    ELSE {[o EXCEPT !.observation = n + @ - Len(h.row.observations)] :
             o \in Computed(h).outcomes \ h.row.outcomes}

(* An attribute is written only when it differs from the loaded one.       *)
Written(loaded, computed, stored) == IF computed = loaded THEN stored ELSE computed

(* uq_memory_user_canonical, and without it on updates (a mistake).        *)
UniqueCanonical_OnCreation(h) ==
    h.row.status = "unused" =>
        \A m \in MemoryId : Live(m) => memories[m].canonical # Computed(h).canonical

UniqueCanonical(h) ==
    Computed(h).canonical # h.row.canonical =>
        \A m \in MemoryId \ {h.memory} :
            Live(m) => memories[m].canonical # Computed(h).canonical

(* uq_observation_user_event_memory, and only the handler's own lookup in  *)
(* its place (a mistake).                                                  *)
UniqueEvents_AsLoaded(h, n) ==
    \A i \in DOMAIN Inserted(h, n) :
        Inserted(h, n)[i].event # NoEvent => ~Observed(h.row, Inserted(h, n)[i].event)

UniqueEvents(h, n) ==
    \A i \in DOMAIN Inserted(h, n) :
        Inserted(h, n)[i].event # NoEvent
            => ~Observed(memories[h.memory], Inserted(h, n)[i].event)

(* The constraints of models.py that the writes of h meet in the database; *)
(* a row that was deleted takes no more children.                          *)
Accepted(h) ==
    LET now == memories[h.memory]
        new == Computed(h)
        n == Len(now.observations)
    IN  /\ now.status = h.row.status
        /\ UniqueCanonical(h)
        /\ UniqueEvents(h, n)
        /\ (new.variants \ h.row.variants) \cap now.variants = {}
        /\ \A o \in NewOutcomes(h, n) : ~OutcomeExists(now, o.decision, o.source)

Stored(h) ==
    LET now == memories[h.memory]
        new == Computed(h)
        n == Len(now.observations)
    IN  [now EXCEPT
            !.status = "live",
            !.canonical = Written(h.row.canonical, new.canonical, @),
            !.state = Written(h.row.state, new.state, @),
            !.scope = Written(h.row.scope, new.scope, @),
            !.variants = @ \cup (new.variants \ h.row.variants),
            !.observations = @ \o Inserted(h, n),
            !.versions = Append(@, new.versions[Len(new.versions)]),
            !.outcomes = @ \cup NewOutcomes(h, n)]

-----------------------------------------------------------------------------
Init ==
    /\ memories = [m \in MemoryId |-> UnusedRow]
    /\ handlers = [w \in Worker |-> {}]

Load(w, r, m) ==
    /\ handlers[w] = {}
    /\ About(r, m)
    /\ Len(memories[m].versions) < MaxVersions
    /\ handlers' = [handlers EXCEPT ![w] =
          {[request |-> r, memory |-> m, row |-> memories[m],
            other |-> IF r.op = "merge" THEN memories[r.source] ELSE UnusedRow]}]
    /\ UNCHANGED memories

Commit(w) ==
    \E h \in handlers[w] :
        /\ Computed(h) # h.row
        /\ Accepted(h)
        /\ memories' = [m \in MemoryId |->
              IF m = h.memory THEN Stored(h)
              ELSE IF h.request.op = "merge" /\ m = h.request.source THEN DeletedRow
              ELSE memories[m]]
        /\ handlers' = [handlers EXCEPT ![w] = {}]

(* The handler wrote nothing because the event was observed before, or its *)
(* writes violate a constraint, or the lock is not had within the          *)
(* busy_timeout and the session is rolled back.                            *)
Leave(w) ==
    /\ handlers[w] # {}
    /\ handlers' = [handlers EXCEPT ![w] = {}]
    /\ UNCHANGED memories

(* DELETE /memories/{memory_id} and delete_user_state decide nothing from  *)
(* what they read.                                                         *)
Delete(gone) ==
    /\ gone = {m \in MemoryId : Live(m)} \/ \E m \in MemoryId : Live(m) /\ gone = {m}
    /\ memories' = [m \in MemoryId |-> IF m \in gone THEN DeletedRow ELSE memories[m]]
    /\ UNCHANGED handlers

Next ==
    \/ \E w \in Worker, r \in Requests, m \in MemoryId : Load(w, r, m)
    \/ \E w \in Worker : Commit(w)
    \/ \E w \in Worker : Leave(w)
    \/ \E gone \in SUBSET MemoryId : Delete(gone)

Spec == Init /\ [][Next]_vars
-----------------------------------------------------------------------------
TypeOK ==
    /\ memories \in [MemoryId -> Row]
    /\ handlers \in [Worker -> SUBSET Handler]
    /\ \A w \in Worker : \A g, h \in handlers[w] : g = h

Ledger == INSTANCE EvidenceLedger WITH
    status <- [m \in MemoryId |-> memories[m].status],
    evidence <- [m \in MemoryId |-> Events(memories[m])],
    history <- [m \in MemoryId |-> memories[m].versions]

(* Overlapping requests keep the ledger too: of two that carry the same    *)
(* event, both having looked it up in vain, only one is stored.            *)
LedgerKept == Ledger!Spec

(* No two stored memories share a canonical form, though two requests may  *)
(* both find it untaken and create or rename a memory to it.               *)
CanonicalsUnique ==
    \A m, o \in MemoryId :
        Live(m) /\ Live(o) /\ memories[m].canonical = memories[o].canonical => m = o

(* ASR outcomes stay tied to the feedback they came from, though others    *)
(* insert observations between the load and the commit.                    *)
OutcomesAttributed ==
    \A m \in MemoryId : \A o \in memories[m].outcomes :
        /\ o.observation \in DOMAIN memories[m].observations
        /\ LET obs == memories[m].observations[o.observation] IN
           obs.kind = "intervention_feedback" /\ obs.accepted = o.accepted
        /\ \A p \in memories[m].outcomes : p.observation = o.observation => p = o

(* The handler of a request on m whose commit is the present step.         *)
Committing(m, h) ==
    \E w \in Worker : h \in handlers[w] /\ handlers'[w] = {} /\ h.memory = m

Explicit(r) ==
    \/ r.op = "teach"
    \/ r.op = "correct" /\ r.confirm
    \/ r.op = "patch" /\ r.change.state # Keep
    \/ r.op = "feedback" /\ r.suppress /\ ~r.accepted

Judges(r) == r.op \in {"feedback", "correct"} /\ ~Explicit(r)

(* Whatever stale requests left behind, a correction or a feedback that    *)
(* loaded the current row leaves the memory in a state its evidence lets   *)
(* it hold: lost transitions do not outlive the next undisturbed request,  *)
(* and no transition is undone by the next one.                            *)
FreshRequestsSettle ==
    [][\A m \in MemoryId : \A w \in Worker : \A h \in handlers[w] :
        /\ Committing(m, h) /\ Judges(h.request)
        /\ h.row = memories[m] /\ memories'[m] # memories[m]
        => Recommendation(memories'[m].state, memories'[m].observations)
              \in {"hold", "hold_suppressed"}]_vars

(* "Explicit memory suppression remains authoritative": a memory enters or *)
(* leaves the suppressed state only by a request that sets its state.      *)
SuppressionExplicit ==
    [][\A m \in MemoryId :
        /\ Live(m) /\ Live(m)'
        /\ memories[m].state # memories'[m].state
        /\ "suppressed" \in {memories[m].state, memories'[m].state}
        => \E w \in Worker : \E h \in handlers[w] :
              Committing(m, h) /\ Explicit(h.request)]_vars

(* What remains of it under overlap: only a request that loaded the memory *)
(* before it was suppressed can lift the suppression unasked.              *)
SuppressionSticksOnceSeen ==
    [][\A m \in MemoryId :
        /\ Live(m) /\ Live(m)'
        /\ memories[m].state = "suppressed" /\ memories'[m].state # "suppressed"
        => \E w \in Worker : \E h \in handlers[w] :
              /\ Committing(m, h)
              /\ Explicit(h.request) \/ h.row.state # "suppressed"]_vars
=============================================================================
