--------------------------- MODULE PortableImport ---------------------------
(***************************************************************************)
(* POST /users/{user_id}/import (main.py) step by step.  Each entry of the *)
(* bundle is looked up by its import event, taught in one commit and given *)
(* its state in another; in replace mode everything else is deleted, and   *)
(* committed, first.  A client that got no answer sends the same bundle    *)
(* again, while the first request may still run; a request may end at any  *)
(* step, its last commit staying (a crash, a lock timeout); and the user's *)
(* own edits come in between.                                              *)
(*                                                                         *)
(* ClientEvent holds the positions in the bundle: every request carries    *)
(* the same bundle_id, so the event of entry i is ClientId(i).  Decision   *)
(* traces, which replace mode deletes too, are left out.                   *)
(***************************************************************************)
EXTENDS MemoryRow, FiniteSets

CONSTANTS
    Attempt,    \* the import requests a client sends for one bundle
    Modes,      \* the modes it may ask for
    Bundles,    \* the bundles there may be
    Edits,      \* PATCH bodies the user may send meanwhile
    MaxEdits,   \* bound: edits and deletions of the user
    NoMemory    \* a handler that works on no stored memory

Mode == {"merge", "replace"}

(* PortableMemory: the normalized variants keep their order, and two that  *)
(* differ only in case are equal here.                                     *)
Entry == [canonical : Form, variants : Seq(Form), scope : Scope, state : State]

ASSUME ImportAssumption ==
    /\ MemoryId \subseteq Nat
    /\ ClientEvent \subseteq Nat \ {0}
    /\ Bundles \subseteq Seq(Entry)
    /\ \A b \in Bundles : DOMAIN b \subseteq ClientEvent
    /\ Modes \subseteq Mode
    /\ Edits \subseteq Change /\ MaxEdits \in Nat
    /\ NoForm \notin Form /\ NoMemory \notin MemoryId /\ NoEvent \notin ClientEvent
    /\ \A e \in ClientEvent : NoEvent # ClientId(e)

VARIABLES
    bundle,     \* the entries, the same for every request
    memories,   \* the committed rows, by id
    restored,   \* by memory, the entries its memory_imported versions are about
    imports,    \* the handlers of the requests
    edits       \* how often the user has intervened

vars == <<bundle, memories, restored, imports, edits>>

Phase == {"unsent", "lookup", "teach", "write", "refresh", "state", "answered", "failed"}

(* known: the entries that have been restored ever since the request       *)
(* began.  alone: nobody else has been at work since.                      *)
Import ==
    [phase : Phase, mode : Mode, index : Nat, memory : MemoryId \cup {NoMemory},
     row : Row, known : SUBSET ClientEvent, alone : BOOLEAN]

Unsent ==
    [phase |-> "unsent", mode |-> "merge", index |-> 1, memory |-> NoMemory,
     row |-> UnusedRow, known |-> {}, alone |-> FALSE]

Live(m) == memories[m].status = "live"

Running(a) == imports[a].phase \notin {"unsent", "answered", "failed"}

Item(a) == bundle[imports[a].index]

Restored(i) == \E m \in MemoryId : Live(m) /\ i \in restored[m]

(* The memory the handler writes.  Ids are uuids: only which of them are   *)
(* taken matters, and MemoryId bounds the memories there ever are.         *)
Targets(a) ==
    IF imports[a].memory # NoMemory THEN {imports[a].memory}
    ELSE {m \in MemoryId :
            /\ memories[m].status = "unused"
            /\ \A o \in MemoryId : memories[o].status = "unused" => m <= o}

(* The handler of a goes on as h, and, when it commits, the solitude of    *)
(* every other one is over.                                                *)
Goes(a, h) == [imports EXCEPT ![a] = h]

Commits(a, h) ==
    [b \in Attempt |-> IF b = a THEN h ELSE [imports[b] EXCEPT !.alone = FALSE]]

(* What was deleted is not known any more.                                 *)
StillKnown(handlers) ==
    [a \in Attempt |-> [handlers[a] EXCEPT !.known = {i \in @ : Restored(i)'}]]

At(a, phase) == [imports[a] EXCEPT !.phase = phase]

(* Mistake: the position stays.                                            *)
NextEntry_Same(a) == At(a, "lookup")

(* The next entry.  The session keeps the memory of the last one as the    *)
(* handler left it; those before it are taken as gone from the session.    *)
NextEntry(a) == [At(a, "lookup") EXCEPT !.index = @ + 1]

Init ==
    /\ bundle \in Bundles
    /\ memories = [m \in MemoryId |-> UnusedRow]
    /\ restored = [m \in MemoryId |-> {}]
    /\ imports = [a \in Attempt |-> Unsent]
    /\ edits = 0

-----------------------------------------------------------------------------
(* delete_user_state, and its absence (a mistake).                         *)
Cleared_Never(mode) == memories

Cleared(mode) ==
    IF mode = "merge" THEN memories
    ELSE [m \in MemoryId |-> IF Live(m) THEN DeletedRow ELSE memories[m]]

(* The request arrives; replace mode deletes first, in a commit.           *)
Send(a, mode) ==
    /\ imports[a].phase = "unsent"
    /\ memories' = Cleared(mode)
    /\ restored' = [m \in MemoryId |-> IF mode = "replace" THEN {} ELSE restored[m]]
    /\ imports' = StillKnown(Commits(a,
          [Unsent EXCEPT !.phase = "lookup", !.mode = mode, !.known = ClientEvent,
              !.alone = \A b \in Attempt : ~Running(b)]))
    /\ UNCHANGED <<bundle, edits>>

(* Mistake: only the memory of that canonical form is asked.               *)
Known_ByForm(a) ==
    \E m \in MemoryId :
        /\ Live(m) /\ memories[m].canonical = Item(a).canonical
        /\ Observed(memories[m], ClientId(imports[a].index))

(* An observation of the user that carries the entry's import event.       *)
Known(a) == \E m \in MemoryId : Observed(memories[m], ClientId(imports[a].index))

(* The entry is skipped when its event is known, and no state is set.      *)
Skip(a) ==
    /\ imports[a].phase = "lookup" /\ imports[a].index \in DOMAIN bundle
    /\ Known(a)
    /\ imports' = Goes(a, NextEntry(a))
    /\ UNCHANGED <<bundle, memories, restored, edits>>

Lookup(a) ==
    /\ imports[a].phase = "lookup" /\ imports[a].index \in DOMAIN bundle
    /\ ~Known(a)
    /\ imports' = Goes(a, At(a, "teach"))
    /\ UNCHANGED <<bundle, memories, restored, edits>>

(* teach_explicit loads the memory of the canonical form; one the session  *)
(* still has keeps the attributes it has there.  When another request has  *)
(* stored the event on it by now, it is returned as loaded.                *)
LoadMemory(a) ==
    LET event == ClientId(imports[a].index) IN
    /\ imports[a].phase = "teach"
    /\ \/ \E m \in MemoryId :
            /\ Live(m) /\ memories[m].canonical = Item(a).canonical
            /\ imports' = Goes(a,
                  [imports[a] EXCEPT
                      !.memory = m,
                      !.row = IF m = imports[a].memory THEN @ ELSE memories[m],
                      !.phase = IF Observed(memories[m], event) THEN "state" ELSE "write"])
       \/ /\ \A m \in MemoryId : Live(m) => memories[m].canonical # Item(a).canonical
          /\ imports' = Goes(a, [At(a, "write") EXCEPT !.memory = NoMemory, !.row = UnusedRow])
    /\ UNCHANGED <<bundle, memories, restored, edits>>

(* The variants the loop over item.variants inserts: those the loaded row  *)
(* did not have, as often as the list holds them.                          *)
InsertedVariants(a) ==
    {i \in DOMAIN Item(a).variants : Item(a).variants[i] \notin imports[a].row.variants}

UniqueVariants(a) ==
    \A i, j \in InsertedVariants(a) :
        Item(a).variants[i] = Item(a).variants[j] => i = j

(* uq_observation_user_event_memory, and its absence (a mistake).          *)
UniqueEvent_Unchecked(a, stored) == TRUE

UniqueEvent(a, stored) == ~Observed(stored, ClientId(imports[a].index))

(* The constraints of models.py the first commit meets.                    *)
Accepted(a, m) ==
    LET stored == memories[m] IN
    /\ IF imports[a].memory = NoMemory
       THEN \A o \in MemoryId : Live(o) => memories[o].canonical # Item(a).canonical
       ELSE stored.status = "live"
    /\ UniqueEvent(a, stored)
    /\ UniqueVariants(a)
    /\ \A i \in InsertedVariants(a) : Item(a).variants[i] \notin stored.variants

TaughtRow(a) ==
    Teach(imports[a].row, Item(a).canonical, Item(a).scope,
          {Item(a).variants[i] : i \in DOMAIN Item(a).variants}, imports[a].index, NoContext)

(* An attribute is written only when it differs from the loaded one.       *)
Written(loaded, computed, now) == IF computed = loaded THEN now ELSE computed

(* The row the UPDATE and the INSERTs of the first commit make of stored.  *)
Committed(stored, a) ==
    LET loaded == imports[a].row
        new == TaughtRow(a)
    IN  [stored EXCEPT
            !.status = "live", !.canonical = Written(loaded.canonical, new.canonical, @),
            !.state = Written(loaded.state, new.state, @),
            !.scope = Written(loaded.scope, new.scope, @),
            !.variants = @ \cup new.variants,
            !.observations = Append(@, new.observations[Len(new.observations)]),
            !.versions = Append(@, new.versions[Len(new.versions)])]

TeachCommit(a) ==
    \E m \in Targets(a) :
        /\ imports[a].phase = "write"
        /\ Accepted(a, m)
        /\ memories' = [memories EXCEPT ![m] = Committed(@, a)]
        /\ imports' = Commits(a,
              [imports[a] EXCEPT !.phase = "refresh", !.memory = m, !.row = UnusedRow])
        /\ UNCHANGED <<bundle, restored, edits>>

(* IntegrityError: the session is rolled back and the request ends in 500. *)
TeachFails(a) ==
    /\ imports[a].phase = "write"
    /\ \A m \in Targets(a) : ~Accepted(a, m)
    /\ imports' = Goes(a, [At(a, "failed") EXCEPT !.memory = NoMemory, !.row = UnusedRow])
    /\ UNCHANGED <<bundle, memories, restored, edits>>

(* session.refresh after the commit.                                       *)
Refresh(a) ==
    /\ imports[a].phase = "refresh"
    /\ Live(imports[a].memory)
    /\ imports' = Goes(a, [At(a, "state") EXCEPT !.row = memories[imports[a].memory]])
    /\ UNCHANGED <<bundle, memories, restored, edits>>

(* Mistake: a state the memory has already is not recorded.                *)
Imported_WhenChanged(a) ==
    IF Item(a).state = imports[a].row.state THEN {} ELSE {imports[a].index}

Imported(a) == {imports[a].index}

(* memory.state = item.state and a second version.                         *)
Restated(stored, a) ==
    [stored EXCEPT
        !.state = Written(imports[a].row.state, Item(a).state, @),
        !.versions = Append(@, [state |-> Item(a).state,
                                upTo |-> Len(imports[a].row.observations)])]

(* The second commit of the entry.                                         *)
SetState(a) ==
    LET m == imports[a].memory
    IN  /\ imports[a].phase = "state"
        /\ Live(m)
        /\ memories' = [memories EXCEPT ![m] = Restated(@, a)]
        /\ restored' = [restored EXCEPT ![m] = @ \cup Imported(a)]
        /\ imports' = Commits(a, [NextEntry(a) EXCEPT !.row.state = Item(a).state])
        /\ UNCHANGED <<bundle, edits>>

Answer(a) ==
    /\ imports[a].phase = "lookup" /\ imports[a].index \notin DOMAIN bundle
    /\ imports' = Goes(a, At(a, "answered"))
    /\ UNCHANGED <<bundle, memories, restored, edits>>

(* A handler that ends between its two commits leaves the memory it taught *)
(* without the entry's state.                                              *)
Ended(a) ==
    [At(a, "failed") EXCEPT
        !.row = UnusedRow,
        !.memory = IF imports[a].phase \in {"refresh", "state"} THEN @ ELSE NoMemory]

(* The memory was deleted since the handler taught or loaded it: the       *)
(* refresh, or the insert of the version, fails.                           *)
Orphaned(a) ==
    /\ imports[a].phase \in {"refresh", "state"}
    /\ ~Live(imports[a].memory)
    /\ imports' = Goes(a, Ended(a))
    /\ UNCHANGED <<bundle, memories, restored, edits>>

(* The process dies, or the lock is not had within the busy_timeout: what  *)
(* was committed stays.                                                    *)
Breaks(a) ==
    /\ Running(a)
    /\ imports' = Goes(a, Ended(a))
    /\ UNCHANGED <<bundle, memories, restored, edits>>

(* The user's own PATCH and DELETE requests.                               *)
Disturbed == [a \in Attempt |-> [imports[a] EXCEPT !.alone = FALSE]]

Intervenes == edits < MaxEdits /\ edits' = edits + 1 /\ UNCHANGED bundle

UpdateMemory(m, change) ==
    /\ Live(m)
    /\ \A o \in MemoryId \ {m} : Live(o) => memories[o].canonical # change.canonical
    /\ memories' = [memories EXCEPT ![m] = Patch(@, change)]
    /\ imports' = Disturbed
    /\ UNCHANGED restored
    /\ Intervenes

DeleteMemory(m) ==
    /\ Live(m)
    /\ memories' = [memories EXCEPT ![m] = DeletedRow]
    /\ restored' = [restored EXCEPT ![m] = {}]
    /\ imports' = StillKnown(Disturbed)
    /\ Intervenes

Handle(a) ==
    \/ Skip(a) \/ Lookup(a) \/ LoadMemory(a) \/ TeachCommit(a) \/ TeachFails(a)
    \/ Refresh(a) \/ SetState(a) \/ Orphaned(a) \/ Answer(a)

Next ==
    \/ \E a \in Attempt, mode \in Modes : Send(a, mode)
    \/ \E a \in Attempt : Handle(a)
    \/ \E a \in Attempt : Breaks(a)
    \/ \E m \in MemoryId, change \in Edits : UpdateMemory(m, change)
    \/ \E m \in MemoryId : DeleteMemory(m)

(* A handler that runs waits for nobody longer than the busy_timeout.      *)
Spec == Init /\ [][Next]_vars /\ \A a \in Attempt : WF_vars(Handle(a))

-----------------------------------------------------------------------------
TypeOK ==
    /\ bundle \in Bundles
    /\ memories \in [MemoryId -> Row]
    /\ restored \in [MemoryId -> SUBSET ClientEvent]
    /\ imports \in [Attempt -> Import]
    /\ edits \in 0 .. MaxEdits

Ledger == INSTANCE EvidenceLedger WITH
    status <- [m \in MemoryId |-> memories[m].status],
    evidence <- [m \in MemoryId |-> Events(memories[m])],
    history <- [m \in MemoryId |-> memories[m].versions]

(* However often a bundle is sent, wherever a request ends and whatever    *)
(* requests overlap, the store keeps the ledger: each entry is evidence of *)
(* a memory once.                                                          *)
LedgerKept == Ledger!Spec

(* The step is one of the two commits of request a.                        *)
Commit(a) ==
    \/ imports[a].phase = "write" /\ imports'[a].phase = "refresh"
    \/ imports[a].phase = "state" /\ imports'[a].phase = "lookup"

(* A request writes nothing for an entry that has been restored ever since *)
(* it began: what the user made of the memory since is respected.          *)
RestoredEntriesStay ==
    [][\A a \in Attempt : Commit(a) => imports[a].index \notin imports[a].known]_vars

(* An entry that an answered request left without its state is one whose   *)
(* handler ended, or is at work, between its two commits: nothing else     *)
(* makes a retry skip an entry that is not restored.                       *)
OnlyInterruptedEntriesDiffer ==
    [][\A a \in Attempt : \A m \in MemoryId : \A i \in DOMAIN bundle :
        /\ imports[a].phase # "answered" /\ imports'[a].phase = "answered"
        /\ Live(m) /\ Observed(memories[m], ClientId(i)) /\ i \notin restored[m]
        => \E b \in Attempt :
              /\ imports[b].phase \in {"refresh", "state", "failed"}
              /\ imports[b].memory = m /\ imports[b].index = i]_vars

(* The last entry before position n that has the canonical form of m.      *)
LastEntry(m, n) ==
    {i \in 1 .. n - 1 :
        /\ bundle[i].canonical = memories[m].canonical
        /\ \A j \in i + 1 .. n - 1 : bundle[j].canonical # memories[m].canonical}

(* What an export says of a memory, with its variants as a set.            *)
Exported(row) ==
    [variants |-> row.variants, scope |-> row.scope, state |-> row.state]

(* What the entries before position n say of the memory of entry i.        *)
Described(i, n) ==
    [variants |-> UNION {{bundle[j].variants[k] : k \in DOMAIN bundle[j].variants} :
                        j \in {o \in 1 .. n - 1 : bundle[o].canonical = bundle[i].canonical}},
     scope |-> bundle[i].scope, state |-> bundle[i].state]

(* As long as nobody else interferes, an import in replace mode has made   *)
(* the store export what the entries it has gone through say, also when it *)
(* failed half-way or an earlier attempt did; only the present entry may   *)
(* be in between.                                                          *)
ReplacedByPrefix ==
    \A a \in Attempt :
        LET h == imports[a] IN
        h.mode = "replace" /\ h.alone =>
            /\ \A i \in 1 .. h.index - 1 :
                  \E m \in MemoryId : Live(m) /\ memories[m].canonical = bundle[i].canonical
            /\ \A m \in MemoryId : Live(m) =>
                  \/ \E i \in LastEntry(m, h.index) :
                        Exported(memories[m]) = Described(i, h.index)
                  \/ /\ h.phase \in {"refresh", "state", "failed"}
                     /\ memories[m].canonical = bundle[h.index].canonical

(* Every request is answered or ends: no entry is gone through for ever.   *)
ImportsEnd ==
    \A a \in Attempt : Running(a) ~> ~Running(a)
=============================================================================
