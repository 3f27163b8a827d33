----------------------------- MODULE WebClient -----------------------------
(***************************************************************************)
(* The page (App.tsx) and, as far as the page can tell it, the service it  *)
(* talks to.  A click runs an asynchronous function up to its first await; *)
(* its requests are handled by the service in any order, may fail before   *)
(* or after they took effect, and the function runs on when its await is   *)
(* settled.  Meanwhile the user clicks whatever button is not disabled.    *)
(*                                                                         *)
(* The contents of forms, memories and answers are left out: a listing is  *)
(* the number of writes it has seen and the memories that existed then.    *)
(***************************************************************************)
EXTENDS Integers

CONSTANTS
    Memory, NoMemory,
    MaxClicks   \* bound: clicks on the page

ASSUME ClientAssumption == NoMemory \notin Memory /\ MaxClicks \in Nat

Click == 1 .. MaxClicks
NoTrace == 0
Trace == 1 .. MaxClicks

Kind == {"mount", "teach", "runInference", "observeCorrection", "sendFeedback",
         "loadHistory", "reset"}

(* What an asynchronous function awaits, and the requests that takes.      *)
Await == {"explicit", "infer", "correction", "feedback", "history", "reset", "refresh"}

Requests(await) == IF await = "refresh" THEN {"memories", "conflicts"} ELSE {await}

Listing == [version : Nat, ids : SUBSET Memory]

Answer == [status : {"waiting", "ok", "failed"}, listing : Listing,
           memory : Memory \cup {NoMemory}, trace : Trace \cup {NoTrace}]

VARIABLES
    store,       \* of the service: its writes, memories and decisions
    page,        \* the state of the page
    functions,   \* the asynchronous functions that wait
    clicks,      \* clicks so far
    solo,        \* since the page last rested, one function ran and none failed
    released     \* a function enabled the buttons while another one waited

vars == <<store, page, functions, clicks, solo, released>>

NoListing == [version |-> 0, ids |-> {}]

Waiting == [status |-> "waiting", listing |-> NoListing, memory |-> NoMemory,
            trace |-> NoTrace]

Awaiting(await) == [r \in Requests(await) |-> Waiting]

Listed == [version |-> store.version, ids |-> store.ids]

-----------------------------------------------------------------------------
(* The service.  Writes keep what MemoryLifecycle says of them; here only  *)
(* their order against the readings matters.                               *)
Write(ids, decisions) ==
    store' = [store EXCEPT !.version = @ + 1, !.ids = ids, !.decisions = decisions]

Teaching(a, answer) ==
    /\ answer = [Waiting EXCEPT !.status = "ok", !.memory = a.memory]
    /\ Write(store.ids \cup {a.memory}, store.decisions)

(* A correction without a supported replacement stores nothing.            *)
Observing(a, answer) ==
    \/ Teaching(a, answer)
    \/ answer = [Waiting EXCEPT !.status = "ok"] /\ UNCHANGED store

Deciding(answer) ==
    LET trace == store.traces + 1
    IN  /\ answer = [Waiting EXCEPT !.status = "ok", !.trace = trace]
        /\ store' = [store EXCEPT !.traces = trace, !.decisions = @ \cup {trace}]

Judging(a, answer) ==
    /\ a.trace \in store.decisions
    /\ answer = [Waiting EXCEPT !.status = "ok"]
    /\ Write(store.ids, store.decisions)

Listings(answer) ==
    /\ answer = [Waiting EXCEPT !.status = "ok", !.listing = Listed]
    /\ UNCHANGED store

Versions(a, answer) ==
    /\ a.memory \in store.ids
    /\ answer = [Waiting EXCEPT !.status = "ok", !.memory = a.memory]
    /\ UNCHANGED store

Resetting(answer) ==
    /\ answer = [Waiting EXCEPT !.status = "ok"]
    /\ Write({}, {})

Answered(a, r, answer) == functions' = (functions \ {a}) \cup {[a EXCEPT !.calls[r] = answer]}

Effect(a, r, answer) ==
    \/ r = "explicit" /\ Teaching(a, answer)
    \/ r = "correction" /\ Observing(a, answer)
    \/ r = "infer" /\ Deciding(answer)
    \/ r = "feedback" /\ Judging(a, answer)
    \/ r \in {"memories", "conflicts"} /\ Listings(answer)
    \/ r = "history" /\ Versions(a, answer)
    \/ r = "reset" /\ Resetting(answer)

Failed == [Waiting EXCEPT !.status = "failed"]

Outcomes == {[Waiting EXCEPT !.status = "ok", !.memory = m] : m \in Memory \cup {NoMemory}}
            \cup {[Waiting EXCEPT !.status = "ok", !.trace = t] : t \in Trace}
            \cup {[Waiting EXCEPT !.status = "ok", !.listing = Listed]}

(* request_safety_and_metrics and the handler behind it answer 200.        *)
Handle(a, r) ==
    /\ \E answer \in Outcomes : Effect(a, r, answer) /\ Answered(a, r, answer)
    /\ UNCHANGED <<page, clicks, solo, released>>

(* The request is too large (413), refused (404, 422) or ends in an        *)
(* exception (500) that is rolled back, or never arrives.                  *)
Refuse(a, r) ==
    /\ Answered(a, r, Failed)
    /\ UNCHANGED <<store, page, clicks, solo, released>>

(* The request took effect and its answer is lost.                         *)
LoseAnswer(a, r) ==
    /\ \E answer \in Outcomes : Effect(a, r, answer)
    /\ Answered(a, r, Failed)
    /\ UNCHANGED <<page, clicks, solo, released>>

Serve ==
    \E a \in functions : \E r \in DOMAIN a.calls :
       /\ a.calls[r].status = "waiting"
       /\ Handle(a, r) \/ Refuse(a, r) \/ LoseAnswer(a, r)

-----------------------------------------------------------------------------
(* The page.                                                               *)
NoPage == [memories |-> NoListing, conflicts |-> NoListing, result |-> NoTrace,
           feedbackMessage |-> NoTrace, history |-> NoMemory,
           selectedMemoryId |-> NoMemory, busy |-> FALSE, error |-> FALSE]

Function(kind, await, memory, trace) ==
    [id |-> clicks, kind |-> kind, await |-> await, memory |-> memory, trace |-> trace,
     calls |-> Awaiting(await), since |-> store.version]

(* useEffect: the first refresh, which does not disable the buttons.       *)
Init ==
    /\ \E ids \in {{}, Memory} :
          store = [version |-> 1, ids |-> ids, decisions |-> {}, traces |-> 0]
    /\ page = NoPage
    /\ clicks = 0
    /\ functions = {Function("mount", "refresh", NoMemory, NoTrace)}
    /\ solo = TRUE
    /\ released = FALSE

(* Mistake: runInference leaves the buttons enabled.                       *)
Begun_InferenceFree(kind) ==
    [page EXCEPT !.busy = (kind # "runInference"), !.error = FALSE]

(* setBusy(true), setError("")                                             *)
Begun(kind) == [page EXCEPT !.busy = TRUE, !.error = FALSE]

Starts(kind, await, memory, trace) ==
    /\ clicks < MaxClicks
    /\ clicks' = clicks + 1
    /\ functions' = functions \cup {[Function(kind, await, memory, trace) EXCEPT !.id = clicks']}
    /\ solo' = (functions = {})
    /\ UNCHANGED <<store, released>>

Teach(m) ==
    /\ ~page.busy
    /\ Starts("teach", "explicit", m, NoTrace)
    /\ page' = Begun("teach")

(* Mistake: the message about the previous result stays.                   *)
RunInference_KeepsMessage ==
    /\ ~page.busy
    /\ Starts("runInference", "infer", NoMemory, NoTrace)
    /\ page' = Begun("runInference")

RunInference ==
    /\ ~page.busy
    /\ Starts("runInference", "infer", NoMemory, NoTrace)
    /\ page' = [Begun("runInference") EXCEPT !.feedbackMessage = NoTrace]

ObserveCorrection(m) ==
    /\ ~page.busy
    /\ Starts("observeCorrection", "correction", m, NoTrace)
    /\ page' = Begun("observeCorrection")

(* The verdict is on the result shown at the click, and the memory whose   *)
(* history is reloaded afterwards is the one selected then.                *)
SendFeedback ==
    /\ ~page.busy
    /\ page.result # NoTrace
    /\ Starts("sendFeedback", "feedback", page.selectedMemoryId, page.result)
    /\ page' = Begun("sendFeedback")

(* The only button that busy does not disable.                             *)
LoadHistory(m) ==
    /\ m \in page.memories.ids
    /\ Starts("loadHistory", "history", m, NoTrace)
    /\ page' = [Begun("loadHistory") EXCEPT !.selectedMemoryId = m]

Reset ==
    /\ ~page.busy
    /\ Starts("reset", "reset", NoMemory, NoTrace)
    /\ page' = Begun("reset")

Clicking ==
    \/ \E m \in Memory : Teach(m) \/ ObserveCorrection(m) \/ LoadHistory(m)
    \/ RunInference
    \/ SendFeedback
    \/ Reset

(* Mistake: an error leaves the buttons disabled.                          *)
Caught_StaysBusy(a) == [page EXCEPT !.error = TRUE]

(* catch and finally; the first refresh has no finally.                    *)
Caught(a) ==
    [page EXCEPT !.error = TRUE, !.busy = (a.kind = "mount" /\ @)]

Ends(a) ==
    /\ functions' = functions \ {a}
    /\ released' = (released \/ (page.busy /\ ~page'.busy /\ functions' # {}))

(* jsonRequest throws, and Promise.all with the first that does.           *)
Throw(a) ==
    /\ \E r \in DOMAIN a.calls : a.calls[r].status = "failed"
    /\ page' = Caught(a)
    /\ Ends(a)
    /\ solo' = FALSE
    /\ UNCHANGED <<store, clicks>>

Settled(a) == \A r \in DOMAIN a.calls : a.calls[r].status = "ok"

(* Mistake: a lesson does not refresh the list.                            *)
NextAwait_TeachSilently(a) ==
    CASE a.await \in {"correction", "feedback", "reset"} -> "refresh"
      [] a.await = "refresh" /\ a.kind = "sendFeedback" /\ a.memory # NoMemory -> "history"
      [] OTHER -> "return"

(* What the function awaits next; a correction that changed nothing        *)
(* returns early.                                                          *)
NextAwait(a) ==
    CASE a.await = "correction" /\ a.calls["correction"].memory = NoMemory -> "return"
      [] a.await \in {"explicit", "correction", "feedback", "reset"} -> "refresh"
      [] a.await = "refresh" /\ a.kind = "sendFeedback" /\ a.memory # NoMemory -> "history"
      [] OTHER -> "return"

(* What the function makes of what it awaited.                             *)
Assigned(a) ==
    CASE a.await = "infer" -> [page EXCEPT !.result = a.calls["infer"].trace]
      [] a.await = "feedback" -> [page EXCEPT !.feedbackMessage = a.trace]
      [] a.await = "refresh" ->
            [page EXCEPT !.memories = a.calls["memories"].listing,
                         !.conflicts = a.calls["conflicts"].listing]
      [] a.await = "history" -> [page EXCEPT !.history = a.memory]
      [] a.await = "reset" ->
            [page EXCEPT !.result = NoTrace, !.history = NoMemory,
                         !.selectedMemoryId = NoMemory, !.feedbackMessage = NoTrace]
      [] OTHER -> page

(* The function runs on to its next await: loadHistory, called from        *)
(* sendFeedback, begins like a click.                                      *)
Continue(a) ==
    /\ Settled(a)
    /\ NextAwait(a) # "return"
    /\ functions' = (functions \ {a}) \cup
          {[a EXCEPT !.await = NextAwait(a), !.calls = Awaiting(NextAwait(a))]}
    /\ page' = IF NextAwait(a) = "history"
               THEN [Assigned(a) EXCEPT !.busy = TRUE, !.error = FALSE,
                                        !.selectedMemoryId = a.memory]
               ELSE Assigned(a)
    /\ UNCHANGED <<store, clicks, solo, released>>

Return(a) ==
    /\ Settled(a)
    /\ NextAwait(a) = "return"
    /\ page' = [Assigned(a) EXCEPT !.busy = (a.kind = "mount" /\ @)]
    /\ Ends(a)
    /\ UNCHANGED <<store, clicks, solo>>

Resume == \E a \in functions : Throw(a) \/ Continue(a) \/ Return(a)

Next == Clicking \/ Serve \/ Resume

(* A fetch is answered or fails, and a settled promise is resumed.         *)
Spec == Init /\ [][Next]_vars /\ WF_vars(Serve \/ Resume)

-----------------------------------------------------------------------------
Page == [memories : Listing, conflicts : Listing, result : Trace \cup {NoTrace},
         feedbackMessage : Trace \cup {NoTrace}, history : Memory \cup {NoMemory},
         selectedMemoryId : Memory \cup {NoMemory}, busy : BOOLEAN, error : BOOLEAN]

Pending(await) ==
    [id : Nat, kind : Kind, await : {await}, memory : Memory \cup {NoMemory},
     trace : Trace \cup {NoTrace}, calls : [Requests(await) -> Answer], since : Nat]

TypeOK ==
    /\ store \in [version : Nat, ids : SUBSET Memory, decisions : SUBSET Trace,
                  traces : Nat]
    /\ page \in Page
    /\ \A a \in functions : \E await \in Await : a \in Pending(await)
    /\ clicks \in Nat
    /\ solo \in BOOLEAN /\ released \in BOOLEAN

Over(a) == a.id \notin {b.id : b \in functions'}

(* A handler that ran alone and without failure, from its click to its     *)
(* return, leaves the page as the service is: whatever went wrong before,  *)
(* the memories and the collision groups are those after its write, and    *)
(* nothing of a store that was reset is left to judge or to open.          *)
AloneHandlersRefresh ==
    [][\A a \in functions : Over(a) /\ solo' =>
          /\ store.version # a.since =>
                page'.memories = Listed' /\ page'.conflicts = Listed'
          /\ a.kind = "reset" =>
                /\ page'.result = NoTrace /\ page'.feedbackMessage = NoTrace
                /\ page'.selectedMemoryId = NoMemory /\ page'.history = NoMemory
          /\ a.kind = "loadHistory" => page'.history = page'.selectedMemoryId
      ]_vars

Submits(a) == a.kind \notin {"mount", "loadHistory"}

(* While busy has not been cleared under a waiting function (by a history  *)
(* view, whose button stays enabled), the page has one request to teach,   *)
(* infer, correct, judge or reset under way: a double click sends nothing. *)
SubmitsOnce ==
    released \/ \A a, b \in functions : Submits(a) /\ Submits(b) => a = b

(* The message under a result (feedbackMessage) is about the verdict on    *)
(* that result, as long as the page submits once.                          *)
MessageFits == released \/ page.feedbackMessage \in {NoTrace, page.result}

(* The buttons are enabled again, whatever fails (the finally blocks).     *)
BusyEnds == page.busy ~> ~page.busy
=============================================================================
