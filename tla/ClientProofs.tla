---------------------------- MODULE ClientProofs ----------------------------
(***************************************************************************)
(* Theorems about the programs around the service: the page (WebClient,    *)
(* for any memories and any number of clicks), the guard of the holdout    *)
(* (HoldoutGuard, for any number of processes, datasets, directories and   *)
(* commands) and the choice of a policy (Calibration, for any corpora,     *)
(* configurations and thresholds).                                         *)
(***************************************************************************)
EXTENDS WebClient, HoldoutGuard, Calibration, FiniteSetTheorems, WellFoundedInduction, TLAPS

-----------------------------------------------------------------------------
(* The page.                                                               *)
(* What a waiting function awaits says which function it is.               *)
Shaped(a) ==
    /\ \E await \in Await : a \in Pending(await)
    /\ a.await \in {"explicit", "correction"} => a.memory \in Memory
    /\ a.await = "infer" <=> a.kind = "runInference"
    /\ a.await = "feedback" => a.kind = "sendFeedback"
    /\ a.await = "reset" => a.kind = "reset"

TypeInv == TypeOK /\ \A a \in functions : Shaped(a)

(* Busy covers every function a click began, one of which submits.         *)
BusyCovers == \A a \in functions : a.kind # "mount" => page.busy

SubmitsAlone == \A a, b \in functions : Submits(a) /\ Submits(b) => a = b

(* The verdict under way is on the result shown, and an inference under    *)
(* way finds no message.                                                   *)
MessageOK(a) ==
    /\ a.kind = "sendFeedback" => a.trace = page.result
    /\ a.kind = "runInference" => page.feedbackMessage = NoTrace

Messages ==
    /\ page.feedbackMessage \in {NoTrace, page.result}
    /\ \A a \in functions : MessageOK(a)

IInv == released \/ (BusyCovers /\ SubmitsAlone /\ Messages)

StoreType == [version : Nat, ids : SUBSET Memory, decisions : SUBSET Trace, traces : Nat]

-----------------------------------------------------------------------------
(* Types of what the page and the service exchange.                        *)
LEMMA WaitingType == Waiting \in Answer
  BY DEF Waiting, Answer, Listing, NoListing

LEMMA AwaitingType ==
    \A await \in Await : Awaiting(await) \in [Requests(await) -> Answer]
  BY WaitingType DEF Awaiting

LEMMA FunctionType ==
    ASSUME NEW kind \in Kind, NEW await \in Await, NEW memory \in Memory \cup {NoMemory},
           NEW trace \in Trace \cup {NoTrace}, clicks \in Nat, store \in StoreType
    PROVE  Function(kind, await, memory, trace) \in Pending(await)
  BY AwaitingType DEF Function, Pending, StoreType

LEMMA OutcomeType == store \in StoreType => Outcomes \subseteq Answer
  <1> SUFFICES ASSUME store \in StoreType, NEW answer \in Outcomes PROVE answer \in Answer
    OBVIOUS
  <1>1. Listed \in Listing
    BY DEF Listed, Listing, StoreType
  <1>2. PICK m \in Memory \cup {NoMemory}, t \in Trace \cup {NoTrace}, l \in Listing :
           answer = [status |-> "ok", listing |-> l, memory |-> m, trace |-> t]
    BY <1>1, WaitingType DEF Outcomes, Waiting, NoListing, Listing
  <1> QED  BY <1>2 DEF Answer

(* An answered request changes nothing of its function but the answer.     *)
LEMMA AnsweredType ==
    ASSUME NEW a, Shaped(a), NEW r \in DOMAIN a.calls, NEW answer \in Answer
    PROVE  LET b == [a EXCEPT !.calls[r] = answer]
           IN  Shaped(b) /\ b.kind = a.kind /\ b.trace = a.trace
  <1>1. PICK await \in Await : a \in Pending(await)
    BY DEF Shaped
  <1> DEFINE b == [a EXCEPT !.calls[r] = answer]
  <1>2. b \in Pending(await)
    BY <1>1 DEF Pending
  <1>3. b.kind = a.kind /\ b.trace = a.trace /\ b.memory = a.memory /\ b.await = a.await
    BY <1>1 DEF Pending
  <1> QED  BY <1>1, <1>2, <1>3 DEF Shaped

LEMMA WriteType ==
    ASSUME store \in StoreType, NEW ids \in SUBSET Memory, NEW decisions \in SUBSET Trace,
           Write(ids, decisions)
    PROVE  store' \in StoreType
  <1>1. store' = [store EXCEPT !.version = store.version + 1, !.ids = ids,
                               !.decisions = decisions]
    BY DEF Write
  <1>2. store.version + 1 \in Nat
    BY DEF StoreType
  <1> QED  BY <1>1, <1>2 DEF StoreType

LEMMA EffectType ==
    ASSUME store \in StoreType, NEW a, Shaped(a), NEW r \in DOMAIN a.calls,
           NEW answer \in Outcomes, Effect(a, r, answer)
    PROVE  store' \in StoreType
  <1>1. PICK await \in Await : a \in Pending(await)
    BY DEF Shaped
  <1>2. a.await = await /\ r \in Requests(await)
    BY <1>1 DEF Pending
  <1>3. r \in {"explicit", "correction"} => a.memory \in Memory
    BY <1>2 DEF Shaped, Requests
  <1>4. store.ids \in SUBSET Memory /\ store.decisions \in SUBSET Trace
    BY DEF StoreType
  <1>5. CASE r = "explicit" \/ r = "correction"
    <2>1. UNCHANGED store \/ Write(store.ids \cup {a.memory}, store.decisions)
      BY <1>5 DEF Effect, Teaching, Observing
    <2> QED  BY <1>3, <1>4, <1>5, <2>1, WriteType
  <1>6. CASE r = "infer"
    <2>1. answer.trace \in Trace \cup {NoTrace}
      BY OutcomeType DEF Answer
    <2>2. answer = [Waiting EXCEPT !.status = "ok", !.trace = store.traces + 1]
          /\ store' = [store EXCEPT !.traces = store.traces + 1,
                                    !.decisions = store.decisions \cup {store.traces + 1}]
      BY <1>6 DEF Effect, Deciding
    <2>3. store.traces + 1 \in Trace
      BY <2>1, <2>2 DEF NoTrace, Trace, StoreType, Waiting
    <2>4. store.traces + 1 \in Nat
      BY DEF StoreType
    <2>5. store.decisions \cup {store.traces + 1} \in SUBSET Trace
      BY <1>4, <2>3
    <2> QED  BY <2>2, <2>4, <2>5 DEF StoreType
  <1>7. CASE r \in {"feedback", "memories", "conflicts", "history", "reset"}
    <2>1. UNCHANGED store \/ Write(store.ids, store.decisions) \/ Write({}, {})
      BY <1>7 DEF Effect, Judging, Listings, Versions, Resetting
    <2> QED  BY <1>4, <2>1, WriteType
  <1> QED  BY <1>5, <1>6, <1>7 DEF Effect

-----------------------------------------------------------------------------
(* What each kind of step does to the functions that wait.                 *)
LEMMA ServeType ==
    ASSUME TypeInv, Serve
    PROVE  /\ UNCHANGED <<page, clicks, solo, released>>
           /\ store' \in StoreType
           /\ \E a \in functions : \E b :
                 /\ functions' = (functions \ {a}) \cup {b}
                 /\ Shaped(b) /\ b.kind = a.kind /\ b.trace = a.trace
  <1>0. PICK a \in functions : \E r \in DOMAIN a.calls :
           Handle(a, r) \/ Refuse(a, r) \/ LoseAnswer(a, r)
    BY DEF Serve
  <1>1. PICK r \in DOMAIN a.calls : Handle(a, r) \/ Refuse(a, r) \/ LoseAnswer(a, r)
    BY <1>0
  <1>2. store \in StoreType /\ Shaped(a)
    BY DEF TypeInv, TypeOK, StoreType
  <1>3. store' \in StoreType /\ \E answer \in Answer : Answered(a, r, answer)
    <2>1. Failed \in Answer
      BY WaitingType DEF Failed, Answer
    <2>2. CASE Handle(a, r)
      BY <1>2, <2>2, EffectType, OutcomeType DEF Handle
    <2>3. CASE Refuse(a, r)
      BY <1>2, <2>1, <2>3 DEF Refuse
    <2>4. CASE LoseAnswer(a, r)
      BY <1>2, <2>1, <2>4, EffectType DEF LoseAnswer
    <2> QED  BY <1>1, <2>2, <2>3, <2>4
  <1>4. PICK answer \in Answer : Answered(a, r, answer)
    BY <1>3
  <1> DEFINE b == [a EXCEPT !.calls[r] = answer]
  <1>5. Shaped(b) /\ b.kind = a.kind /\ b.trace = a.trace
    BY <1>2, AnsweredType
  <1>6. functions' = (functions \ {a}) \cup {b}
    BY <1>4 DEF Answered
  <1> HIDE DEF b
  <1> QED  BY <1>1, <1>3, <1>5, <1>6 DEF Handle, Refuse, LoseAnswer

(* What a click does: one more function, its buttons disabled.             *)
Clicked(b) ==
    /\ functions' = functions \cup {b}
    /\ Shaped(b) /\ b.kind # "mount"
    /\ Submits(b) => ~page.busy
    /\ b.kind = "sendFeedback" => b.trace = page.result
    /\ page' \in Page /\ page'.busy /\ page'.result = page.result
    /\ page'.feedbackMessage =
          IF b.kind = "runInference" THEN NoTrace ELSE page.feedbackMessage
    /\ clicks' \in Nat /\ solo' \in BOOLEAN
    /\ UNCHANGED <<store, released>>

LEMMA StartsType ==
    ASSUME TypeOK, NEW kind \in Kind, NEW await \in Await,
           NEW memory \in Memory \cup {NoMemory}, NEW trace \in Trace \cup {NoTrace},
           Starts(kind, await, memory, trace)
    PROVE  \E b \in Pending(await) :
              /\ functions' = functions \cup {b}
              /\ b.kind = kind /\ b.await = await /\ b.memory = memory /\ b.trace = trace
              /\ clicks' \in Nat /\ solo' \in BOOLEAN
              /\ UNCHANGED <<store, released>>
  <1> DEFINE f == Function(kind, await, memory, trace)
             b == [f EXCEPT !.id = clicks']
  <1>1. f \in Pending(await)
    BY FunctionType DEF TypeOK, StoreType
  <1>2. clicks' \in Nat
    BY DEF Starts, TypeOK
  <1>3. b \in Pending(await)
    BY <1>1, <1>2 DEF Pending
  <1>4. b.kind = kind /\ b.await = await /\ b.memory = memory /\ b.trace = trace
    BY DEF Function
  <1>5. functions' = functions \cup {b} /\ solo' \in BOOLEAN /\ UNCHANGED <<store, released>>
    BY DEF Starts
  <1> HIDE DEF b
  <1> QED  BY <1>2, <1>3, <1>4, <1>5

LEMMA BegunType ==
    ASSUME page \in Page, NEW kind
    PROVE  /\ Begun(kind) \in Page /\ Begun(kind).busy
           /\ Begun(kind).result = page.result
           /\ Begun(kind).feedbackMessage = page.feedbackMessage
  BY DEF Begun, Page

LEMMA ClickType == TypeInv /\ Clicking => \E b : Clicked(b)
  <1> SUFFICES ASSUME TypeInv, Clicking PROVE \E b : Clicked(b)
    OBVIOUS
  <1>1. TypeOK /\ page \in Page
    BY DEF TypeInv, TypeOK
  <1>2. page.result \in Trace \cup {NoTrace} /\ page.selectedMemoryId \in Memory \cup {NoMemory}
    BY <1>1 DEF Page
  <1>3. ASSUME NEW m \in Memory, Teach(m) PROVE \E b : Clicked(b)
    <2>1. PICK b \in Pending("explicit") :
             /\ functions' = functions \cup {b}
             /\ b.kind = "teach" /\ b.await = "explicit" /\ b.memory = m
             /\ clicks' \in Nat /\ solo' \in BOOLEAN
             /\ UNCHANGED <<store, released>>
      BY <1>1, <1>3, StartsType DEF Teach, Kind, Await
    <2>2. Shaped(b)
      BY <2>1 DEF Shaped, Await
    <2> QED  BY <1>1, <1>3, <2>1, <2>2, BegunType DEF Teach, Clicked
  <1>4. ASSUME NEW m \in Memory, ObserveCorrection(m) PROVE \E b : Clicked(b)
    <2>1. PICK b \in Pending("correction") :
             /\ functions' = functions \cup {b}
             /\ b.kind = "observeCorrection" /\ b.await = "correction" /\ b.memory = m
             /\ clicks' \in Nat /\ solo' \in BOOLEAN
             /\ UNCHANGED <<store, released>>
      BY <1>1, <1>4, StartsType DEF ObserveCorrection, Kind, Await
    <2>2. Shaped(b)
      BY <2>1 DEF Shaped, Await
    <2> QED  BY <1>1, <1>4, <2>1, <2>2, BegunType DEF ObserveCorrection, Clicked
  <1>5. ASSUME NEW m \in Memory, LoadHistory(m) PROVE \E b : Clicked(b)
    <2>1. PICK b \in Pending("history") :
             /\ functions' = functions \cup {b}
             /\ b.kind = "loadHistory" /\ b.await = "history"
             /\ clicks' \in Nat /\ solo' \in BOOLEAN
             /\ UNCHANGED <<store, released>>
      BY <1>1, <1>5, StartsType DEF LoadHistory, Kind, Await
    <2>2. Shaped(b) /\ ~Submits(b)
      BY <2>1 DEF Shaped, Await, Submits
    <2>3. page' = [Begun("loadHistory") EXCEPT !.selectedMemoryId = m]
      BY <1>5 DEF LoadHistory
    <2>4. /\ page' \in Page /\ page'.busy /\ page'.result = page.result
          /\ page'.feedbackMessage = page.feedbackMessage
      BY <1>1, <2>3, BegunType DEF Page
    <2> QED  BY <2>1, <2>2, <2>4 DEF Clicked
  <1>6. ASSUME RunInference PROVE \E b : Clicked(b)
    <2>1. PICK b \in Pending("infer") :
             /\ functions' = functions \cup {b}
             /\ b.kind = "runInference" /\ b.await = "infer"
             /\ clicks' \in Nat /\ solo' \in BOOLEAN
             /\ UNCHANGED <<store, released>>
      BY <1>1, <1>6, StartsType DEF RunInference, Kind, Await
    <2>2. Shaped(b)
      BY <2>1 DEF Shaped, Await
    <2>3. page' = [Begun("runInference") EXCEPT !.feedbackMessage = NoTrace] /\ ~page.busy
      BY <1>6 DEF RunInference
    <2>4. /\ page' \in Page /\ page'.busy /\ page'.result = page.result
          /\ page'.feedbackMessage = NoTrace
      BY <1>1, <2>3, BegunType DEF Page
    <2> QED  BY <2>1, <2>2, <2>3, <2>4 DEF Clicked
  <1>7. ASSUME SendFeedback PROVE \E b : Clicked(b)
    <2>1. PICK b \in Pending("feedback") :
             /\ functions' = functions \cup {b}
             /\ b.kind = "sendFeedback" /\ b.await = "feedback" /\ b.trace = page.result
             /\ clicks' \in Nat /\ solo' \in BOOLEAN
             /\ UNCHANGED <<store, released>>
      BY <1>1, <1>2, <1>7, StartsType DEF SendFeedback, Kind, Await
    <2>2. Shaped(b)
      BY <2>1 DEF Shaped, Await
    <2> QED  BY <1>1, <1>7, <2>1, <2>2, BegunType DEF SendFeedback, Clicked
  <1>8. ASSUME Reset PROVE \E b : Clicked(b)
    <2>1. PICK b \in Pending("reset") :
             /\ functions' = functions \cup {b}
             /\ b.kind = "reset" /\ b.await = "reset"
             /\ clicks' \in Nat /\ solo' \in BOOLEAN
             /\ UNCHANGED <<store, released>>
      BY <1>1, <1>8, StartsType DEF Reset, Kind, Await
    <2>2. Shaped(b)
      BY <2>1 DEF Shaped, Await
    <2> QED  BY <1>1, <1>8, <2>1, <2>2, BegunType DEF Reset, Clicked
  <1> QED  BY <1>3, <1>4, <1>5, <1>6, <1>7, <1>8 DEF Clicking

(* What a function makes of what it awaited.                               *)
LEMMA AssignedType ==
    ASSUME TypeInv, NEW a \in functions
    PROVE  /\ Assigned(a) \in Page /\ Assigned(a).busy = page.busy
           /\ a.await = "infer" => Assigned(a).feedbackMessage = page.feedbackMessage
           /\ a.await = "feedback" => /\ Assigned(a).feedbackMessage = a.trace
                                      /\ Assigned(a).result = page.result
           /\ a.await = "reset" => /\ Assigned(a).feedbackMessage = NoTrace
                                   /\ Assigned(a).result = NoTrace
           /\ a.await \notin {"infer", "feedback", "reset"} =>
                 /\ Assigned(a).feedbackMessage = page.feedbackMessage
                 /\ Assigned(a).result = page.result
  <1>1. page \in Page /\ Shaped(a)
    BY DEF TypeInv, TypeOK
  <1>2. PICK await \in Await : a \in Pending(await)
    BY <1>1 DEF Shaped
  <1>3. a.await = await /\ a.trace \in Trace \cup {NoTrace} /\ a.memory \in Memory \cup {NoMemory}
        /\ a.calls \in [Requests(await) -> Answer]
    BY <1>2 DEF Pending
  <1>4. CASE await = "infer"
    <2>1. a.calls["infer"] \in Answer
      BY <1>3, <1>4 DEF Requests
    <2>2. Assigned(a) = [page EXCEPT !.result = a.calls["infer"].trace]
      BY <1>3, <1>4 DEF Assigned
    <2> QED  BY <1>1, <1>3, <1>4, <2>1, <2>2 DEF Answer, Page
  <1>5. CASE await = "feedback"
    BY <1>1, <1>3, <1>5 DEF Assigned, Page
  <1>6. CASE await = "refresh"
    <2>1. a.calls["memories"] \in Answer /\ a.calls["conflicts"] \in Answer
      BY <1>3, <1>6 DEF Requests
    <2>2. Assigned(a) = [page EXCEPT !.memories = a.calls["memories"].listing,
                                     !.conflicts = a.calls["conflicts"].listing]
      BY <1>3, <1>6 DEF Assigned
    <2> QED  BY <1>1, <1>3, <1>6, <2>1, <2>2 DEF Answer, Page
  <1>7. CASE await = "history"
    BY <1>1, <1>3, <1>7 DEF Assigned, Page
  <1>8. CASE await = "reset"
    BY <1>1, <1>3, <1>8 DEF Assigned, Page
  <1>9. CASE await \in {"explicit", "correction"}
    BY <1>1, <1>3, <1>9 DEF Assigned, Page
  <1> QED  BY <1>4, <1>5, <1>6, <1>7, <1>8, <1>9 DEF Await

(* A function that ends: it alone is gone, and unless it is the first      *)
(* refresh the buttons are enabled, which is noted when others wait.       *)
Ended(a) ==
    /\ functions' = functions \ {a}
    /\ page' \in Page
    /\ page'.busy = (a.kind = "mount" /\ page.busy)
    /\ released' = (released \/ (page.busy /\ ~page'.busy /\ functions' # {}))
    /\ released' \in BOOLEAN /\ solo' \in BOOLEAN
    /\ UNCHANGED <<store, clicks>>

LEMMA ThrowType ==
    ASSUME TypeInv, NEW a \in functions, Throw(a)
    PROVE  Ended(a) /\ page'.feedbackMessage = page.feedbackMessage /\ page'.result = page.result
  <1>1. page \in Page /\ released \in BOOLEAN
    BY DEF TypeInv, TypeOK
  <1>2. page' = [page EXCEPT !.error = TRUE, !.busy = (a.kind = "mount" /\ page.busy)]
    BY DEF Throw, Caught
  <1>3. /\ page' \in Page /\ page'.busy = (a.kind = "mount" /\ page.busy)
        /\ page'.feedbackMessage = page.feedbackMessage /\ page'.result = page.result
    BY <1>1, <1>2 DEF Page
  <1>4. /\ functions' = functions \ {a}
        /\ released' = (released \/ (page.busy /\ ~page'.busy /\ functions' # {}))
        /\ solo' = FALSE /\ UNCHANGED <<store, clicks>>
    BY DEF Throw, Ends
  <1> QED  BY <1>1, <1>3, <1>4 DEF Ended

LEMMA ReturnType ==
    ASSUME TypeInv, NEW a \in functions, Return(a)
    PROVE  /\ Ended(a) /\ page'.feedbackMessage = Assigned(a).feedbackMessage
           /\ page'.result = Assigned(a).result
           /\ a.await \notin {"feedback", "reset"}
  <1>1. Assigned(a) \in Page /\ Assigned(a).busy = page.busy /\ released \in BOOLEAN
        /\ solo \in BOOLEAN
    BY AssignedType DEF TypeInv, TypeOK
  <1>2. page' = [Assigned(a) EXCEPT !.busy = (a.kind = "mount" /\ Assigned(a).busy)]
    BY DEF Return
  <1>3. /\ page' \in Page /\ page'.busy = (a.kind = "mount" /\ page.busy)
        /\ page'.feedbackMessage = Assigned(a).feedbackMessage
        /\ page'.result = Assigned(a).result
    BY <1>1, <1>2 DEF Page
  <1>4. /\ functions' = functions \ {a}
        /\ released' = (released \/ (page.busy /\ ~page'.busy /\ functions' # {}))
        /\ solo' = solo /\ UNCHANGED <<store, clicks>>
    BY DEF Return, Ends
  <1>5. a.await \notin {"feedback", "reset"}
    BY DEF Return, NextAwait
  <1> QED  BY <1>1, <1>3, <1>4, <1>5 DEF Ended

(* A function that runs on to its next await.                              *)
Continued(a, b) ==
    /\ functions' = (functions \ {a}) \cup {b}
    /\ Shaped(b) /\ b.kind = a.kind /\ b.trace = a.trace
    /\ page' \in Page /\ (page.busy => page'.busy)
    /\ page'.result = Assigned(a).result
    /\ page'.feedbackMessage = Assigned(a).feedbackMessage
    /\ a.await # "infer"
    /\ UNCHANGED <<store, clicks, solo, released>>

LEMMA ContinueType ==
    ASSUME TypeInv, NEW a \in functions, Continue(a)
    PROVE  \E b : Continued(a, b)
  <1>1. /\ Shaped(a) /\ Assigned(a) \in Page /\ Assigned(a).busy = page.busy
    BY AssignedType DEF TypeInv
  <1>2. PICK await \in Await : a \in Pending(await)
    BY <1>1 DEF Shaped
  <1>3. a.await \in {"explicit", "correction", "feedback", "reset", "refresh"}
        /\ NextAwait(a) \in {"refresh", "history"} /\ a.await # "infer"
    BY DEF Continue, NextAwait
  <1> DEFINE next == NextAwait(a)
             b == [a EXCEPT !.await = next, !.calls = Awaiting(next)]
  <1>4. b \in Pending(next)
    <2>1. next \in Await /\ Awaiting(next) \in [Requests(next) -> Answer]
      BY <1>3, AwaitingType DEF Await
    <2> HIDE DEF next
    <2> QED  BY <1>2, <2>1 DEF Pending
  <1>5. b.kind = a.kind /\ b.trace = a.trace /\ b.await = next
    BY <1>2 DEF Pending
  <1>6. a.kind # "runInference"
    BY <1>1, <1>3 DEF Shaped
  <1>7. Shaped(b)
    BY <1>3, <1>4, <1>5, <1>6 DEF Shaped, Await
  <1>8. a.memory \in Memory \cup {NoMemory}
    BY <1>2 DEF Pending
  <1>9. /\ page' \in Page /\ (page.busy => page'.busy)
        /\ page'.result = Assigned(a).result
        /\ page'.feedbackMessage = Assigned(a).feedbackMessage
    <2>1. CASE next = "history"
      <3>1. page' = [Assigned(a) EXCEPT !.busy = TRUE, !.error = FALSE,
                                        !.selectedMemoryId = a.memory]
        BY <2>1 DEF Continue
      <3> QED  BY <1>1, <1>8, <3>1 DEF Page
    <2>2. CASE next # "history"
      <3>1. page' = Assigned(a)
        BY <2>2 DEF Continue
      <3> QED  BY <1>1, <3>1
    <2> QED  BY <2>1, <2>2
  <1>10. functions' = (functions \ {a}) \cup {b} /\ UNCHANGED <<store, clicks, solo, released>>
    BY DEF Continue
  <1> HIDE DEF b, next
  <1>11. Continued(a, b)
    BY <1>3, <1>5, <1>7, <1>9, <1>10 DEF Continued
  <1> QED  BY <1>11

-----------------------------------------------------------------------------
(* Types.                                                                  *)
LEMMA InitType == Init => TypeInv
  <1> SUFFICES ASSUME Init PROVE TypeInv
    OBVIOUS
  <1>1. store \in StoreType /\ clicks \in Nat
    BY DEF Init, StoreType
  <1>2. page \in Page
    BY DEF Init, NoPage, Page, Listing, NoListing
  <1> DEFINE f == Function("mount", "refresh", NoMemory, NoTrace)
  <1>3. f \in Pending("refresh")
    BY <1>1, FunctionType DEF Kind, Await
  <1>4. Shaped(f)
    BY <1>3 DEF Shaped, Function, Await
  <1>5. functions = {f}
    BY DEF Init
  <1> HIDE DEF f
  <1> QED  BY <1>1, <1>2, <1>4, <1>5 DEF Init, TypeInv, TypeOK, StoreType, Shaped

LEMMA ResumeType ==
    ASSUME TypeInv, Resume
    PROVE  \E a \in functions : Throw(a) \/ Return(a) \/ \E b : Continued(a, b)
  BY ContinueType DEF Resume

LEMMA NextType == TypeInv /\ [Next]_vars => TypeInv'
  <1> SUFFICES ASSUME TypeInv, [Next]_vars PROVE TypeInv'
    OBVIOUS
  <1>1. SUFFICES /\ store' \in StoreType /\ page' \in Page /\ clicks' \in Nat
                 /\ solo' \in BOOLEAN /\ released' \in BOOLEAN
                 /\ \A a \in functions' : Shaped(a)
    BY <1>1 DEF TypeInv, TypeOK, StoreType, Shaped
  <1>2. /\ store \in StoreType /\ page \in Page /\ clicks \in Nat
        /\ solo \in BOOLEAN /\ released \in BOOLEAN
        /\ \A a \in functions : Shaped(a)
    BY DEF TypeInv, TypeOK, StoreType
  <1>3. CASE UNCHANGED vars
    BY <1>2, <1>3 DEF vars
  <1>4. CASE Clicking
    <2>1. PICK b : Clicked(b)
      BY <1>4, ClickType
    <2> QED  BY <1>2, <2>1 DEF Clicked
  <1>5. CASE Serve
    BY <1>2, <1>5, ServeType
  <1>6. CASE Resume
    <2>1. PICK a \in functions : Throw(a) \/ Return(a) \/ \E b : Continued(a, b)
      BY <1>6, ResumeType
    <2>2. CASE Throw(a) \/ Return(a)
      <3>1. Ended(a)
        BY <2>2, ThrowType, ReturnType
      <3> QED  BY <1>2, <3>1 DEF Ended
    <2>3. CASE \E b : Continued(a, b)
      BY <1>2, <2>3 DEF Continued
    <2> QED  BY <2>1, <2>2, <2>3
  <1> QED  BY <1>3, <1>4, <1>5, <1>6 DEF Next

(* Every waiting function is one of the page's, with the requests and the  *)
(* answers of what it awaits, and the page shows listings, a result and    *)
(* memories that the service gave it.                                      *)
THEOREM TypeCorrect == Spec => []TypeOK
  <1>1. TypeInv => TypeOK
    BY DEF TypeInv
  <1> QED  BY InitType, NextType, <1>1, PTL DEF Spec

-----------------------------------------------------------------------------
(* What one function submits.                                              *)
LEMMA InitInv == Init => IInv
  BY DEF Init, IInv, BusyCovers, SubmitsAlone, Submits, Messages, MessageOK, Function,
         NoPage, NoTrace

(* Functions that stay the same kind submit as before.                     *)
LEMMA Replaced ==
    ASSUME NEW a \in functions, NEW b, functions' = (functions \ {a}) \cup {b},
           b.kind = a.kind, SubmitsAlone
    PROVE  SubmitsAlone'
  BY DEF SubmitsAlone, Submits

LEMMA NextInv == TypeInv /\ IInv /\ [Next]_vars => IInv'
  <1> SUFFICES ASSUME TypeInv, IInv, [Next]_vars, ~released' PROVE IInv'
    BY DEF IInv
  <1> SUFFICES BusyCovers' /\ SubmitsAlone' /\ Messages'
    BY DEF IInv
  <1>1. CASE UNCHANGED vars
    BY <1>1 DEF vars, IInv, BusyCovers, SubmitsAlone, Submits, Messages, MessageOK
  <1>2. CASE Clicking
    <2>1. PICK b : Clicked(b)
      BY <1>2, ClickType
    <2>2. BusyCovers /\ SubmitsAlone /\ Messages
      BY <2>1 DEF Clicked, IInv
    <2>3. BusyCovers'
      BY <2>1 DEF Clicked, BusyCovers
    <2>4. Submits(b) => \A a \in functions : ~Submits(a)
      BY <2>1, <2>2 DEF Clicked, BusyCovers, Submits
    <2>5. SubmitsAlone'
      BY <2>1, <2>2, <2>4 DEF Clicked, SubmitsAlone, Submits
    <2>6. Messages'
      <3>1. MessageOK(b)'
        <4>1. b.kind = "sendFeedback" => b.trace = page'.result
          BY <2>1 DEF Clicked
        <4>2. b.kind = "runInference" => page'.feedbackMessage = NoTrace
          BY <2>1 DEF Clicked
        <4> QED  BY <4>1, <4>2 DEF MessageOK
      <3>2. page'.result = page.result /\ page'.feedbackMessage \in {NoTrace, page.feedbackMessage}
        BY <2>1 DEF Clicked
      <3>3. \A a \in functions : MessageOK(a)'
        BY <2>2, <3>2 DEF Messages, MessageOK
      <3>4. page'.feedbackMessage \in {NoTrace, page'.result}
        BY <2>2, <3>2 DEF Messages
      <3>5. functions' = functions \cup {b}
        BY <2>1 DEF Clicked
      <3> QED  BY <3>1, <3>3, <3>4, <3>5 DEF Messages
    <2> QED  BY <2>3, <2>5, <2>6
  <1>3. CASE Serve
    <2>1. PICK a \in functions : \E b :
             functions' = (functions \ {a}) \cup {b} /\ b.kind = a.kind /\ b.trace = a.trace
      BY <1>3, ServeType
    <2>2. PICK b :
             functions' = (functions \ {a}) \cup {b} /\ b.kind = a.kind /\ b.trace = a.trace
      BY <2>1
    <2>3. page' = page /\ released' = released
      BY <1>3, ServeType
    <2>4. BusyCovers /\ SubmitsAlone /\ Messages
      BY <2>3 DEF IInv
    <2>5. BusyCovers'
      BY <2>2, <2>3, <2>4 DEF BusyCovers
    <2>6. SubmitsAlone'
      BY <2>2, <2>4, Replaced
    <2>7. Messages'
      BY <2>2, <2>3, <2>4 DEF Messages, MessageOK
    <2> QED  BY <2>5, <2>6, <2>7
  <1>4. CASE Resume
    <2>1. PICK a \in functions : Throw(a) \/ Return(a) \/ \E b : Continued(a, b)
      BY <1>4, ResumeType
    <2>2. ~released
      BY <2>1, ThrowType, ReturnType DEF Ended, Continued
    <2>3. BusyCovers /\ SubmitsAlone /\ Messages /\ Shaped(a)
      BY <2>2 DEF IInv, TypeInv
    <2>4. MessageOK(a) /\ \A b \in functions : Submits(a) /\ Submits(b) => a = b
      BY <2>3 DEF Messages, SubmitsAlone
    <2>5. CASE Throw(a) \/ Return(a)
      <3>1. Ended(a)
        BY <2>5, ThrowType, ReturnType
      <3>2. a.kind = "mount" => page'.busy = page.busy
        BY <3>1, <2>3 DEF Ended, TypeInv, TypeOK, Page
      <3>3. a.kind # "mount" => functions' = {}
        BY <3>1, <2>3 DEF Ended, BusyCovers
      <3>4. functions' \subseteq functions
        BY <3>1 DEF Ended
      <3>5. BusyCovers'
        BY <2>3, <3>2, <3>3, <3>4 DEF BusyCovers
      <3>6. SubmitsAlone'
        BY <2>3, <3>4 DEF SubmitsAlone
      <3>7. page'.feedbackMessage \in {NoTrace, page'.result}
            /\ (a.kind = "mount" => /\ page'.feedbackMessage = page.feedbackMessage
                                    /\ page'.result = page.result)
        <4>1. CASE Throw(a)
          BY <2>3, <4>1, ThrowType DEF Messages
        <4>2. CASE Return(a) /\ a.await = "infer"
          <5>1. page'.feedbackMessage = page.feedbackMessage /\ a.kind = "runInference"
            BY <2>3, <4>2, ReturnType, AssignedType DEF Shaped
          <5> QED  BY <2>4, <5>1 DEF MessageOK
        <4>3. CASE Return(a) /\ a.await # "infer"
          <5>1. /\ page'.feedbackMessage = page.feedbackMessage
                /\ page'.result = page.result
            BY <4>3, ReturnType, AssignedType
          <5> QED  BY <2>3, <5>1 DEF Messages
        <4> QED  BY <2>5, <4>1, <4>2, <4>3
      <3>8. Messages'
        BY <2>3, <3>3, <3>4, <3>7 DEF Messages, MessageOK
      <3> QED  BY <3>5, <3>6, <3>8
    <2>6. CASE \E b : Continued(a, b)
      <3>1. PICK b : Continued(a, b)
        BY <2>6
      <3>2. functions' = (functions \ {a}) \cup {b} /\ b.kind = a.kind /\ b.trace = a.trace
            /\ (page.busy => page'.busy)
        BY <3>1 DEF Continued
      <3>3. BusyCovers'
        BY <2>3, <3>2 DEF BusyCovers
      <3>4. SubmitsAlone'
        BY <2>3, <3>2, Replaced
      <3>5. /\ page'.feedbackMessage = Assigned(a).feedbackMessage
            /\ page'.result = Assigned(a).result /\ a.await # "infer"
        BY <3>1 DEF Continued
      <3>6. Messages'
        <4>1. CASE a.await = "feedback"
          <5>1. a.kind = "sendFeedback" /\ a.trace = page.result
            BY <2>3, <2>4, <4>1 DEF Shaped, MessageOK
          <5>2. page'.feedbackMessage = a.trace /\ page'.result = page.result
            BY <3>5, <4>1, AssignedType
          <5>3. \A d \in functions' : d.kind # "runInference"
            BY <2>4, <3>2, <5>1 DEF Submits
          <5> QED  BY <2>3, <3>2, <5>1, <5>2, <5>3 DEF Messages, MessageOK
        <4>2. CASE a.await = "reset"
          <5>1. a.kind = "reset"
            BY <2>3, <4>2 DEF Shaped
          <5>2. page'.feedbackMessage = NoTrace /\ page'.result = NoTrace
            BY <3>5, <4>2, AssignedType
          <5>3. \A d \in functions' : d.kind \notin {"runInference", "sendFeedback"}
            BY <2>4, <3>2, <5>1 DEF Submits
          <5> QED  BY <5>2, <5>3 DEF Messages, MessageOK
        <4>3. CASE a.await \notin {"feedback", "reset"}
          <5>1. page'.feedbackMessage = page.feedbackMessage /\ page'.result = page.result
            BY <3>5, <4>3, AssignedType
          <5> QED  BY <2>3, <3>2, <5>1 DEF Messages, MessageOK
        <4> QED  BY <4>1, <4>2, <4>3
      <3> QED  BY <3>3, <3>4, <3>6
    <2> QED  BY <2>1, <2>5, <2>6
  <1> QED  BY <1>1, <1>2, <1>3, <1>4 DEF Next

(* The page has one request to teach, infer, correct, judge or reset under *)
(* way while busy has not been cleared under a waiting function.           *)
THEOREM PageSubmitsOnce == Spec => []SubmitsOnce
  <1>1. IInv => SubmitsOnce
    BY DEF IInv, SubmitsAlone, SubmitsOnce
  <1> QED  BY InitType, NextType, InitInv, NextInv, <1>1, PTL DEF Spec

(* The message under a result is about the verdict on that result, as long *)
(* as the page submits once.                                               *)
THEOREM MessageFitsResult == Spec => []MessageFits
  <1>1. IInv => MessageFits
    BY DEF IInv, Messages, MessageFits
  <1> QED  BY InitType, NextType, InitInv, NextInv, <1>1, PTL DEF Spec

-----------------------------------------------------------------------------
(* The page after a function that ran alone.                               *)
(* The awaits of each function.                                            *)
OnCourse(a) ==
    /\ a.kind = "mount" => a.await = "refresh"
    /\ a.kind = "teach" => a.await \in {"explicit", "refresh"}
    /\ a.kind = "runInference" => a.await = "infer"
    /\ a.kind = "observeCorrection" => a.await \in {"correction", "refresh"}
    /\ a.kind = "sendFeedback" => a.await \in {"feedback", "refresh", "history"}
    /\ a.kind = "loadHistory" => a.await = "history"
    /\ a.kind = "reset" => a.await \in {"reset", "refresh"}

(* The service is as the function a found it.                              *)
Untouched(a) == store.version = a.since

(* What a function that runs alone can rely on: until its write is         *)
(* answered the service is as it was, and a listing it was given is still  *)
(* the present one.                                                        *)
Relies(a) ==
    /\ a.kind \in {"mount", "runInference", "loadHistory"} => Untouched(a)
    /\ a.await \in {"explicit", "correction", "feedback", "reset"} =>
          LET call == a.calls[a.await] IN
          \/ Untouched(a)
          \/ call.status = "failed"
          \/ call.status = "ok" /\ (a.await = "correction" => call.memory # NoMemory)
    /\ a.await = "refresh" =>
          \A r \in Requests("refresh") :
             a.calls[r].status = "ok" => a.calls[r].listing = Listed
    /\ a.kind = "sendFeedback" /\ a.await = "history" =>
          page.memories = Listed /\ page.conflicts = Listed
    /\ a.kind = "reset" /\ a.await = "refresh" =>
          /\ page.result = NoTrace /\ page.feedbackMessage = NoTrace
          /\ page.selectedMemoryId = NoMemory /\ page.history = NoMemory
    /\ a.kind = "loadHistory" => a.memory = page.selectedMemoryId

SoloInv ==
    /\ \A a \in functions : OnCourse(a)
    /\ solo => /\ \A a, b \in functions : a = b
               /\ \A a \in functions : Relies(a)

LEMMA SoloInit == Init => SoloInv
  <1> SUFFICES ASSUME Init PROVE SoloInv
    OBVIOUS
  <1> DEFINE f == Function("mount", "refresh", NoMemory, NoTrace)
  <1>1. functions = {f}
    BY DEF Init
  <1>2. /\ f.kind = "mount" /\ f.await = "refresh" /\ f.since = store.version
        /\ f.calls = [r \in Requests("refresh") |-> Waiting]
    BY DEF Function, Awaiting
  <1> HIDE DEF f
  <1>3. OnCourse(f)
    BY <1>2 DEF OnCourse
  <1>4. \A r \in Requests("refresh") : f.calls[r].status = "waiting"
    BY <1>2 DEF Waiting
  <1>5. Relies(f)
    BY <1>2, <1>4 DEF Relies, Untouched
  <1> QED  BY <1>1, <1>3, <1>5 DEF SoloInv

(* A click begins a function that found the service as it is.              *)
Begins(b) ==
    /\ functions' = functions \cup {b}
    /\ solo' = (functions = {})
    /\ store' = store
    /\ b.since = store.version
    /\ OnCourse(b)
    /\ b.await # "refresh"
    /\ b.await = "history" => b.kind = "loadHistory" /\ b.memory = page'.selectedMemoryId

LEMMA StartsBegins ==
    ASSUME NEW kind, NEW await, NEW memory, NEW trace, Starts(kind, await, memory, trace)
    PROVE  \E b : /\ functions' = functions \cup {b}
                  /\ solo' = (functions = {})
                  /\ store' = store
                  /\ b.since = store.version
                  /\ b.kind = kind /\ b.await = await /\ b.memory = memory
  <1> DEFINE b == [Function(kind, await, memory, trace) EXCEPT !.id = clicks']
  <1>1. b.since = store.version /\ b.kind = kind /\ b.await = await /\ b.memory = memory
    BY DEF Function
  <1>2. /\ functions' = functions \cup {b}
        /\ solo' = (functions = {})
        /\ store' = store
    BY DEF Starts
  <1> HIDE DEF b
  <1> QED  BY <1>1, <1>2

LEMMA ClickBegins == TypeInv /\ Clicking => \E b : Begins(b)
  <1> SUFFICES ASSUME TypeInv, Clicking PROVE \E b : Begins(b)
    OBVIOUS
  <1>1. ASSUME NEW m \in Memory, Teach(m) PROVE \E b : Begins(b)
    BY <1>1, StartsBegins DEF Teach, Begins, OnCourse
  <1>2. ASSUME NEW m \in Memory, ObserveCorrection(m) PROVE \E b : Begins(b)
    BY <1>2, StartsBegins DEF ObserveCorrection, Begins, OnCourse
  <1>3. ASSUME NEW m \in Memory, LoadHistory(m) PROVE \E b : Begins(b)
    <2>1. page \in Page
      BY DEF TypeInv, TypeOK
    <2>2. page'.selectedMemoryId = m
      BY <1>3, <2>1 DEF LoadHistory, Begun, Page
    <2> QED  BY <1>3, <2>2, StartsBegins DEF LoadHistory, Begins, OnCourse
  <1>4. ASSUME RunInference PROVE \E b : Begins(b)
    BY <1>4, StartsBegins DEF RunInference, Begins, OnCourse
  <1>5. ASSUME SendFeedback PROVE \E b : Begins(b)
    BY <1>5, StartsBegins DEF SendFeedback, Begins, OnCourse
  <1>6. ASSUME Reset PROVE \E b : Begins(b)
    BY <1>6, StartsBegins DEF Reset, Begins, OnCourse
  <1> QED  BY <1>1, <1>2, <1>3, <1>4, <1>5, <1>6 DEF Clicking

(* The service answers or refuses one request of a function.               *)
Answers(a, r, answer) ==
    /\ a.calls[r].status = "waiting"
    /\ functions' = (functions \ {a}) \cup {[a EXCEPT !.calls[r] = answer]}
    /\ UNCHANGED <<page, solo>>
    /\ \/ answer.status = "failed" /\ store' = store
       \/ answer.status = "failed" /\ \E lost \in Outcomes : Effect(a, r, lost)
       \/ answer \in Outcomes /\ answer.status = "ok" /\ Effect(a, r, answer)

LEMMA ServeAnswers ==
    ASSUME TypeInv, Serve
    PROVE  \E a \in functions : \E r \in DOMAIN a.calls : \E answer \in Answer :
              Answers(a, r, answer)
  <1>0. PICK a \in functions : \E r \in DOMAIN a.calls :
           /\ a.calls[r].status = "waiting"
           /\ Handle(a, r) \/ Refuse(a, r) \/ LoseAnswer(a, r)
    BY DEF Serve
  <1>1. PICK r \in DOMAIN a.calls :
           /\ a.calls[r].status = "waiting"
           /\ Handle(a, r) \/ Refuse(a, r) \/ LoseAnswer(a, r)
    BY <1>0
  <1>2. Failed \in Answer /\ Failed.status = "failed"
    BY WaitingType DEF Failed, Answer, Waiting
  <1>3. CASE Refuse(a, r)
    BY <1>1, <1>2, <1>3 DEF Refuse, Answered, Answers
  <1>4. CASE LoseAnswer(a, r)
    BY <1>1, <1>2, <1>4 DEF LoseAnswer, Answered, Answers
  <1>5. CASE Handle(a, r)
    <2>1. PICK answer \in Outcomes : Effect(a, r, answer) /\ Answered(a, r, answer)
      BY <1>5 DEF Handle
    <2>2. answer \in Answer
      BY <2>1, OutcomeType DEF TypeInv, TypeOK, StoreType
    <2>3. answer.status = "ok"
      BY <2>1 DEF Outcomes, Waiting
    <2> QED  BY <1>1, <1>5, <2>1, <2>2, <2>3 DEF Handle, Answered, Answers
  <1> QED  BY <1>1, <1>3, <1>4, <1>5

(* What the readings tell, and which requests change the listing.          *)
LEMMA EffectListing ==
    ASSUME store \in StoreType, NEW a, NEW r, NEW answer, Effect(a, r, answer)
    PROVE  /\ r \in {"infer", "memories", "conflicts", "history"} =>
                 store'.version = store.version /\ store'.ids = store.ids
           /\ r \in {"memories", "conflicts"} => answer.listing = Listed
           /\ r = "correction" /\ answer.memory = NoMemory /\ a.memory # NoMemory =>
                 store' = store
  <1>1. CASE r = "infer"
    BY <1>1 DEF Effect, Deciding, StoreType
  <1>2. CASE r \in {"memories", "conflicts"}
    BY <1>2 DEF Effect, Listings, Waiting
  <1>3. CASE r = "history"
    BY <1>3 DEF Effect, Versions
  <1>4. CASE r = "correction"
    BY <1>4 DEF Effect, Observing, Teaching, Waiting
  <1> QED  BY <1>1, <1>2, <1>3, <1>4

LEMMA AnsweredRelies ==
    ASSUME TypeInv, NEW a \in functions, OnCourse(a), Relies(a), NEW r \in DOMAIN a.calls,
           NEW answer \in Answer, Answers(a, r, answer)
    PROVE  LET b == [a EXCEPT !.calls[r] = answer] IN OnCourse(b) /\ Relies(b)'
  <1> DEFINE b == [a EXCEPT !.calls[r] = answer]
  <1>1. store \in StoreType /\ Shaped(a)
    BY DEF TypeInv, TypeOK, StoreType
  <1>2. PICK await \in Await : a \in Pending(await)
    BY <1>1 DEF Shaped
  <1>3. /\ a.await = await /\ a.calls \in [Requests(await) -> Answer]
        /\ r \in Requests(await)
    BY <1>2 DEF Pending
  <1>4. /\ b.kind = a.kind /\ b.await = await /\ b.memory = a.memory /\ b.since = a.since
        /\ b.calls[r] = answer
        /\ \A s \in Requests(await) : s # r => b.calls[s] = a.calls[s]
    BY <1>2, <1>3 DEF Pending
  <1> HIDE DEF b
  <1>5. OnCourse(b)
    BY <1>3, <1>4 DEF OnCourse
  <1>6. /\ a.calls[r].status = "waiting" /\ page' = page
        /\ \/ answer.status = "failed" /\ store' = store
           \/ answer.status = "failed" /\ \E lost \in Outcomes : Effect(a, r, lost)
           \/ answer.status = "ok" /\ Effect(a, r, answer)
    BY DEF Answers
  <1>7. CASE await \in {"explicit", "correction", "feedback", "reset"}
    <2>1. r = await
      BY <1>3, <1>7 DEF Requests
    <2>2. Untouched(a)
      BY <1>3, <1>6, <1>7, <2>1 DEF Relies
    <2>3. await = "correction" => a.memory # NoMemory
      BY <1>1, <1>3, ClientAssumption DEF Shaped
    <2>4. answer.status = "ok" /\ await = "correction" /\ answer.memory = NoMemory
            => store' = store
      BY <1>1, <1>6, <2>1, <2>3, EffectListing
    <2>5. store' = store => Untouched(b)'
      BY <1>4, <2>2 DEF Untouched
    <2>6. \/ Untouched(b)'
          \/ answer.status = "failed"
          \/ answer.status = "ok" /\ (await = "correction" => answer.memory # NoMemory)
      BY <1>6, <2>4, <2>5
    <2>7. a.kind \notin {"mount", "runInference", "loadHistory"}
      BY <1>1, <1>3, <1>7 DEF OnCourse
    <2>8. Relies(b)'
      BY <1>4, <1>7, <2>1, <2>6, <2>7 DEF Relies
    <2> QED  BY <1>5, <2>8 DEF b
  <1>8. CASE await \in {"infer", "refresh", "history"}
    <2>1. r \in {"infer", "memories", "conflicts", "history"}
      BY <1>3, <1>8 DEF Requests
    <2>2. store'.version = store.version /\ store'.ids = store.ids
      BY <1>1, <1>6, <2>1, EffectListing
    <2>3. Listed' = Listed
      BY <2>2 DEF Listed
    <2>4. Untouched(a) => Untouched(b)'
      BY <1>4, <2>2 DEF Untouched
    <2>5. await = "refresh" =>
            \A s \in Requests("refresh") : b.calls[s].status = "ok" => b.calls[s].listing = Listed'
      <3>1. ASSUME await = "refresh", NEW s \in Requests("refresh"), b.calls[s].status = "ok"
            PROVE  b.calls[s].listing = Listed'
        <4>1. CASE s = r
          <5>1. r \in {"memories", "conflicts"}
            BY <3>1, <4>1 DEF Requests
          <5>2. answer.status = "ok"
            BY <1>4, <3>1, <4>1
          <5>3. Effect(a, r, answer)
            BY <1>6, <5>2
          <5>4. answer.listing = Listed
            BY <1>1, <5>1, <5>3, EffectListing
          <5> QED  BY <1>4, <2>3, <4>1, <5>4
        <4>2. CASE s # r
          BY <1>3, <1>4, <2>3, <3>1, <4>2 DEF Relies
        <4> QED  BY <4>1, <4>2
      <3> QED  BY <3>1
    <2>6. /\ a.kind \in {"mount", "runInference", "loadHistory"} => Untouched(a)
          /\ a.kind = "sendFeedback" /\ await = "history" =>
                page.memories = Listed /\ page.conflicts = Listed
          /\ a.kind = "reset" /\ await = "refresh" =>
                /\ page.result = NoTrace /\ page.feedbackMessage = NoTrace
                /\ page.selectedMemoryId = NoMemory /\ page.history = NoMemory
          /\ a.kind = "loadHistory" => a.memory = page.selectedMemoryId
      BY <1>3 DEF Relies
    <2>7. Relies(b)'
      BY <1>4, <1>6, <1>8, <2>3, <2>4, <2>5, <2>6 DEF Relies
    <2> QED  BY <1>5, <2>7 DEF b
  <1> QED  BY <1>7, <1>8 DEF Await

LEMMA ContinuedRelies ==
    ASSUME TypeInv, NEW a \in functions, OnCourse(a), Continue(a)
    PROVE  \E b : /\ functions' = (functions \ {a}) \cup {b}
                  /\ UNCHANGED <<store, solo>>
                  /\ OnCourse(b)
                  /\ Relies(a) => Relies(b)'
  <1> DEFINE next == NextAwait(a)
             b == [a EXCEPT !.await = next, !.calls = Awaiting(next)]
  <1>1. page \in Page /\ Shaped(a)
    BY DEF TypeInv, TypeOK
  <1>2. PICK await \in Await : a \in Pending(await)
    BY <1>1 DEF Shaped
  <1>3. a.await = await /\ DOMAIN a.calls = Requests(await)
    BY <1>2 DEF Pending
  <1>4. /\ b.kind = a.kind /\ b.await = next /\ b.memory = a.memory /\ b.since = a.since
        /\ b.calls = Awaiting(next)
    BY <1>2 DEF Pending
  <1>5. /\ next \in {"refresh", "history"}
        /\ next = "refresh" => await \in {"explicit", "correction", "feedback", "reset"}
        /\ next = "history" => await = "refresh" /\ a.kind = "sendFeedback"
    BY <1>3 DEF Continue, NextAwait
  <1>6. /\ functions' = (functions \ {a}) \cup {b} /\ UNCHANGED <<store, solo>>
        /\ \A r \in Requests(await) : a.calls[r].status = "ok"
        /\ next = "refresh" => page' = Assigned(a)
        /\ next = "history" => page' = [Assigned(a) EXCEPT !.busy = TRUE, !.error = FALSE,
                                                           !.selectedMemoryId = a.memory]
    BY <1>3 DEF Continue, Settled
  <1> HIDE DEF b, next
  <1>7. OnCourse(b)
    BY <1>3, <1>4, <1>5 DEF OnCourse
  <1>8. ASSUME Relies(a)
        PROVE  Relies(b)'
    <2>1. a.kind \notin {"mount", "runInference", "loadHistory"}
      BY <1>3, <1>5 DEF OnCourse
    <2>2. Listed' = Listed
      BY <1>6 DEF Listed
    <2>3. next = "refresh" => \A r \in Requests("refresh") : b.calls[r].status = "waiting"
      BY <1>4 DEF Awaiting, Waiting
    <2>4. next = "history" => page'.memories = Listed' /\ page'.conflicts = Listed'
      <3> SUFFICES ASSUME next = "history"
                   PROVE  page'.memories = Listed' /\ page'.conflicts = Listed'
        OBVIOUS
      <3>1. await = "refresh" /\ "memories" \in Requests(await) /\ "conflicts" \in Requests(await)
        BY <1>5 DEF Requests
      <3>2. a.calls["memories"].listing = Listed /\ a.calls["conflicts"].listing = Listed
        BY <1>3, <1>6, <1>8, <3>1 DEF Relies
      <3>3. Assigned(a) = [page EXCEPT !.memories = Listed, !.conflicts = Listed]
        BY <1>3, <3>1, <3>2 DEF Assigned
      <3>4. Assigned(a).memories = Listed /\ Assigned(a).conflicts = Listed
        BY <1>1, <3>3 DEF Page
      <3>5. Assigned(a) \in Page
        BY AssignedType
      <3> QED  BY <1>6, <2>2, <3>4, <3>5 DEF Page
    <2>5. a.kind = "reset" /\ next = "refresh" =>
            /\ page'.result = NoTrace /\ page'.feedbackMessage = NoTrace
            /\ page'.selectedMemoryId = NoMemory /\ page'.history = NoMemory
      <3> SUFFICES ASSUME a.kind = "reset", next = "refresh"
                   PROVE  /\ page'.result = NoTrace /\ page'.feedbackMessage = NoTrace
                          /\ page'.selectedMemoryId = NoMemory /\ page'.history = NoMemory
        OBVIOUS
      <3>1. await = "reset"
        BY <1>3, <1>5 DEF OnCourse
      <3>2. Assigned(a) = [page EXCEPT !.result = NoTrace, !.history = NoMemory,
                                       !.selectedMemoryId = NoMemory,
                                       !.feedbackMessage = NoTrace]
        BY <1>3, <3>1 DEF Assigned
      <3>3. page' = Assigned(a)
        BY <1>6
      <3> QED  BY <1>1, <3>2, <3>3 DEF Page
    <2> QED  BY <1>4, <1>5, <2>1, <2>3, <2>4, <2>5 DEF Relies
  <1> QED  BY <1>6, <1>7, <1>8

LEMMA SoloNext == TypeInv /\ SoloInv /\ [Next]_vars => SoloInv'
  <1> SUFFICES ASSUME TypeInv, SoloInv, [Next]_vars PROVE SoloInv'
    OBVIOUS
  <1>1. /\ \A a \in functions : OnCourse(a)
        /\ solo => /\ \A a, b \in functions : a = b
                   /\ \A a \in functions : Relies(a)
    BY DEF SoloInv
  <1>2. CASE UNCHANGED vars
    <2>1. \A a \in functions : Relies(a) => Relies(a)'
      BY <1>2 DEF vars, Relies, Untouched, Listed
    <2> QED  BY <1>1, <1>2, <2>1 DEF vars, SoloInv
  <1>3. CASE Clicking
    <2>1. PICK b : Begins(b)
      BY <1>3, ClickBegins
    <2>2. /\ functions' = functions \cup {b} /\ OnCourse(b)
          /\ solo' = (functions = {})
      BY <2>1 DEF Begins
    <2>3. Relies(b)'
      <3>1. Untouched(b)'
        BY <2>1 DEF Begins, Untouched
      <3> QED  BY <2>1, <3>1 DEF Begins, Relies, OnCourse
    <2> QED  BY <1>1, <2>2, <2>3 DEF SoloInv
  <1>4. CASE Serve
    <2>1. PICK a \in functions : \E r \in DOMAIN a.calls : \E answer \in Answer :
             Answers(a, r, answer)
      BY <1>4, ServeAnswers
    <2>2. PICK r \in DOMAIN a.calls : \E answer \in Answer : Answers(a, r, answer)
      BY <2>1
    <2>3. PICK answer \in Answer : Answers(a, r, answer)
      BY <2>2
    <2> DEFINE b == [a EXCEPT !.calls[r] = answer]
    <2>4. functions' = (functions \ {a}) \cup {b} /\ solo' = solo
      BY <2>3 DEF Answers
    <2>5. Relies(a) => OnCourse(b) /\ Relies(b)'
      BY <1>1, <2>3, AnsweredRelies
    <2>6. OnCourse(b)
      <3>1. b.kind = a.kind /\ b.await = a.await
        <4>1. PICK await \in Await : a \in Pending(await)
          BY DEF TypeInv, TypeOK
        <4> QED  BY <4>1 DEF Pending
      <3> HIDE DEF b
      <3> QED  BY <1>1, <3>1 DEF OnCourse
    <2> HIDE DEF b
    <2> QED  BY <1>1, <2>4, <2>5, <2>6 DEF SoloInv
  <1>5. CASE Resume
    <2>1. PICK a \in functions : Throw(a) \/ Continue(a) \/ Return(a)
      BY <1>5 DEF Resume
    <2>2. CASE Throw(a)
      <3>1. functions' \subseteq functions /\ solo' = FALSE
        BY <2>2 DEF Throw, Ends
      <3> QED  BY <1>1, <3>1 DEF SoloInv
    <2>3. CASE Return(a)
      <3>1. functions' = functions \ {a} /\ solo' = solo
        BY <2>3 DEF Return, Ends
      <3>2. solo => functions' = {}
        BY <1>1, <3>1
      <3> QED  BY <1>1, <3>1, <3>2 DEF SoloInv
    <2>4. CASE Continue(a)
      <3>1. PICK b : /\ functions' = (functions \ {a}) \cup {b}
                     /\ UNCHANGED <<store, solo>>
                     /\ OnCourse(b)
                     /\ Relies(a) => Relies(b)'
        BY <1>1, <2>4, ContinuedRelies
      <3> QED  BY <1>1, <3>1 DEF SoloInv
    <2> QED  BY <2>1, <2>2, <2>3, <2>4
  <1> QED  BY <1>2, <1>3, <1>4, <1>5 DEF Next

(* What a handler that ran alone leaves on the page when it is over.       *)
Refreshes(a) ==
    /\ store.version # a.since => page'.memories = Listed' /\ page'.conflicts = Listed'
    /\ a.kind = "reset" =>
          /\ page'.result = NoTrace /\ page'.feedbackMessage = NoTrace
          /\ page'.selectedMemoryId = NoMemory /\ page'.history = NoMemory
    /\ a.kind = "loadHistory" => page'.history = page'.selectedMemoryId

LEMMA ReturnRefreshes ==
    ASSUME TypeInv, NEW a \in functions, OnCourse(a), Relies(a), Return(a)
    PROVE  Refreshes(a)
  <1>1. page \in Page /\ Assigned(a) \in Page /\ Shaped(a)
    BY AssignedType DEF TypeInv, TypeOK
  <1>2. PICK await \in Await : a \in Pending(await)
    BY <1>1 DEF Shaped
  <1>3. a.await = await /\ DOMAIN a.calls = Requests(await)
    BY <1>2 DEF Pending
  <1>4. /\ page' = [Assigned(a) EXCEPT !.busy = (a.kind = "mount" /\ Assigned(a).busy)]
        /\ \A r \in Requests(await) : a.calls[r].status = "ok"
        /\ NextAwait(a) = "return" /\ store' = store
    BY <1>3 DEF Return, Settled
  <1>5. /\ page'.memories = Assigned(a).memories /\ page'.conflicts = Assigned(a).conflicts
        /\ page'.result = Assigned(a).result
        /\ page'.feedbackMessage = Assigned(a).feedbackMessage
        /\ page'.selectedMemoryId = Assigned(a).selectedMemoryId
        /\ page'.history = Assigned(a).history
    BY <1>1, <1>4 DEF Page
  <1>6. Listed' = Listed
    BY <1>4 DEF Listed
  <1>7. CASE await = "refresh"
    <2>1. "memories" \in Requests(await) /\ "conflicts" \in Requests(await)
      BY <1>7 DEF Requests
    <2>2. a.calls["memories"].listing = Listed /\ a.calls["conflicts"].listing = Listed
      BY <1>3, <1>4, <1>7, <2>1 DEF Relies
    <2>3. Assigned(a) = [page EXCEPT !.memories = Listed, !.conflicts = Listed]
      BY <1>3, <1>7, <2>2 DEF Assigned
    <2>4. a.kind = "reset" =>
             /\ page.result = NoTrace /\ page.feedbackMessage = NoTrace
             /\ page.selectedMemoryId = NoMemory /\ page.history = NoMemory
      BY <1>3, <1>7 DEF Relies
    <2>5. a.kind # "loadHistory"
      BY <1>3, <1>7 DEF OnCourse
    <2> QED  BY <1>1, <1>5, <1>6, <2>3, <2>4, <2>5 DEF Refreshes, Page
  <1>8. CASE await = "history"
    <2>1. Assigned(a) = [page EXCEPT !.history = a.memory]
      BY <1>3, <1>8 DEF Assigned
    <2>2. a.kind \in {"sendFeedback", "loadHistory"}
      <3>1. a.kind \in Kind
        BY <1>2 DEF Pending
      <3> QED  BY <1>3, <1>8, <3>1 DEF OnCourse, Kind
    <2>3. a.kind = "sendFeedback" => page.memories = Listed /\ page.conflicts = Listed
      BY <1>3, <1>8 DEF Relies
    <2>4. a.kind = "loadHistory" =>
             store.version = a.since /\ a.memory = page.selectedMemoryId
      BY DEF Relies, Untouched
    <2> QED  BY <1>1, <1>5, <1>6, <2>1, <2>2, <2>3, <2>4 DEF Refreshes, Page
  <1>9. CASE await \in {"explicit", "correction", "feedback", "reset", "infer"}
    <2>1. await \in {"correction", "infer"}
      BY <1>3, <1>4, <1>9 DEF NextAwait
    <2>2. await = "correction" => a.calls["correction"].memory = NoMemory
      BY <1>3, <1>4 DEF NextAwait
    <2>3. await = "correction" => a.calls["correction"].status = "ok"
      BY <1>4 DEF Requests
    <2>4. await = "infer" => a.kind = "runInference"
      BY <1>1, <1>3 DEF Shaped
    <2>5. store.version = a.since
      BY <1>3, <2>1, <2>2, <2>3, <2>4 DEF Relies, Untouched
    <2>6. a.kind \notin {"reset", "loadHistory"}
      BY <1>3, <2>1 DEF OnCourse
    <2> QED  BY <2>5, <2>6 DEF Refreshes
  <1> QED  BY <1>7, <1>8, <1>9 DEF Await

(* Only a function that throws or returns is over.                         *)
LEMMA OverReturns ==
    ASSUME TypeInv, [Next]_vars, NEW a \in functions, Over(a), solo'
    PROVE  Return(a)
  <1>1. a \notin functions'
    BY DEF Over
  <1>2. CASE UNCHANGED vars \/ Clicking
    BY <1>1, <1>2, ClickBegins DEF vars, Begins
  <1>3. CASE Serve
    <2>1. PICK b \in functions : \E r \in DOMAIN b.calls : \E answer \in Answer :
             Answers(b, r, answer)
      BY <1>3, ServeAnswers
    <2>2. PICK r \in DOMAIN b.calls : \E answer \in Answer : Answers(b, r, answer)
      BY <2>1
    <2>3. PICK answer \in Answer : Answers(b, r, answer)
      BY <2>2
    <2> DEFINE c == [b EXCEPT !.calls[r] = answer]
    <2>4. functions' = (functions \ {b}) \cup {c}
      BY <2>3 DEF Answers
    <2>5. c.id = b.id
      <3>1. PICK await \in Await : b \in Pending(await)
        BY DEF TypeInv, TypeOK
      <3> QED  BY <3>1 DEF Pending
    <2> HIDE DEF c
    <2> QED  BY <1>1, <2>4, <2>5 DEF Over
  <1>4. CASE Resume
    <2>1. PICK b \in functions : Throw(b) \/ Continue(b) \/ Return(b)
      BY <1>4 DEF Resume
    <2>2. ~Throw(b)
      BY DEF Throw
    <2>3. CASE Continue(b)
      <3> DEFINE c == [b EXCEPT !.await = NextAwait(b), !.calls = Awaiting(NextAwait(b))]
      <3>1. functions' = (functions \ {b}) \cup {c}
        BY <2>3 DEF Continue
      <3>2. c.id = b.id
        <4>1. PICK await \in Await : b \in Pending(await)
          BY DEF TypeInv, TypeOK
        <4> QED  BY <4>1 DEF Pending
      <3> HIDE DEF c
      <3> QED  BY <1>1, <3>1, <3>2 DEF Over
    <2>4. CASE Return(b)
      <3>1. functions' = functions \ {b}
        BY <2>4 DEF Return, Ends
      <3>2. a = b
        BY <1>1, <3>1
      <3> QED  BY <2>4, <3>2
    <2> QED  BY <2>1, <2>2, <2>3, <2>4
  <1> QED  BY <1>2, <1>3, <1>4 DEF Next

(* A handler that ran alone and without failure leaves the page as the     *)
(* service is, whatever was clicked, refused or lost before it.            *)
THEOREM AloneHandlersDoRefresh == Spec => AloneHandlersRefresh
  <1>1. ASSUME TypeInv, SoloInv, [Next]_vars, NEW a \in functions, Over(a), solo'
        PROVE  Refreshes(a)
    <2>1. Return(a)
      BY <1>1, OverReturns
    <2>2. solo
      BY <1>1, <2>1 DEF Return
    <2> QED  BY <1>1, <2>1, <2>2, ReturnRefreshes DEF SoloInv
  <1>2. TypeInv /\ SoloInv /\ [Next]_vars =>
          [\A a \in functions : Over(a) /\ solo' =>
              /\ store.version # a.since => page'.memories = Listed' /\ page'.conflicts = Listed'
              /\ a.kind = "reset" =>
                    /\ page'.result = NoTrace /\ page'.feedbackMessage = NoTrace
                    /\ page'.selectedMemoryId = NoMemory /\ page'.history = NoMemory
              /\ a.kind = "loadHistory" => page'.history = page'.selectedMemoryId]_vars
    BY <1>1 DEF Refreshes
  <1> QED
    BY InitType, NextType, SoloInit, SoloNext, <1>2, PTL DEF Spec, AloneHandlersRefresh

-----------------------------------------------------------------------------
(* The guard of the holdout.                                               *)
(* What a process knows by where it is: an opener past mkdir owns a        *)
(* directory nobody else made, and past its receipt the directory names    *)
(* the dataset of the seal it is about to save.                            *)
Owns(c) ==
    commands[c].mode = "open"
    /\ commands[c].step \in {"receipt", "truncate", "fill", "run", "report"}

CommandOK(c) ==
    /\ commands[c].mode = "verify" => commands[c].step \in {"none", "load"}
    /\ commands[c].mode = "seal" => commands[c].step \in {"none", "load", "truncate", "fill"}
    /\ commands[c].mode = "seal" /\ commands[c].step \in {"truncate", "fill"} =>
          commands[c].current.opened_receipt = NoOutput
    /\ commands[c].mode = "open" /\ commands[c].step \notin {"none", "load"} =>
          /\ commands[c].current.opened_receipt = commands[c].output
          /\ commands[c].current.status = "sealed"
    /\ Owns(c) /\ commands[c].step = "receipt" =>
          outputs[commands[c].output].status = "made"
    /\ Owns(c) /\ commands[c].step # "receipt" =>
          /\ outputs[commands[c].output].status = "opened"
          /\ outputs[commands[c].output].dataset = commands[c].current.dataset
    /\ commands[c].step = "report" => commands[c].output \in evaluations

Owners == \A c, d \in Command :
              Owns(c) /\ Owns(d) /\ c # d => commands[c].output # commands[d].output

SealOK == seal.opened_receipt # NoOutput => seal.status = "sealed"

GuardInv ==
    /\ GuardTypeOK
    /\ \A c \in Command : CommandOK(c)
    /\ Owners
    /\ SealOK
    /\ SealCitesItsReceipt

(* Nothing is left to open once an evaluation has started or is about to.  *)
Spent == evaluations # {} \/ \E c \in Command : commands[c].step = "run"

Closed == seal.status \in Unreadable \/ seal.opened_receipt # NoOutput

OnceInv ==
    overlapped \/
       /\ \A c, d \in Windows : c = d
       /\ Spent => Windows = {} /\ Closed
       /\ \A c \in Command : commands[c].step = "run" => evaluations = {}
       /\ \A c, d \in Command : commands[c].step = "run" /\ commands[d].step = "run" => c = d
       /\ \A first, second \in evaluations : first = second

-----------------------------------------------------------------------------
LEMMA NotRunningType == NotRunning \in Running
  BY DEF NotRunning, Running, Step, Mode, Seal, Unsealed, Unreadable

LEMMA TypeInit == GuardInit => GuardTypeOK
  <1> SUFFICES ASSUME GuardInit PROVE GuardTypeOK
    OBVIOUS
  <1>1. seal \in Seal
    BY DEF GuardInit, Seal, Unsealed, Unreadable
  <1>2. outputs \in [Output -> Directory]
    BY DEF GuardInit, Directory, Bare
  <1>3. commands \in [Command -> Running]
    BY NotRunningType DEF GuardInit
  <1>4. \A c \in Command : At(c, "none")
    BY DEF GuardInit, At, NotRunning
  <1> QED  BY <1>1, <1>2, <1>3, <1>4 DEF GuardInit, GuardTypeOK

LEMMA TypeNext == GuardTypeOK /\ [GuardNext]_guardVars => GuardTypeOK'
  <1> SUFFICES ASSUME GuardTypeOK, [GuardNext]_guardVars PROVE GuardTypeOK'
    OBVIOUS
  <1> USE DEF GuardTypeOK
  <1>1. CASE UNCHANGED guardVars
    BY <1>1 DEF guardVars, At
  <1>2. CASE GuardNext
    <2>1. PICK c \in Command : Act(c)
      BY <1>2 DEF GuardNext
    <2>2. overlapped' \in BOOLEAN
      BY <1>2 DEF GuardNext
    <2> DEFINE here == commands[c]
    <2>3. here \in Running
      OBVIOUS
    <2> DEFINE Typed == /\ commands' \in [Command -> Running]
                        /\ \A d \in Command : ~At(d, "none")' =>
                              /\ commands'[d].dataset \in Dataset
                              /\ commands'[d].output \in Output
    <2>5. Exits(c) => Typed
      <3>1. NotRunning.step = "none"
        BY DEF NotRunning
      <3> QED  BY <3>1, NotRunningType DEF Exits, At
    <2>4. Following(here.step) \in Step
      BY DEF Following, Step
    <2>6. Continues(c) /\ ~At(c, "none") => Typed
      BY <2>3, <2>4, <2>5 DEF Continues, Running, At
    <2> HIDE DEF Typed
    <2>17. Typed /\ seal' \in Seal /\ outputs' \in [Output -> Directory] /\ runs' \in Nat
           /\ evaluations' \subseteq Output => GuardTypeOK'
      BY <2>2 DEF Typed
    <2>7. ASSUME NEW mode \in Mode, NEW dataset \in Dataset, NEW output \in Output,
                 Main(c, mode, dataset, output)
          PROVE  GuardTypeOK'
      <3>1. Unsealed("empty") \in Seal
        BY DEF Seal, Unsealed, Unreadable
      <3>2. Typed
        BY <2>7, <3>1 DEF Main, Running, Step, Typed, At
      <3> QED  BY <2>7, <2>17, <3>2 DEF Main
    <2>8. CASE LoadSeal(c)
      <3>1. Updated(c) \in Seal
        BY <2>3, <2>8 DEF Updated, Passes, Sealable, Openable, Running, Seal
      <3>2. Typed
        BY <2>3, <2>8, <3>1 DEF LoadSeal, Running, Step, Typed, At
      <3> QED  BY <2>8, <2>17, <3>2 DEF LoadSeal
    <2>9. CASE Stop(c)
      BY <2>5, <2>9, <2>17 DEF Stop
    <2>10. CASE MakeOutput(c)
      BY <2>5, <2>6, <2>10, <2>17 DEF MakeOutput, Directory, Bare, At
    <2>11. CASE WriteReceipt(c)
      BY <2>3, <2>6, <2>11, <2>17 DEF WriteReceipt, Directory, Running, Seal, At
    <2>12. CASE TruncateSeal(c)
      BY <2>6, <2>12, <2>17 DEF TruncateSeal, Seal, Unsealed, Unreadable, At
    <2>13. CASE FillSeal(c)
      BY <2>3, <2>6, <2>13, <2>17 DEF FillSeal, Seal, Unsealed, Unreadable, Running, At
    <2>14. CASE RunCommand(c)
      BY <2>3, <2>6, <2>14, <2>17 DEF RunCommand, Running, At
    <2>15. CASE Report(c)
      BY <2>3, <2>5, <2>15, <2>17 DEF Report, Directory, Running, Seal
    <2>16. CASE Crash(c)
      BY <2>5, <2>16, <2>17 DEF Crash, Directory, Bare, Seal, Unsealed, Unreadable
    <2> QED  BY <2>1, <2>7, <2>8, <2>9, <2>10, <2>11, <2>12, <2>13, <2>14, <2>15, <2>16 DEF Act
  <1> QED  BY <1>1, <1>2

(* Every process is well typed, whatever it does.                          *)
THEOREM GuardTypeCorrect == GuardSpec => []GuardTypeOK
  BY TypeInit, TypeNext, PTL DEF GuardSpec

-----------------------------------------------------------------------------
LEMMA InvInit == GuardInit => GuardInv
  <1> SUFFICES ASSUME GuardInit PROVE GuardInv
    OBVIOUS
  <1>1. GuardTypeOK
    BY TypeInit
  <1>2. \A c \in Command : commands[c].step = "none" /\ commands[c].mode = "verify"
    BY DEF GuardInit, NotRunning
  <1>3. seal.opened_receipt = NoOutput
    BY DEF GuardInit, Unsealed
  <1> QED  BY <1>1, <1>2, <1>3 DEF GuardInv, CommandOK, Owners, Owns, SealOK, SealCitesItsReceipt

(* One step per action; the others keep what they own because only the     *)
(* owner of a directory writes in it, and only mkdir makes an owner.       *)
LEMMA InvNext == GuardInv /\ [GuardNext]_guardVars => GuardInv'
  <1> SUFFICES ASSUME GuardInv, [GuardNext]_guardVars PROVE GuardInv'
    OBVIOUS
  <1>1. GuardTypeOK /\ GuardTypeOK'
    BY TypeNext DEF GuardInv
  <1>2. CASE UNCHANGED guardVars
    BY <1>1, <1>2 DEF GuardInv, guardVars, CommandOK, Owners, Owns, SealOK, SealCitesItsReceipt
  <1>3. CASE GuardNext
    <2>1. PICK c \in Command : Act(c)
      BY <1>3 DEF GuardNext
    <2> DEFINE here == commands[c]
    <2> DEFINE Rest == /\ \A d \in Command : CommandOK(d)
                       /\ Owners
                       /\ SealOK
                       /\ SealCitesItsReceipt
    <2>2. Rest /\ (Rest' => GuardInv')
      BY <1>1 DEF GuardInv
    <2>3. /\ commands \in [Command -> Running]
          /\ outputs \in [Output -> Directory]
          /\ here.output \in Output \/ here.step = "none"
      BY <1>1 DEF GuardTypeOK, At
    <2>4. Exits(c) => /\ \A d \in Command \ {c} : commands'[d] = commands[d]
                     /\ commands'[c] = NotRunning
      BY <2>3 DEF Exits
    <2>5. Continues(c) /\ ~(here.mode = "seal" /\ here.step = "fill") =>
             /\ \A d \in Command \ {c} : commands'[d] = commands[d]
             /\ commands'[c] = [here EXCEPT !.step = Following(here.step)]
      BY <2>3 DEF Continues
    <2> USE DEF CommandOK, Owns, NotRunning
    <2>6. ASSUME NEW mode \in Mode, NEW dataset \in Dataset, NEW output \in Output,
                 Main(c, mode, dataset, output)
          PROVE  Rest'
      <3>1. /\ \A d \in Command \ {c} : commands'[d] = commands[d]
            /\ commands'[c].step = "load"
            /\ UNCHANGED <<seal, outputs, evaluations>>
        BY <2>3, <2>6 DEF Main
      <3> QED  BY <2>2, <3>1 DEF Owners, SealOK, SealCitesItsReceipt
    <2>7. CASE LoadSeal(c)
      <3>1. /\ \A d \in Command \ {c} : commands'[d] = commands[d]
            /\ commands'[c] = [here EXCEPT !.current = Updated(c),
                  !.step = IF here.mode = "seal" THEN "truncate" ELSE "mkdir"]
            /\ UNCHANGED <<seal, outputs, evaluations>>
        BY <2>3, <2>7 DEF LoadSeal
      <3>2. here \in Running /\ seal \in Seal
        BY <1>1 DEF GuardTypeOK
      <3>3. /\ here.mode \in {"seal", "open"}
            /\ here.mode = "seal" => Updated(c).opened_receipt = NoOutput
            /\ here.mode = "open" =>
                  Updated(c).opened_receipt = here.output /\ Updated(c).status = "sealed"
        BY <2>7, <3>2 DEF LoadSeal, Passes, Openable, Verified, Updated, Seal
      <3>4. /\ commands'[c].mode = here.mode /\ commands'[c].output = here.output
            /\ commands'[c].current = Updated(c)
            /\ commands'[c].step = IF here.mode = "seal" THEN "truncate" ELSE "mkdir"
        BY <3>1, <3>2 DEF Running
      <3>5. \A d \in Command : CommandOK(d)'
        <4> SUFFICES ASSUME NEW d \in Command PROVE CommandOK(d)'
          OBVIOUS
        <4> CommandOK(c) /\ CommandOK(d)
          BY <2>2
        <4>1. CASE d = c
          BY <3>1, <3>3, <3>4, <4>1
        <4>2. CASE d # c
          BY <3>1, <3>3, <3>4, <4>2
        <4> QED  BY <4>1, <4>2
      <3>6. \A d \in Command : Owns(d)' => Owns(d) /\ commands'[d].output = commands[d].output
        BY <3>1, <3>4
      <3> QED  BY <2>2, <3>1, <3>5, <3>6 DEF Owners, SealOK, SealCitesItsReceipt
    <2>8. CASE Stop(c)
      BY <2>2, <2>4, <2>8 DEF Stop, Owners, SealOK, SealCitesItsReceipt
    <2>9. CASE MakeOutput(c)
      <3>1. here.step = "mkdir" /\ here.mode = "open" /\ here \in Running
        BY <2>2, <2>3, <2>9 DEF MakeOutput, At, Running, Mode
      <3>2. CASE outputs[here.output].status # "absent"
        BY <2>2, <2>4, <2>9, <3>2 DEF MakeOutput, Owners, SealOK, SealCitesItsReceipt
      <3>3. CASE outputs[here.output].status = "absent"
        <4>1. /\ outputs'[here.output].status = "made"
              /\ \A o \in Output \ {here.output} : outputs'[o] = outputs[o]
              /\ UNCHANGED <<seal, evaluations>>
          BY <2>3, <2>9, <3>1, <3>3 DEF MakeOutput, Bare
        <4>2. /\ \A d \in Command \ {c} : commands'[d] = commands[d]
              /\ commands'[c] = [here EXCEPT !.step = "receipt"]
          BY <2>5, <2>9, <3>1, <3>3 DEF MakeOutput, Following
        <4>3. \A d \in Command \ {c} : Owns(d) => commands[d].output \in Output \ {here.output}
          BY <1>1, <2>2, <3>3 DEF GuardTypeOK, At
        <4>4. /\ commands'[c].step = "receipt" /\ commands'[c].mode = "open"
              /\ commands'[c].output = here.output /\ commands'[c].current = here.current
          BY <3>1, <4>2 DEF Running
        <4>5. \A d \in Command : CommandOK(d)'
          <5> SUFFICES ASSUME NEW d \in Command PROVE CommandOK(d)'
            OBVIOUS
          <5> CommandOK(c) /\ CommandOK(d)
            BY <2>2
          <5>1. CASE d = c
            BY <3>1, <4>1, <4>2, <4>3, <4>4, <5>1
          <5>2. CASE d # c
            BY <3>1, <4>1, <4>2, <4>3, <4>4, <5>2
          <5> QED  BY <5>1, <5>2
        <4>6. Owners'
          <5>1. \A d \in Command \ {c} :
                   Owns(d)' => Owns(d) /\ commands'[d].output = commands[d].output
            BY <4>2
          <5> QED  BY <2>2, <4>3, <4>4, <5>1 DEF Owners
        <4>7. SealOK' /\ SealCitesItsReceipt'
          <5>1. seal.opened_receipt # NoOutput => seal.opened_receipt \in Output \ {here.output}
            BY <1>1, <2>2, <3>3 DEF GuardTypeOK, Seal, SealCitesItsReceipt
          <5> QED  BY <2>2, <4>1, <5>1 DEF SealOK, SealCitesItsReceipt
        <4> QED  BY <2>2, <4>5, <4>6, <4>7
      <3> QED  BY <3>2, <3>3
    <2>10. CASE WriteReceipt(c)
      <3>1. here.step = "receipt" /\ here.mode = "open" /\ here \in Running
        BY <2>2, <2>3, <2>10 DEF WriteReceipt, At, Running, Mode
      <3>2. /\ outputs'[here.output].status = "opened"
            /\ outputs'[here.output].dataset = here.current.dataset
            /\ \A o \in Output \ {here.output} : outputs'[o] = outputs[o]
            /\ UNCHANGED <<seal, evaluations>>
        BY <2>3, <2>10, <3>1 DEF WriteReceipt
      <3>3. /\ \A d \in Command \ {c} : commands'[d] = commands[d]
            /\ commands'[c] = [here EXCEPT !.step = "truncate"]
        BY <2>5, <2>10, <3>1 DEF WriteReceipt, Following
      <3>4. /\ commands'[c].step = "truncate" /\ commands'[c].mode = "open"
            /\ commands'[c].output = here.output /\ commands'[c].current = here.current
        BY <3>1, <3>3 DEF Running
      <3>5. \A d \in Command \ {c} : Owns(d) => commands[d].output \in Output \ {here.output}
        BY <1>1, <2>2, <3>1 DEF GuardTypeOK, At, Owners
      <3>6. \A d \in Command : CommandOK(d)'
        <4> SUFFICES ASSUME NEW d \in Command PROVE CommandOK(d)'
          OBVIOUS
        <4> CommandOK(c) /\ CommandOK(d)
          BY <2>2
        <4>1. CASE d = c
          BY <3>1, <3>2, <3>3, <3>4, <3>5, <4>1
        <4>2. CASE d # c
          BY <3>1, <3>2, <3>3, <3>4, <3>5, <4>2
        <4> QED  BY <4>1, <4>2
      <3>7. Owners'
        <4>1. \A d \in Command : Owns(d)' => Owns(d) /\ commands'[d].output = commands[d].output
          BY <3>1, <3>3, <3>4, <3>5
        <4> QED  BY <2>2, <4>1 DEF Owners
      <3>8. SealOK' /\ SealCitesItsReceipt'
        <4>1. seal.opened_receipt # NoOutput => seal.opened_receipt \in Output \ {here.output}
          BY <1>1, <2>2, <3>1 DEF GuardTypeOK, Seal, SealCitesItsReceipt
        <4> QED  BY <2>2, <3>2, <4>1 DEF SealOK, SealCitesItsReceipt
      <3> QED  BY <2>2, <3>6, <3>7, <3>8
    <2>11. CASE TruncateSeal(c)
      <3>1. here.step = "truncate" /\ here \in Running
        BY <2>3, <2>11 DEF TruncateSeal, At
      <3>2. /\ \A d \in Command \ {c} : commands'[d] = commands[d]
            /\ commands'[c] = [here EXCEPT !.step = "fill"]
            /\ UNCHANGED <<outputs, evaluations>>
            /\ seal' = Unsealed("empty")
        BY <2>5, <2>11, <3>1 DEF TruncateSeal, Following
      <3>3. /\ commands'[c].step = "fill" /\ commands'[c].mode = here.mode
            /\ commands'[c].output = here.output /\ commands'[c].current = here.current
        BY <3>1, <3>2 DEF Running
      <3>4. \A d \in Command : CommandOK(d)'
        <4> SUFFICES ASSUME NEW d \in Command PROVE CommandOK(d)'
          OBVIOUS
        <4> CommandOK(c) /\ CommandOK(d)
          BY <2>2
        <4>1. CASE d = c
          BY <3>1, <3>2, <3>3, <4>1
        <4>2. CASE d # c
          BY <3>1, <3>2, <3>3, <4>2
        <4> QED  BY <4>1, <4>2
      <3>5. Owners'
        <4>1. \A d \in Command : Owns(d)' => Owns(d) /\ commands'[d].output = commands[d].output
          BY <3>1, <3>2, <3>3
        <4> QED  BY <2>2, <4>1 DEF Owners
      <3> QED  BY <2>2, <3>2, <3>4, <3>5 DEF SealOK, SealCitesItsReceipt, Unsealed
    <2>12. CASE FillSeal(c)
      <3>1. here.step = "fill" /\ here \in Running
        BY <2>3, <2>12 DEF FillSeal, At
      <3>2. /\ UNCHANGED <<outputs, evaluations>>
            /\ seal' = here.current \/ seal' = Unsealed("torn")
        BY <2>12 DEF FillSeal
      <3>3. SealOK' /\ SealCitesItsReceipt'
        BY <1>1, <2>2, <3>1, <3>2
           DEF SealOK, SealCitesItsReceipt, Unsealed, Running, Mode
      <3>4. CASE here.mode = "seal"
        <4>1. Exits(c)
          BY <2>12, <3>1, <3>4 DEF FillSeal, Continues
        <4> QED  BY <2>2, <2>4, <3>2, <3>3, <4>1 DEF Owners
      <3>5. CASE here.mode # "seal"
        <4>1. /\ \A d \in Command \ {c} : commands'[d] = commands[d]
              /\ commands'[c] = [here EXCEPT !.step = "run"]
          BY <2>5, <2>12, <3>1, <3>5 DEF FillSeal, Following
        <4>2. /\ commands'[c].step = "run" /\ commands'[c].mode = here.mode
              /\ commands'[c].output = here.output /\ commands'[c].current = here.current
          BY <3>1, <4>1 DEF Running
        <4>3. \A d \in Command : CommandOK(d)'
          <5> SUFFICES ASSUME NEW d \in Command PROVE CommandOK(d)'
            OBVIOUS
          <5> CommandOK(c) /\ CommandOK(d)
            BY <2>2
          <5>1. CASE d = c
            BY <3>1, <3>2, <3>5, <4>1, <4>2, <5>1
          <5>2. CASE d # c
            BY <3>1, <3>2, <3>5, <4>1, <4>2, <5>2
          <5> QED  BY <5>1, <5>2
        <4>4. Owners'
          <5>1. \A d \in Command : Owns(d)' => Owns(d) /\ commands'[d].output = commands[d].output
            BY <3>1, <4>1, <4>2
          <5> QED  BY <2>2, <5>1 DEF Owners
        <4> QED  BY <2>2, <3>3, <4>3, <4>4
      <3> QED  BY <3>4, <3>5
    <2>13. CASE RunCommand(c)
      <3>1. here.step = "run" /\ here \in Running
        BY <2>3, <2>13 DEF RunCommand, At
      <3>2. /\ \A d \in Command \ {c} : commands'[d] = commands[d]
            /\ commands'[c] = [here EXCEPT !.step = "report"]
            /\ UNCHANGED <<outputs, seal>>
            /\ evaluations' = evaluations \cup {here.output}
        BY <2>5, <2>13, <3>1 DEF RunCommand, Following
      <3>3. /\ commands'[c].step = "report" /\ commands'[c].mode = here.mode
            /\ commands'[c].output = here.output /\ commands'[c].current = here.current
        BY <3>1, <3>2 DEF Running
      <3>4. \A d \in Command : CommandOK(d)'
        <4> SUFFICES ASSUME NEW d \in Command PROVE CommandOK(d)'
          OBVIOUS
        <4> CommandOK(c) /\ CommandOK(d)
          BY <2>2
        <4>1. CASE d = c
          BY <3>1, <3>2, <3>3, <4>1
        <4>2. CASE d # c
          BY <3>1, <3>2, <3>3, <4>2
        <4> QED  BY <4>1, <4>2
      <3>5. Owners'
        <4>1. \A d \in Command : Owns(d)' => Owns(d) /\ commands'[d].output = commands[d].output
          BY <3>1, <3>2, <3>3
        <4> QED  BY <2>2, <4>1 DEF Owners
      <3> QED  BY <2>2, <3>2, <3>4, <3>5 DEF SealOK, SealCitesItsReceipt
    <2>14. CASE Report(c)
      <3>1. here.step = "report" /\ here.mode = "open" /\ here \in Running
        BY <2>2, <2>3, <2>14 DEF Report, At, Running, Mode
      <3>2. /\ outputs'[here.output] = [status |-> "exited", dataset |-> here.current.dataset]
            /\ \A o \in Output \ {here.output} : outputs'[o] = outputs[o]
            /\ UNCHANGED <<seal, evaluations>>
        BY <2>3, <2>14, <3>1 DEF Report
      <3>3. /\ \A d \in Command \ {c} : commands'[d] = commands[d]
            /\ commands'[c] = NotRunning
        BY <2>4, <2>14 DEF Report
      <3>4. \A d \in Command \ {c} : Owns(d) => commands[d].output \in Output \ {here.output}
        BY <1>1, <2>2, <3>1 DEF GuardTypeOK, At, Owners
      <3>5. \A d \in Command : CommandOK(d)'
        <4> SUFFICES ASSUME NEW d \in Command PROVE CommandOK(d)'
          OBVIOUS
        <4> CommandOK(c) /\ CommandOK(d)
          BY <2>2
        <4>1. CASE d = c
          BY <3>2, <3>3, <3>4, <4>1
        <4>2. CASE d # c
          BY <3>2, <3>3, <3>4, <4>2
        <4> QED  BY <4>1, <4>2
      <3>6. SealOK' /\ SealCitesItsReceipt'
        <4>1. seal.opened_receipt \in Output \cup {NoOutput}
          BY <1>1 DEF GuardTypeOK, Seal
        <4>2. CASE seal.opened_receipt = here.output
          BY <2>2, <3>1, <3>2, <4>2 DEF SealOK, SealCitesItsReceipt
        <4> QED  BY <2>2, <3>2, <4>1, <4>2 DEF SealOK, SealCitesItsReceipt
      <3> QED  BY <2>2, <3>3, <3>5, <3>6 DEF Owners
    <2>15. CASE Crash(c)
      <3>1. /\ \A d \in Command \ {c} : commands'[d] = commands[d]
            /\ commands'[c] = NotRunning
            /\ evaluations' = evaluations
        BY <2>4, <2>15 DEF Crash
      <3>2. here.step # "none" /\ here \in Running
        BY <2>3, <2>15 DEF Crash, At
      <3>3. Owners'
        BY <2>2, <3>1 DEF Owners
      <3>4. CASE UNCHANGED <<seal, outputs>>
        BY <2>2, <3>1, <3>3, <3>4 DEF SealOK, SealCitesItsReceipt
      <3>5. CASE seal' = Unsealed("torn") /\ UNCHANGED outputs
        BY <2>2, <3>1, <3>3, <3>5 DEF SealOK, SealCitesItsReceipt, Unsealed
      <3>6. CASE /\ here.step \in {"receipt", "report"}
                 /\ outputs' = [outputs EXCEPT ![here.output] = Bare("torn")]
                 /\ UNCHANGED seal
        <4>1. Owns(c)
          BY <2>2, <3>2, <3>6 DEF Running, Mode
        <4>2. /\ outputs'[here.output].status = "torn"
              /\ \A o \in Output \ {here.output} : outputs'[o] = outputs[o]
          BY <2>3, <3>2, <3>6 DEF Bare
        <4>3. \A d \in Command \ {c} : Owns(d) => commands[d].output \in Output \ {here.output}
          BY <1>1, <2>2, <4>1 DEF GuardTypeOK, At, Owners
        <4>4. \A d \in Command : CommandOK(d)'
          <5> SUFFICES ASSUME NEW d \in Command PROVE CommandOK(d)'
            OBVIOUS
          <5> CommandOK(c) /\ CommandOK(d)
            BY <2>2
          <5>1. CASE d = c
            BY <3>1, <4>2, <4>3, <5>1
          <5>2. CASE d # c
            BY <3>1, <4>2, <4>3, <5>2
          <5> QED  BY <5>1, <5>2
        <4>5. SealCitesItsReceipt'
          <5>1. seal.opened_receipt \in Output \cup {NoOutput}
            BY <1>1 DEF GuardTypeOK, Seal
          <5>2. CASE seal.opened_receipt = here.output
            BY <2>2, <3>1, <3>6, <4>1, <4>2, <5>2 DEF SealCitesItsReceipt
          <5> QED  BY <2>2, <3>1, <3>6, <4>2, <5>1, <5>2 DEF SealCitesItsReceipt
        <4> QED  BY <2>2, <3>3, <3>6, <4>4, <4>5 DEF SealOK
      <3> QED  BY <2>15, <3>4, <3>5, <3>6 DEF Crash
    <2> QED  BY <2>1, <2>2, <2>6, <2>7, <2>8, <2>9, <2>10, <2>11, <2>12, <2>13, <2>14, <2>15 DEF Act
  <1> QED  BY <1>2, <1>3

(* A seal that cites an opening leads to its receipt, for any number of    *)
(* overlapping commands that die at any step.                              *)
THEOREM SealLeadsToItsReceipt == GuardSpec => []SealCitesItsReceipt
  <1>1. GuardInv => SealCitesItsReceipt
    BY DEF GuardInv
  <1> QED  BY <1>1, InvInit, InvNext, PTL DEF GuardSpec

-----------------------------------------------------------------------------
LEMMA OnceInit == GuardInit => OnceInv
  <1> SUFFICES ASSUME GuardInit PROVE OnceInv
    OBVIOUS
  <1>1. \A c \in Command : commands[c].step = "none"
    BY DEF GuardInit, NotRunning
  <1>2. evaluations = {}
    BY DEF GuardInit
  <1> QED  BY <1>1, <1>2 DEF OnceInv, Spent, Windows

(* Without overlap the window has one process at most, and it is empty     *)
(* once the holdout is spent, because the seal then refuses every load.    *)
LEMMA OnceNext == GuardInv /\ OnceInv /\ [GuardNext]_guardVars => OnceInv'
  <1> SUFFICES ASSUME GuardInv, OnceInv, [GuardNext]_guardVars, ~overlapped' PROVE OnceInv'
    BY DEF OnceInv
  <1>1. GuardTypeOK
    BY DEF GuardInv
  <1>2. CASE UNCHANGED guardVars
    BY <1>2 DEF OnceInv, guardVars, Windows, Spent, Closed
  <1>3. CASE GuardNext
    <2>1. PICK c \in Command : Act(c)
      BY <1>3 DEF GuardNext
    <2>2. ~overlapped /\ \A a, b \in Windows' : a = b
      <3>1. Windows' \subseteq Command
        BY DEF Windows
      <3> QED  BY <1>1, <1>3, <3>1 DEF GuardNext, GuardTypeOK
    <2>3. /\ \A a, b \in Windows : a = b
          /\ Spent => Windows = {} /\ Closed
          /\ \A a \in Command : commands[a].step = "run" => evaluations = {}
          /\ \A a, b \in Command : commands[a].step = "run" /\ commands[b].step = "run" => a = b
          /\ \A first, second \in evaluations : first = second
      BY <2>2 DEF OnceInv
    <2> DEFINE here == commands[c]
    <2> DEFINE Kept == /\ Spent => Windows = {} /\ Closed
                       /\ \A a \in Command : commands[a].step = "run" => evaluations = {}
                       /\ \A a, b \in Command :
                             commands[a].step = "run" /\ commands[b].step = "run" => a = b
                       /\ \A first, second \in evaluations : first = second
    <2>4. Kept' => OnceInv'
      BY <2>2 DEF OnceInv
    <2>5. commands \in [Command -> Running] /\ here \in Running /\ CommandOK(c)
      BY <1>1 DEF GuardTypeOK, GuardInv
    <2>6. Exits(c) => /\ \A d \in Command \ {c} : commands'[d] = commands[d]
                     /\ commands'[c].step = "none"
      BY <2>5 DEF Exits, NotRunning
    <2>7. Continues(c) /\ ~(here.mode = "seal" /\ here.step = "fill") =>
             /\ \A d \in Command \ {c} : commands'[d] = commands[d]
             /\ commands'[c].step = Following(here.step)
      BY <2>5 DEF Continues, Running
    <2> USE DEF Spent, Closed, Windows
    <2>8. ASSUME NEW mode \in Mode, NEW dataset \in Dataset, NEW output \in Output,
                 Main(c, mode, dataset, output)
          PROVE  OnceInv'
      <3>1. /\ \A d \in Command \ {c} : commands'[d] = commands[d]
            /\ commands'[c].step = "load"
            /\ UNCHANGED <<seal, evaluations>>
        BY <2>5, <2>8 DEF Main
      <3> QED  BY <2>3, <2>4, <3>1
    <2>9. CASE LoadSeal(c)
      <3>1. /\ \A d \in Command \ {c} : commands'[d] = commands[d]
            /\ commands'[c].step \in {"truncate", "mkdir"}
            /\ UNCHANGED <<seal, evaluations>>
        BY <2>5, <2>9 DEF LoadSeal, Running
      <3>2. ~Closed
        BY <2>9 DEF LoadSeal, Passes, Sealable, Openable, Verified, Unreadable, GuardInv, SealOK
      <3> QED  BY <2>3, <2>4, <3>1, <3>2
    <2>10. CASE Stop(c)
      BY <2>3, <2>4, <2>6, <2>10 DEF Stop
    <2>11. CASE MakeOutput(c)
      <3>1. here.step = "mkdir" /\ UNCHANGED <<seal, evaluations>>
        BY <2>11 DEF MakeOutput, At
      <3>2. /\ \A d \in Command \ {c} : commands'[d] = commands[d]
            /\ commands'[c].step \in {"none", "receipt"}
        BY <2>6, <2>7, <2>11, <3>1 DEF MakeOutput, Following
      <3> QED  BY <2>3, <2>4, <3>1, <3>2
    <2>12. CASE WriteReceipt(c)
      <3>1. here.step = "receipt" /\ UNCHANGED <<seal, evaluations>>
        BY <2>12 DEF WriteReceipt, At
      <3>2. /\ \A d \in Command \ {c} : commands'[d] = commands[d]
            /\ commands'[c].step = "truncate"
        BY <2>7, <2>12, <3>1 DEF WriteReceipt, Following
      <3> QED  BY <2>3, <2>4, <3>1, <3>2
    <2>13. CASE TruncateSeal(c)
      <3>1. here.step = "truncate" /\ UNCHANGED evaluations
        BY <2>13 DEF TruncateSeal, At
      <3>2. /\ \A d \in Command \ {c} : commands'[d] = commands[d]
            /\ commands'[c].step = "fill"
        BY <2>7, <2>13, <3>1 DEF TruncateSeal, Following
      <3> QED  BY <2>3, <2>4, <3>1, <3>2
    <2>14. CASE FillSeal(c)
      <3>1. /\ here.step = "fill" /\ UNCHANGED evaluations
            /\ seal' = here.current \/ seal' = Unsealed("torn")
        BY <2>14 DEF FillSeal, At
      <3>2. evaluations = {} /\ \A a \in Command : commands[a].step # "run"
        BY <2>3, <3>1
      <3>3. CASE here.mode = "seal"
        <4>1. Exits(c)
          BY <2>14, <3>1, <3>3 DEF FillSeal, Continues
        <4> QED  BY <2>4, <2>6, <3>1, <3>2, <4>1
      <3>4. CASE here.mode # "seal"
        <4>1. /\ \A d \in Command \ {c} : commands'[d] = commands[d]
              /\ commands'[c].step = "run"
          BY <2>7, <2>14, <3>1, <3>4 DEF FillSeal, Following
        <4>2. Closed'
          <5>1. here.mode = "open" /\ here.current.opened_receipt = here.output
            BY <2>5, <3>1, <3>4 DEF CommandOK, Running, Mode
          <5>2. here.output # NoOutput
            BY <1>1, <3>1, HoldoutAssumption DEF GuardTypeOK, At
          <5> QED  BY <3>1, <5>1, <5>2 DEF Unsealed, Unreadable
        <4>3. Windows' = {}
          BY <2>3, <3>1, <4>1
        <4> QED  BY <2>4, <3>1, <3>2, <4>1, <4>2, <4>3
      <3> QED  BY <3>3, <3>4
    <2>15. CASE RunCommand(c)
      <3>1. /\ here.step = "run" /\ UNCHANGED seal
            /\ evaluations' = evaluations \cup {here.output}
        BY <2>15 DEF RunCommand, At
      <3>2. /\ \A d \in Command \ {c} : commands'[d] = commands[d]
            /\ commands'[c].step = "report"
        BY <2>7, <2>15, <3>1 DEF RunCommand, Following
      <3> QED  BY <2>3, <2>4, <3>1, <3>2
    <2>16. CASE Report(c)
      BY <2>3, <2>4, <2>6, <2>16 DEF Report
    <2>17. CASE Crash(c)
      <3>1. /\ \A d \in Command \ {c} : commands'[d] = commands[d]
            /\ commands'[c].step = "none" /\ UNCHANGED evaluations
            /\ UNCHANGED seal \/ seal' = Unsealed("torn")
        BY <2>6, <2>17 DEF Crash
      <3> QED  BY <2>3, <2>4, <3>1 DEF Unsealed, Unreadable
    <2> QED  BY <2>1, <2>8, <2>9, <2>10, <2>11, <2>12, <2>13, <2>14, <2>15, <2>16, <2>17 DEF Act
  <1> QED  BY <1>2, <1>3

(* The holdout is evaluated once unless two commands overlapped, for any   *)
(* number of commands and wherever they die.                               *)
THEOREM OpenedOnceWithoutOverlap == GuardSpec => []OpenedOnceUnlessOverlapped
  <1>1. OnceInv => OpenedOnceUnlessOverlapped
    BY DEF OnceInv, OpenedOnceUnlessOverlapped
  <1> QED  BY <1>1, InvInit, InvNext, OnceInit, OnceNext, PTL DEF GuardSpec

-----------------------------------------------------------------------------
(* The choice of a policy.  Induction over numbers and over finite sets is *)
(* put as the existence of a least element.                                *)
LEMMA NatLeast ==
    ASSUME NEW T \in SUBSET Nat, T # {}
    PROVE  \E n \in T : \A k \in T : n <= k
  <1>1. PICK n \in T : \A k \in T : <<k, n>> \notin OpToRel(<, Nat)
    BY NatLessThanWellFounded, WFMin
  <1>2. ASSUME NEW k \in T PROVE n <= k
    <2>1. <<k, n>> \notin {ss \in Nat \X Nat : ss[1] < ss[2]}
      BY <1>1 DEF OpToRel
    <2> QED  BY <2>1
  <1> QED  BY <1>2

LEMMA FiniteLeast ==
    ASSUME NEW S, IsFiniteSet(S), NEW F \in SUBSET SUBSET S, F # {}
    PROVE  \E A \in F : \A B \in F : B \subseteq A => B = A
  <1>1. IsWellFoundedOn(StrictSubsetOrdering(S), FiniteSubsetsOf(S))
    BY FS_StrictSubsetOrderingWellFounded
  <1>2. FiniteSubsetsOf(S) = SUBSET S
    BY FS_FiniteSubsetsOfFinite
  <1>3. PICK A \in F : \A B \in F : <<B, A>> \notin StrictSubsetOrdering(S)
    BY <1>1, <1>2, WFMin
  <1>4. ASSUME NEW B \in F, B \subseteq A PROVE B = A
    <2>1. <<B, A>> \notin {ss \in (SUBSET S) \X (SUBSET S) : ss[1] \subseteq ss[2] /\ ss[1] # ss[2]}
      BY <1>3 DEF StrictSubsetOrdering
    <2> QED  BY <1>4, <2>1
  <1> QED  BY <1>4

(* A finite set has a greatest element in any strict order.                *)
LEMMA FiniteGreatest ==
    ASSUME NEW S, IsFiniteSet(S), S # {}, NEW R,
           \A a \in S : <<a, a>> \notin R,
           \A a, b, c \in S : <<a, b>> \in R /\ <<b, c>> \in R => <<a, c>> \in R
    PROVE  \E a \in S : \A b \in S : <<b, a>> \notin R
  <1> DEFINE Above(a) == {b \in S : <<b, a>> \in R}
             F == {Above(a) : a \in S}
  <1>1. PICK A \in F : \A B \in F : B \subseteq A => B = A
    <2>2. \A b \in S : Above(b) \in SUBSET S
      OBVIOUS
    <2> HIDE DEF Above
    <2>3. F \in SUBSET SUBSET S
      BY <2>2
    <2>4. PICK b \in S : TRUE
      OBVIOUS
    <2>1. F # {}
      BY <2>4
    <2> HIDE DEF F
    <2> QED  BY <2>1, <2>3, FiniteLeast
  <1>2. PICK a \in S : A = Above(a)
    OBVIOUS
  <1>3. ASSUME NEW b \in S, <<b, a>> \in R PROVE FALSE
    <2>1. Above(b) \subseteq Above(a) /\ b \in Above(a) /\ b \notin Above(b)
      BY <1>3
    <2>2. Above(b) \in F
      OBVIOUS
    <2> QED  BY <1>1, <1>2, <2>1, <2>2
  <1> QED  BY <1>3

LEMMA FiniteImage ==
    ASSUME NEW n \in Nat, NEW f
    PROVE  IsFiniteSet({f[i] : i \in 1 .. n})
  <1> DEFINE g == [i \in 1 .. n |-> f[i]]
             T == {f[i] : i \in 1 .. n}
  <1>1. IsFiniteSet(1 .. n)
    BY FS_Interval
  <1>2. g \in Surjection(1 .. n, T)
    BY DEF Surjection
  <1> QED  BY <1>1, <1>2, FS_Surjection

(* Tuples compare in a strict total order.                                 *)
LEMMA ExceedsOrder ==
    ASSUME NEW m \in Nat, NEW k \in [1 .. m -> Int], NEW l \in [1 .. m -> Int],
           NEW j \in [1 .. m -> Int]
    PROVE  /\ ~Exceeds(k, k)
           /\ Exceeds(k, l) /\ Exceeds(l, j) => Exceeds(k, j)
           /\ k = l \/ Exceeds(k, l) \/ Exceeds(l, k)
  <1>1. ~Exceeds(k, k)
    BY DEF Exceeds
  <1>2. ASSUME Exceeds(k, l), Exceeds(l, j) PROVE Exceeds(k, j)
    <2>1. PICK p \in 1 .. m : k[p] > l[p] /\ \A q \in 1 .. p - 1 : k[q] = l[q]
      BY <1>2 DEF Exceeds
    <2>2. PICK r \in 1 .. m : l[r] > j[r] /\ \A q \in 1 .. r - 1 : l[q] = j[q]
      BY <1>2 DEF Exceeds
    <2>3. CASE p <= r
      <3>1. k[p] > j[p]
        <4>1. CASE p < r
          <5>1. l[p] = j[p]
            BY <2>2, <4>1
          <5> QED  BY <2>1, <5>1
        <4>2. CASE p = r
          BY <2>1, <2>2, <4>2
        <4> QED  BY <2>3, <4>1, <4>2
      <3>2. \A q \in 1 .. p - 1 : k[q] = j[q]
        BY <2>1, <2>2, <2>3
      <3> QED  BY <3>1, <3>2 DEF Exceeds
    <2>4. CASE r < p
      <3>1. k[r] > j[r]
        <4>1. k[r] = l[r]
          BY <2>1, <2>4
        <4> QED  BY <2>2, <4>1
      <3>2. \A q \in 1 .. r - 1 : k[q] = j[q]
        BY <2>1, <2>2, <2>4
      <3> QED  BY <3>1, <3>2 DEF Exceeds
    <2> QED  BY <2>3, <2>4
  <1>3. ASSUME k # l PROVE Exceeds(k, l) \/ Exceeds(l, k)
    <2> DEFINE D == {p \in 1 .. m : k[p] # l[p]}
    <2>1. D \in SUBSET Nat /\ D # {}
      <3>1. k = [p \in 1 .. m |-> k[p]] /\ l = [p \in 1 .. m |-> l[p]]
        OBVIOUS
      <3>2. \E p \in 1 .. m : k[p] # l[p]
        BY <1>3, <3>1
      <3>3. D # {}
        BY <3>2
      <3>4. 1 .. m \subseteq Nat /\ D \subseteq 1 .. m
        OBVIOUS
      <3> HIDE DEF D
      <3> QED  BY <3>3, <3>4
    <2>2. PICK p \in D : \A q \in D : p <= q
      BY <2>1, NatLeast
    <2>3. \A q \in 1 .. p - 1 : k[q] = l[q]
      BY <2>2
    <2>4. k[p] > l[p] \/ l[p] > k[p]
      BY <2>2
    <2> QED  BY <2>2, <2>3, <2>4 DEF Exceeds
  <1> QED  BY <1>1, <1>2, <1>3

(* The figures of a replay are numbers.                                    *)
LEMMA TallyType ==
    ASSUME NEW rows \in Seq(Row), NEW results
    PROVE  /\ Tally(rows, results).exact \in Nat /\ Tally(rows, results).actions \in Nat
           /\ Tally(rows, results).wrong \in Nat /\ Tally(rows, results).useful \in Nat
  <1>1. ASSUME NEW T \in SUBSET DOMAIN rows PROVE Cardinality(T) \in Nat
    <2>1. IsFiniteSet(DOMAIN rows)
      BY FS_Interval
    <2> QED  BY <1>1, <2>1, FS_Subset, FS_CardinalityType
  <1> QED  BY <1>1 DEF Tally

LEMMA FiguresType ==
    ASSUME NEW rows \in Seq(Row), NEW config
    PROVE  UpperClamped(rows, config) \in Nat /\ NearBoundary(rows, config) \in Nat
  <1>1. IsFiniteSet(Places(rows))
    <2> DEFINE f == [i \in 1 .. Len(rows) |-> {i} \X DOMAIN rows[i].trace]
    <2>1. DOMAIN rows = 1 .. Len(rows) /\ Len(rows) \in Nat
      OBVIOUS
    <2>2. ASSUME NEW i \in 1 .. Len(rows) PROVE IsFiniteSet(f[i])
      <3>1. rows[i] \in Row
        BY <2>1
      <3>2. rows[i].trace \in Seq(rows[i].candidates)
        BY <3>1, CalibrationAssumption
      <3>3. DOMAIN rows[i].trace = 1 .. Len(rows[i].trace) /\ Len(rows[i].trace) \in Nat
        BY <3>2
      <3> DEFINE n == Len(rows[i].trace)
      <3>4. f[i] = {i} \X (1 .. n) /\ n \in Int
        BY <3>3
      <3> HIDE DEF n, f
      <3>5. IsFiniteSet(1 .. n)
        BY <3>4, FS_Interval
      <3>6. IsFiniteSet({i})
        BY FS_Singleton
      <3> QED  BY <3>4, <3>5, <3>6, FS_Product
    <2>3. Places(rows) = UNION {f[i] : i \in 1 .. Len(rows)}
      BY <2>1 DEF Places
    <2> HIDE DEF f
    <2>4. IsFiniteSet({f[i] : i \in 1 .. Len(rows)})
      BY <2>1, FiniteImage
    <2>5. \A T \in {f[i] : i \in 1 .. Len(rows)} : IsFiniteSet(T)
      BY <2>2
    <2> QED  BY <2>3, <2>4, <2>5, FS_UNION
  <1>2. ASSUME NEW T \in SUBSET Places(rows) PROVE Cardinality(T) \in Nat
    BY <1>1, FS_Subset, FS_CardinalityType
  <1>3. UpperClamped(rows, config) \in Nat
    BY <1>2 DEF UpperClamped
  <1>4. NearBoundary(rows, config) \in Nat
    BY <1>2 DEF NearBoundary
  <1> QED  BY <1>3, <1>4

LEMMA KeyType ==
    ASSUME NEW n \in DOMAIN Configurations
    PROVE  SelectionKey(Configurations[n]) \in [1 .. 10 -> Int]
  <1> DEFINE c == Configurations[n]
             t == Tally(Corpus, Replays(Corpus, c))
  <1>1. Configurations \in Seq(Configuration) /\ Baseline \in Configuration /\ Rank(c) \in Nat
        /\ Corpus \in Seq(Row)
    BY CalibrationAssumption
  <1>2. c \in Configuration
    BY <1>1
  <1>3. t.exact \in Nat /\ t.actions \in Nat /\ t.wrong \in Nat /\ t.useful \in Nat
    BY <1>1, TallyType
  <1>4. UpperClamped(Corpus, c) \in Nat /\ NearBoundary(Corpus, c) \in Nat
    BY <1>1, FiguresType
  <1>5. PositiveWeights(c) \in Int /\ c.apply \in Int
    BY <1>2 DEF PositiveWeights, Configuration
  <1>6. BaselineDistance(c) \in Int
    <2> DEFINE Off(k) == IF c[k] > Baseline[k] THEN c[k] - Baseline[k] ELSE Baseline[k] - c[k]
    <2>1. \A k \in {"lexical", "authorization", "context", "phonetic", "alternative", "learned",
                    "negative", "apply", "suggest"} : c[k] \in Nat /\ Baseline[k] \in Nat
      BY <1>1, <1>2 DEF Configuration
    <2>2. /\ Off("lexical") \in Int /\ Off("authorization") \in Int /\ Off("context") \in Int
          /\ Off("phonetic") \in Int /\ Off("alternative") \in Int /\ Off("learned") \in Int
          /\ Off("negative") \in Int /\ Off("apply") \in Int /\ Off("suggest") \in Int
      BY <2>1
    <2> HIDE DEF Off
    <2>3. 10 * (Off("lexical") + Off("authorization") + Off("context") + Off("phonetic")
                + Off("alternative") + Off("learned") + Off("negative"))
          + Off("apply") + Off("suggest") + (IF c.transform = Baseline.transform THEN 0 ELSE 1000)
          \in Int
      BY <2>2
    <2> QED  BY <2>3 DEF BaselineDistance, Off
  <1>7. SelectionKey(c) =
          <<-t.wrong, -NearBoundary(Corpus, c), t.exact, t.actions, t.useful,
            -UpperClamped(Corpus, c), c.apply, -PositiveWeights(c), -BaselineDistance(c), Rank(c)>>
    BY DEF SelectionKey
  <1> HIDE DEF c, t
  <1>8. /\ -t.wrong \in Int /\ -NearBoundary(Corpus, c) \in Int
        /\ -UpperClamped(Corpus, c) \in Int /\ -PositiveWeights(c) \in Int
        /\ -BaselineDistance(c) \in Int /\ Rank(c) \in Int
    <2>1. \A x \in Int : -x \in Int
      OBVIOUS
    <2>2. -t.wrong \in Int
      BY <1>3, <2>1
    <2>3. -NearBoundary(Corpus, c) \in Int /\ -UpperClamped(Corpus, c) \in Int
      BY <1>4, <2>1
    <2>4. -PositiveWeights(c) \in Int /\ -BaselineDistance(c) \in Int
      BY <1>5, <1>6, <2>1
    <2>5. Rank(c) \in Int
      BY <1>1
    <2> QED  BY <2>2, <2>3, <2>4, <2>5
  <1>9. <<-t.wrong, -NearBoundary(Corpus, c), t.exact, t.actions, t.useful,
          -UpperClamped(Corpus, c), c.apply, -PositiveWeights(c), -BaselineDistance(c), Rank(c)>>
        \in [1 .. 10 -> Int]
    BY <1>3, <1>5, <1>8
  <1> QED  BY <1>7, <1>9 DEF c

(* The search as a loop: what is selected after one more configuration.    *)
LEMMA SelectedStep ==
    \A n \in DOMAIN Configurations :
        SelectedAmong[n] =
            IF n = 1 THEN Configurations[1]
            ELSE IF Exceeds(SelectionKey(Configurations[n]), SelectionKey(SelectedAmong[n - 1]))
            THEN Configurations[n]
            ELSE SelectedAmong[n - 1]
  <1> DEFINE N == Len(Configurations)
             Next1(x, n) == IF Exceeds(SelectionKey(Configurations[n]), SelectionKey(x))
                            THEN Configurations[n] ELSE x
             Loop(g, m) == g = [n \in 1 .. m |-> IF n = 1 THEN Configurations[1]
                                                 ELSE Next1(g[n - 1], n)]
             Failing == {m \in 1 .. N : ~\E g : Loop(g, m)}
  <1>1. N \in Nat /\ DOMAIN Configurations = 1 .. N
    BY CalibrationAssumption
  <1> HIDE DEF Next1
  <1>2. Failing = {}
    <2> SUFFICES ASSUME Failing # {} PROVE FALSE
      OBVIOUS
    <2>1. PICK m \in Failing : \A k \in Failing : m <= k
      <3>1. Failing \in SUBSET Nat
        BY <1>1
      <3> QED  BY <3>1, NatLeast
    <2>2. CASE m = 1
      <3>1. Loop([n \in 1 .. 1 |-> Configurations[1]], 1)
        OBVIOUS
      <3> QED  BY <2>1, <2>2, <3>1
    <2>3. CASE m # 1
      <3>1. m \in 1 .. N /\ m - 1 \in 1 .. N /\ m - 1 \notin Failing
        BY <1>1, <2>1, <2>3
      <3>2. PICK g : Loop(g, m - 1)
        BY <3>1
      <3> DEFINE h == [n \in 1 .. m |-> IF n = m THEN Next1(g[m - 1], m) ELSE g[n]]
      <3>3. ASSUME NEW n \in 1 .. m
            PROVE  h[n] = IF n = 1 THEN Configurations[1] ELSE Next1(h[n - 1], n)
        <4>1. CASE n = m
          BY <1>1, <2>3, <3>1, <4>1
        <4>2. CASE n # m
          <5>1. n \in 1 .. m - 1 /\ h[n] = g[n] /\ (n # 1 => h[n - 1] = g[n - 1])
            BY <1>1, <3>1, <4>2
          <5> QED  BY <3>2, <5>1
        <4> QED  BY <4>1, <4>2
      <3>4. Loop(h, m)
        BY <3>3
      <3> QED  BY <2>1, <3>4
    <2> QED  BY <2>2, <2>3
  <1>3. PICK g : Loop(g, N)
    <2>1. N \in 1 .. N
      BY CalibrationAssumption
    <2> QED  BY <1>2, <2>1
  <1>4. SelectedAmong = [n \in DOMAIN Configurations |->
          IF n = 1 THEN Configurations[1]
          ELSE IF Exceeds(SelectionKey(Configurations[n]), SelectionKey(SelectedAmong[n - 1]))
          THEN Configurations[n]
          ELSE SelectedAmong[n - 1]]
    BY <1>1, <1>3 DEF SelectedAmong, Next1
  <1> QED  BY <1>1, <1>4

LEMMA KeyOrder ==
    \A k, l, j \in [1 .. 10 -> Int] :
        /\ Exceeds(k, l) /\ Exceeds(l, j) => Exceeds(k, j)
        /\ k = l \/ Exceeds(k, l) \/ Exceeds(l, k)
  <1>1. 10 \in Nat
    OBVIOUS
  <1> QED  BY <1>1, ExceedsOrder

(* The loop has the best of what it has searched.                          *)
LEMMA SelectedSoFar ==
    ASSUME NEW n \in DOMAIN Configurations
    PROVE  /\ \E k \in 1 .. n : SelectedAmong[n] = Configurations[k]
           /\ \A k \in 1 .. n :
                 \/ Configurations[k] = SelectedAmong[n]
                 \/ Exceeds(SelectionKey(SelectedAmong[n]), SelectionKey(Configurations[k]))
  <1> DEFINE N == Len(Configurations)
             Best(m) ==
                /\ \E k \in 1 .. m : SelectedAmong[m] = Configurations[k]
                /\ \A k \in 1 .. m :
                      \/ Configurations[k] = SelectedAmong[m]
                      \/ Exceeds(SelectionKey(SelectedAmong[m]), SelectionKey(Configurations[k]))
             Failing == {m \in 1 .. N : ~Best(m)}
  <1>1. N \in Nat /\ DOMAIN Configurations = 1 .. N
    BY CalibrationAssumption
  <1>2. Best(1)
    <2>1. 1 \in DOMAIN Configurations
      BY CalibrationAssumption
    <2> QED  BY <2>1, SelectedStep
  <1>3. ASSUME NEW m \in 2 .. N, Best(m - 1) PROVE Best(m)
    <2> DEFINE before == SelectedAmong[m - 1]
               now == SelectedAmong[m]
               new == Configurations[m]
    <2>1. /\ m \in DOMAIN Configurations /\ m \in 1 .. m /\ m # 1
          /\ \A k \in 1 .. m : k \in DOMAIN Configurations /\ (k # m => k \in 1 .. m - 1)
          /\ \A k \in 1 .. m - 1 : k \in 1 .. m
      BY <1>1
    <2>2. now = IF Exceeds(SelectionKey(new), SelectionKey(before)) THEN new ELSE before
      BY <2>1, SelectedStep
    <2>3. PICK b \in 1 .. m - 1 : before = Configurations[b]
      BY <1>3
    <2>4. \A k \in 1 .. m : SelectionKey(Configurations[k]) \in [1 .. 10 -> Int]
      BY <2>1, KeyType
    <2>5. SelectionKey(before) \in [1 .. 10 -> Int] /\ SelectionKey(new) \in [1 .. 10 -> Int]
      BY <2>1, <2>3, <2>4
    <2>6. CASE Exceeds(SelectionKey(new), SelectionKey(before))
      <3>1. now = new
        BY <2>2, <2>6
      <3>2. ASSUME NEW k \in 1 .. m, Configurations[k] # new
            PROVE  Exceeds(SelectionKey(new), SelectionKey(Configurations[k]))
        <4>1. k \in 1 .. m - 1
          BY <2>1, <3>2
        <4>2. \/ Configurations[k] = before
              \/ Exceeds(SelectionKey(before), SelectionKey(Configurations[k]))
          BY <1>3, <4>1
        <4> QED  BY <2>4, <2>5, <2>6, <4>2, KeyOrder
      <3> QED  BY <2>1, <3>1, <3>2
    <2>7. CASE ~Exceeds(SelectionKey(new), SelectionKey(before))
      <3>1. now = before
        BY <2>2, <2>7
      <3>2. new = before \/ Exceeds(SelectionKey(before), SelectionKey(new))
        <4>1. CASE SelectionKey(new) = SelectionKey(before)
          <5>1. Rank(new) = Rank(before)
            BY <4>1 DEF SelectionKey
          <5> QED  BY <2>1, <2>3, <5>1, CalibrationAssumption
        <4>2. CASE SelectionKey(new) # SelectionKey(before)
          BY <2>5, <2>7, <4>2, KeyOrder
        <4> QED  BY <4>1, <4>2
      <3>3. ASSUME NEW k \in 1 .. m
            PROVE  \/ Configurations[k] = before
                   \/ Exceeds(SelectionKey(before), SelectionKey(Configurations[k]))
        <4>1. CASE k = m
          BY <3>2, <4>1
        <4>2. CASE k # m
          BY <1>3, <2>1, <4>2
        <4> QED  BY <4>1, <4>2
      <3> QED  BY <2>1, <2>3, <3>1, <3>3
    <2> QED  BY <2>6, <2>7
  <1> HIDE DEF Best
  <1>4. Failing = {}
    <2> SUFFICES ASSUME Failing # {} PROVE FALSE
      OBVIOUS
    <2>1. PICK m \in Failing : \A k \in Failing : m <= k
      <3>1. Failing \in SUBSET Nat
        BY <1>1
      <3> QED  BY <3>1, NatLeast
    <2>2. m \in 2 .. N /\ m - 1 \in 1 .. N /\ ~Best(m)
      BY <1>1, <1>2, <2>1
    <2>3. Best(m - 1)
      BY <1>1, <2>1, <2>2
    <2> QED  BY <1>3, <2>2, <2>3
  <1>5. Best(n)
    BY <1>1, <1>4
  <1> QED  BY <1>5 DEF Best

(* The configuration the search fixes is the best of all, in whatever      *)
(* order they come: none makes fewer wrong interventions on the            *)
(* calibration corpus, and of those that make as few none has fewer scores *)
(* at the apply boundary, counted as metrics counts them, each re-sorted   *)
(* score with the blockers at its place of the trace (selection_key).      *)
THEOREM TheBestIsSelected ==
    /\ SelectedIsBest
    /\ \A n \in DOMAIN Configurations :
          LET config == Configurations[n]
              least == Tally(Corpus, Replays(Corpus, Selected)).wrong
              wrong == Tally(Corpus, Replays(Corpus, config)).wrong
          IN  /\ least <= wrong
              /\ least = wrong => NearBoundary(Corpus, Selected) <= NearBoundary(Corpus, config)
  <1>1. Len(Configurations) \in DOMAIN Configurations /\ Corpus \in Seq(Row)
        /\ DOMAIN Configurations = 1 .. Len(Configurations)
    BY CalibrationAssumption
  <1>2. SelectedIsBest
    BY <1>1, SelectedSoFar DEF SelectedIsBest, Selected
  <1>3. ASSUME NEW n \in DOMAIN Configurations
        PROVE  LET config == Configurations[n]
                   least == Tally(Corpus, Replays(Corpus, Selected)).wrong
                   wrong == Tally(Corpus, Replays(Corpus, config)).wrong
               IN  /\ least <= wrong
                   /\ least = wrong =>
                         NearBoundary(Corpus, Selected) <= NearBoundary(Corpus, config)
    <2> DEFINE w == Tally(Corpus, Replays(Corpus, Selected)).wrong
               v == Tally(Corpus, Replays(Corpus, Configurations[n])).wrong
               x == NearBoundary(Corpus, Selected)
               y == NearBoundary(Corpus, Configurations[n])
               k == SelectionKey(Selected)
               l == SelectionKey(Configurations[n])
    <2>1. w \in Nat /\ v \in Nat /\ x \in Nat /\ y \in Nat
      BY <1>1, TallyType, FiguresType
    <2>2. k[1] = -w /\ l[1] = -v /\ k[2] = -x /\ l[2] = -y /\ DOMAIN k = 1 .. 10
      BY DEF SelectionKey
    <2> HIDE DEF w, v, x, y, k, l
    <2>3. ASSUME Exceeds(k, l) PROVE w <= v /\ (w = v => x <= y)
      <3>1. PICK p \in 1 .. 10 : k[p] > l[p] /\ \A q \in 1 .. p - 1 : k[q] = l[q]
        BY <2>2, <2>3 DEF Exceeds
      <3>2. CASE p = 1
        BY <2>1, <2>2, <3>1, <3>2
      <3>3. CASE p = 2
        <4>1. k[1] = l[1]
          BY <3>1, <3>3
        <4> QED  BY <2>1, <2>2, <3>1, <3>3, <4>1
      <3>4. CASE p \notin {1, 2}
        <4>1. 1 \in 1 .. p - 1 /\ 2 \in 1 .. p - 1
          BY <3>4
        <4> QED  BY <2>1, <2>2, <3>1, <4>1
      <3> QED  BY <3>2, <3>3, <3>4
    <2>4. ASSUME Configurations[n] = Selected PROVE w <= v /\ (w = v => x <= y)
      <3>1. w = v /\ x = y
        BY <2>4 DEF w, v, x, y
      <3> QED  BY <2>1, <3>1
    <2>5. Exceeds(k, l) \/ Configurations[n] = Selected
      BY <1>2 DEF SelectedIsBest, k, l
    <2>6. w <= v /\ (w = v => x <= y)
      BY <2>3, <2>4, <2>5
    <2> QED  BY <2>6 DEF w, v, x, y
  <1> QED  BY <1>2, <1>3

(* The best threshold of a set of them.                                    *)
LEMMA ForemostBest ==
    ASSUME NEW S \in SUBSET Search, S # {}
    PROVE  /\ Foremost(S) \in S
           /\ \A o \in S \ {Foremost(S)} : Exceeds(Merit(Foremost(S)), Merit(o))
           /\ \A o \in S : Metrics(Corpus, Foremost(S)).exact >= Metrics(Corpus, o).exact
  <1> DEFINE R == {p \in S \X S : Exceeds(Merit(p[1]), Merit(p[2]))}
  <1>1. Minimum \in Nat /\ Maximum \in Nat /\ Corpus \in Seq(Row) /\ 3 \in Nat
    BY CalibrationAssumption
  <1>2. IsFiniteSet(S)
    <2>1. S \in SUBSET (Minimum .. Maximum) /\ IsFiniteSet(Minimum .. Maximum)
      BY <1>1, FS_Interval DEF Search
    <2> QED  BY <2>1, FS_Subset
  <1>3. \A t \in S : Metrics(Corpus, t).exact \in Nat /\ Metrics(Corpus, t).actions \in Nat /\ t \in Int
    <2>1. S \subseteq Int
      BY <1>1 DEF Search
    <2> QED  BY <1>1, <2>1, TallyType DEF Metrics
  <1>4. \A t \in S : /\ Merit(t) \in [1 .. 3 -> Int] /\ Merit(t)[3] = t
                     /\ Merit(t)[1] = Metrics(Corpus, t).exact
    BY <1>3 DEF Merit
  <1>5. \A k, l, j \in [1 .. 3 -> Int] :
            /\ ~Exceeds(k, k)
            /\ Exceeds(k, l) /\ Exceeds(l, j) => Exceeds(k, j)
            /\ k = l \/ Exceeds(k, l) \/ Exceeds(l, k)
    BY <1>1, ExceedsOrder
  <1>6. PICK a \in S : \A b \in S : <<b, a>> \notin R
    <2>1. \A b \in S : <<b, b>> \notin R
      BY <1>4, <1>5
    <2>2. \A b, c, d \in S : <<b, c>> \in R /\ <<c, d>> \in R => <<b, d>> \in R
      BY <1>4, <1>5
    <2> HIDE DEF R
    <2> QED  BY <1>2, <2>1, <2>2, FiniteGreatest
  <1>7. \A o \in S \ {a} : Exceeds(Merit(a), Merit(o))
    <2> SUFFICES ASSUME NEW o \in S, o # a PROVE Exceeds(Merit(a), Merit(o))
      OBVIOUS
    <2>1. ~Exceeds(Merit(o), Merit(a))
      BY <1>6
    <2>2. Merit(o) # Merit(a)
      BY <1>4
    <2> QED  BY <1>4, <1>5, <2>1, <2>2
  <1>8. Foremost(S) \in S /\ \A o \in S \ {Foremost(S)} : Exceeds(Merit(Foremost(S)), Merit(o))
    BY <1>7 DEF Foremost
  <1> HIDE DEF R
  <1>9. ASSUME NEW o \in S
        PROVE  Metrics(Corpus, Foremost(S)).exact >= Metrics(Corpus, o).exact
    <2> DEFINE f == Foremost(S)
    <2>1. /\ Metrics(Corpus, f).exact \in Nat /\ Metrics(Corpus, o).exact \in Nat
          /\ Merit(f)[1] = Metrics(Corpus, f).exact /\ Merit(o)[1] = Metrics(Corpus, o).exact
          /\ Merit(f) \in [1 .. 3 -> Int]
      BY <1>3, <1>4, <1>8
    <2>2. ASSUME o = f PROVE Metrics(Corpus, f).exact >= Metrics(Corpus, o).exact
      BY <2>1, <2>2
    <2>3. ASSUME o # f PROVE Metrics(Corpus, f).exact >= Metrics(Corpus, o).exact
      <3>1. Exceeds(Merit(f), Merit(o))
        BY <1>8, <2>3
      <3> HIDE DEF f
      <3>2. PICK p \in 1 .. 3 : /\ Merit(f)[p] > Merit(o)[p]
                                /\ \A q \in 1 .. p - 1 : Merit(f)[q] = Merit(o)[q]
        BY <2>1, <3>1 DEF Exceeds
      <3>3. p = 1 => Metrics(Corpus, f).exact >= Metrics(Corpus, o).exact
        BY <2>1, <3>2
      <3>4. p # 1 => Metrics(Corpus, f).exact >= Metrics(Corpus, o).exact
        <4>1. p # 1 => 1 \in 1 .. p - 1
          BY <3>2
        <4> QED  BY <2>1, <3>2, <4>1
      <3> QED  BY <3>3, <3>4
    <2> QED  BY <2>2, <2>3
  <1> QED  BY <1>8, <1>9

(* The gate of calibrate_policy.py: while the usual threshold is searched  *)
(* and makes no wrong intervention on the corpus, a threshold is found, it *)
(* is at least as good on both corpora, and "promote" is said just when    *)
(* the candidate is the active threshold, whatever the corpora hold.       *)
THEOREM PromotionIsActivation == GateAgrees
  <1> SUFFICES ASSUME Usual \in Search, Metrics(Corpus, Usual).wrong = 0
               PROVE  /\ ActiveThreshold \in Eligible
                      /\ Metrics(Corpus, ActiveThreshold).exact >= Metrics(Corpus, Usual).exact
                      /\ PromotionAllowed <=> ActiveThreshold = CalibrationCandidate
    BY DEF GateAgrees
  <1>1. Corpus \in Seq(Row) /\ SafetyCorpus \in Seq(Row)
    BY CalibrationAssumption
  <1>2. \A t : /\ Metrics(SafetyCorpus, t).wrong \in Nat /\ Metrics(SafetyCorpus, t).exact \in Nat
               /\ Metrics(Corpus, t).wrong \in Nat /\ Metrics(Corpus, t).exact \in Nat
    BY <1>1, TallyType DEF Metrics
  <1>3. SafeAt(Usual)
    BY <1>2 DEF SafeAt
  <1>4. /\ CalibrationEligible \in SUBSET Search /\ Usual \in CalibrationEligible
        /\ Eligible \in SUBSET Search /\ Usual \in Eligible /\ Eligible \subseteq CalibrationEligible
    BY <1>3 DEF CalibrationEligible, Eligible
  <1>5. /\ ActiveThreshold \in Eligible
        /\ \A o \in Eligible \ {ActiveThreshold} : Exceeds(Merit(ActiveThreshold), Merit(o))
        /\ Metrics(Corpus, ActiveThreshold).exact >= Metrics(Corpus, Usual).exact
    BY <1>4, ForemostBest DEF ActiveThreshold
  <1> DEFINE best == CalibrationCandidate
  <1>6. /\ best \in CalibrationEligible
        /\ \A o \in CalibrationEligible \ {best} : Exceeds(Merit(best), Merit(o))
        /\ Metrics(Corpus, best).exact >= Metrics(Corpus, Usual).exact
    BY <1>4, ForemostBest DEF CalibrationCandidate
  <1>7. Metrics(Corpus, best).wrong = 0
    BY <1>6 DEF CalibrationEligible
  <1>8. PromotionAllowed <=> SafeAt(best)
    <2>1. Metrics(Corpus, best).wrong <= Metrics(Corpus, Usual).wrong
      BY <1>7
    <2> QED  BY <1>6, <2>1 DEF PromotionAllowed
  <1>9. SafeAt(best) <=> best \in Eligible
    BY <1>6 DEF Eligible
  <1>10. ASSUME best \in Eligible, best # ActiveThreshold PROVE FALSE
    <2>1. Exceeds(Merit(ActiveThreshold), Merit(best)) /\ Exceeds(Merit(best), Merit(ActiveThreshold))
      BY <1>4, <1>5, <1>6, <1>10
    <2>2. Merit(ActiveThreshold) \in [1 .. 3 -> Int] /\ Merit(best) \in [1 .. 3 -> Int] /\ 3 \in Nat
      <3>1. ActiveThreshold \in Int /\ best \in Int
        BY <1>4, <1>5, <1>6, CalibrationAssumption DEF Search
      <3>2. \A t \in Int : Merit(t) \in [1 .. 3 -> Int]
        BY <1>1, TallyType DEF Merit, Metrics
      <3> QED  BY <3>1, <3>2
    <2> QED  BY <2>1, <2>2, ExceedsOrder
  <1> QED  BY <1>5, <1>8, <1>9, <1>10
=============================================================================
