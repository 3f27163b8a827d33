---------------------------- MODULE MCConcurrent ----------------------------
(***************************************************************************)
(* Small instances of ConcurrentLifecycle for TLC: the shipped trust       *)
(* policy, two or three workers, and the requests each run needs.          *)
(***************************************************************************)
EXTENDS ConcurrentLifecycle, TLC

CONSTANTS m1, m2, d1, d2, f1, f2, e1, c1, c2, w1, w2

Span(m, start) == [memory |-> m, start |-> start, source |-> f2, asr |-> TRUE, context |-> c1]

TeachRequest(form, event) ==
    [op |-> "teach", form |-> form, scope |-> "global", variants |-> {f2},
     event |-> event, context |-> c1]

CorrectRequest(event, context, confirm) ==
    [op |-> "correct", form |-> f1, source |-> f2, event |-> event,
     context |-> context, confirm |-> confirm]

FeedbackRequest(decision, m, accepted, suppress) ==
    [op |-> "feedback", decision |-> decision, target |-> Span(m, 1),
     accepted |-> accepted, scope |-> "auto", suppress |-> suppress]

PatchRequest(m, form, state) ==
    [op |-> "patch", memory |-> m,
     change |-> [canonical |-> form, state |-> state, scope |-> Keep, manual |-> FALSE]]

MergeRequest(m, source) == [op |-> "merge", memory |-> m, source |-> source]

(* Corrections, judgements and overrides of one memory.                    *)
Judging ==
    {TeachRequest(f1, e1), CorrectRequest(NoEvent, c1, FALSE),
     CorrectRequest(NoEvent, c2, FALSE), FeedbackRequest(d1, m1, FALSE, FALSE),
     FeedbackRequest(d2, m1, FALSE, FALSE), FeedbackRequest(d1, m1, TRUE, FALSE),
     FeedbackRequest(d1, m1, FALSE, TRUE), PatchRequest(m1, NoForm, "candidate")}

(* Two memories created, renamed, judged and merged.                       *)
Sharing ==
    {TeachRequest(f1, e1), TeachRequest(f2, NoEvent), CorrectRequest(e1, c1, TRUE),
     FeedbackRequest(d1, m1, TRUE, FALSE), FeedbackRequest(d1, m2, TRUE, FALSE),
     PatchRequest(m1, f2, Keep), MergeRequest(m1, m2), MergeRequest(m2, m1)}

Starts == {1}

Symmetry == Permutations(Worker)
=============================================================================
