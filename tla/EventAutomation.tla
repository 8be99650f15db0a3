-------------------------- MODULE EventAutomation --------------------------
(***************************************************************************)
(* One event of crm/tools: its life (event.service.ts) and the automation  *)
(* that reminds before it and follows up after it                          *)
(* (event-automation.service.ts).                                          *)
(*                                                                         *)
(* Each server instance runs the cron job, and requests of the organisers  *)
(* run beside it.  Both work on one document: a step is claimed in its     *)
(* automationLog by a conditional update, sent, and then recorded there.   *)
(***************************************************************************)
EXTENDS Integers, FiniteSets

CONSTANTS
    Instances,    \* server instances, each with its cron job
    Handlers,     \* requests that may be in flight at once
    PreSteps,     \* reminders before the event
    PostSteps,    \* follow-ups after it
    Manual,       \* the steps with a "Send now" button
    StartsAt, EndsAt,
    Lead, PreGrace,   \* a reminder is due Lead before the start
    Delay, PostGrace, \* a follow-up is due Delay after the end
    CloseDelay,   \* the event is closed so long after its end
    Ahead, Past,  \* the job looks for events so far ahead and so long past
    MaxNow,       \* bound: the clock
    MaxRequests,  \* bound: requests ever accepted
    MaxFaults     \* bound: workers that die

Steps == PreSteps \union PostSteps
Workers == Instances \union Handlers
NoStep == 0

ASSUME AutomationAssumption ==
    /\ {StartsAt, EndsAt, Lead, PreGrace, Delay, PostGrace, CloseDelay,
        Ahead, Past, MaxNow, MaxRequests, MaxFaults} \subseteq Nat
    /\ Steps \subseteq Nat \ {NoStep}
    /\ StartsAt < EndsAt
    /\ \A s \in PreSteps, u \in PostSteps : s < u
    /\ Instances \intersect Handlers = {}
    /\ Manual \subseteq Steps

VARIABLES
    now,
    status,    \* of the event
    published, \* publishedAt, 0 before
    completed, \* completedAt, 0 before
    enabled,   \* the automation settings
    log,       \* automationLog: the status recorded for each step
    job,       \* what each worker is doing
    requests,  \* requests accepted so far
    faults,    \* workers that died so far
    sends,     \* history: how often each step's mail went out
    mailed,    \* history: how often the invitations went out
    raced,     \* history: steps resent while a worker was still at them
    clashed,   \* history: whether two changes of the status overlapped
    abandoned  \* history: steps whose worker died at them

event == <<status, published, completed, enabled, log>>
history == <<sends, mailed, raced, clashed, abandoned>>
vars == <<now, event, job, requests, faults, history>>

EventStatus == {"draft", "published", "completed", "cancelled"}
RunStatus == {"none", "sending", "sent", "skipped", "failed"}

Idle == [pc |-> "idle", s |-> NoStep, todo |-> {}, missed |-> {}, at |-> 0,
         seen |-> "draft", result |-> "none"]

Job == [pc : {"idle", "load", "loop", "pull", "claim", "send", "finish",
              "invite", "publish", "cancel", "complete"},
        s : Steps \union {NoStep}, todo : SUBSET Steps, missed : SUBSET Steps,
        at : Nat, seen : EventStatus, result : RunStatus]

TypeOK ==
    /\ now \in Nat /\ published \in Nat /\ completed \in Nat
    /\ requests \in Nat /\ faults \in Nat /\ mailed \in Nat
    /\ status \in EventStatus
    /\ clashed \in BOOLEAN
    /\ enabled \subseteq Steps
    /\ log \in [Steps -> RunStatus]
    /\ job \in [Workers -> Job]
    /\ sends \in [Steps -> Nat]
    /\ raced \subseteq Steps
    /\ abandoned \subseteq Steps

Init ==
    /\ now = 1
    /\ status = "draft"
    /\ published = 0
    /\ completed = 0
    /\ enabled = Steps
    /\ log = [s \in Steps |-> "none"]
    /\ job = [w \in Workers |-> Idle]
    /\ requests = 0
    /\ faults = 0
    /\ sends = [s \in Steps |-> 0]
    /\ mailed = 0
    /\ raced = {}
    /\ clashed = FALSE
    /\ abandoned = {}

-----------------------------------------------------------------------------
(* The schedule *)

\* Delays count from when the event really ended.
Base == IF completed # 0 /\ completed < EndsAt THEN completed ELSE EndsAt
DueAt(s) == IF s \in PreSteps THEN StartsAt - Lead ELSE Base + Delay
Grace(s) == IF s \in PreSteps THEN PreGrace ELSE PostGrace

\* Mutant of Due: follow-ups, too, ask for a published event.
DueWhilePublished(t) ==
    {s \in enabled : /\ log[s] = "none"
                     /\ t >= DueAt(s)
                     /\ status = "published"}

\* The steps that a run at time t acts on, given the document it has read.
Due(t) ==
    {s \in enabled : /\ log[s] = "none"
                     /\ t >= DueAt(s)
                     /\ s \in PreSteps => status = "published"}

\* Of these, the ones to skip: their moment has passed.
Missed(t) ==
    {s \in Due(t) : \/ t > DueAt(s) + Grace(s)
                    \/ s \in PreSteps /\ t >= StartsAt
                    \/ s \in PreSteps /\ published # 0 /\ DueAt(s) < published}

-----------------------------------------------------------------------------
(* The life of a worker *)

Become(w, new) == job' = [job EXCEPT ![w] = new]
Goto(w, pc) == job' = [job EXCEPT ![w].pc = pc]
Free(w) == job[w].pc = "idle"

\* A handler takes a request.
Accept(h, new) ==
    /\ Free(h)
    /\ requests < MaxRequests
    /\ requests' = requests + 1
    /\ Become(h, new)

\* A worker is at step s, between reading its record and the last write to it.
At(w, s) == job[w].s = s /\ job[w].pc \in {"pull", "claim", "send", "finish"}
\* A request is changing the status.
Changing(w) ==
    job[w].pc \in {"invite", "publish", "cancel", "complete"}
NoteClash(h) == clashed' = (clashed \/ \E w \in Workers \ {h} : Changing(w))

-----------------------------------------------------------------------------
(* Steps that a run and a manual send share: claim, execute, record *)

\* Mutant of Claim: the update does not ask that the key be new.
ClaimAnyway(w, s, claimed, lost) ==
    /\ log' = [log EXCEPT ![s] = claimed.result]
    /\ Become(w, claimed)

\* The conditional update: it inserts the record if the step has none.
Claim(w, s, claimed, lost) ==
    \/ /\ log[s] = "none"
       /\ log' = [log EXCEPT ![s] = claimed.result]
       /\ Become(w, claimed)
    \/ /\ log[s] # "none"
       /\ Become(w, lost)
       /\ UNCHANGED log

\* Mutant of Execute: nobody catches what it throws.
ExecuteUncaught(w) ==
    /\ job[w].pc = "send"
    /\ \/ /\ job' = [job EXCEPT ![w].result = "sent", ![w].pc = "finish"]
          /\ sends' = [sends EXCEPT ![job[w].s] = @ + 1]
       \/ Become(w, Idle) /\ UNCHANGED sends
    /\ UNCHANGED <<now, event, requests, faults, mailed, raced, clashed,
                   abandoned>>

\* The mail goes out to at least one guest, or to none: every address failed,
\* nobody is left to write to, or a query failed on the way.
Execute(w) ==
    /\ job[w].pc = "send"
    /\ \E r \in {"sent", "failed", "skipped"} :
           /\ job' = [job EXCEPT ![w].result = r, ![w].pc = "finish"]
           /\ sends' = IF r = "sent"
                       THEN [sends EXCEPT ![job[w].s] = @ + 1] ELSE sends
    /\ UNCHANGED <<now, event, requests, faults, mailed, raced, clashed,
                   abandoned>>

\* Mutant of Record: a failure is recorded whatever came of the step.
RecordFailed(w) == log' = [log EXCEPT ![job[w].s] = "failed"]

\* The result is written to the record with that key, if there is one.
Record(w) ==
    log' = IF log[job[w].s] = "none" THEN log
           ELSE [log EXCEPT ![job[w].s] = job[w].result]

\* finish(): a run goes on with its next step, a request is over.
FinishStep(w) ==
    /\ job[w].pc = "finish"
    /\ Record(w)
    /\ Become(w, IF w \in Instances
                 THEN [job[w] EXCEPT !.pc = "loop", !.s = NoStep,
                                     !.result = "none"]
                 ELSE Idle)
    /\ UNCHANGED <<now, status, published, completed, enabled,
                   requests, faults, history>>

-----------------------------------------------------------------------------
(* The cron job *)

\* Only events dated near enough to t are listed, whatever is due of them.
InWindow(t) == t <= StartsAt + Past /\ StartsAt <= t + Ahead

\* tick() lists the event, unless the last run of this instance is still on.
StartTick(i) ==
    /\ Free(i)
    /\ status \in {"published", "completed"}
    /\ InWindow(now)
    /\ Become(i, [Idle EXCEPT !.pc = "load", !.at = now])
    /\ UNCHANGED <<now, event, requests, faults, history>>

\* processEvent() reads the document, and works from that copy.
LoadEvent(i) ==
    /\ job[i].pc = "load"
    /\ Become(i, [job[i] EXCEPT !.pc = "loop", !.seen = status,
                                !.todo = Due(job[i].at),
                                !.missed = Missed(job[i].at)])
    /\ UNCHANGED <<now, event, requests, faults, history>>

\* The next step in the order of the schedule: claimed as skipped or as being
\* sent, or passed over when somebody else has claimed it.
ClaimNext(i) ==
    /\ job[i].pc = "loop"
    /\ \E s \in job[i].todo :
           /\ \A u \in job[i].todo : s <= u
           /\ LET rest == [job[i] EXCEPT !.todo = @ \ {s}]
              IN  Claim(i, s,
                        IF s \in job[i].missed
                        THEN [rest EXCEPT !.pc = "finish", !.s = s,
                                          !.result = "skipped"]
                        ELSE [rest EXCEPT !.pc = "send", !.s = s,
                                          !.result = "sending"],
                        rest)
    /\ UNCHANGED <<now, status, published, completed, enabled,
                   requests, faults, history>>

\* Mutant of MayClose: the update does not ask for a published event.
MayCloseAny(i) ==
    job[i].seen = "published" /\ job[i].at >= EndsAt + CloseDelay

\* Mutant of MayClose: an event is not closed at that very moment.
MayCloseLater(i) ==
    /\ job[i].seen = "published"
    /\ job[i].at > EndsAt + CloseDelay
    /\ status = "published"

MayClose(i) ==
    /\ job[i].seen = "published"
    /\ job[i].at >= EndsAt + CloseDelay
    /\ status = "published"

\* After the last step, an event long over is closed; the run ends.
EndTick(i) ==
    /\ job[i].pc = "loop"
    /\ job[i].todo = {}
    /\ IF MayClose(i)
       THEN /\ status' = "completed"
            /\ completed' = job[i].at
            /\ clashed' = (clashed \/ \E w \in Workers : Changing(w))
       ELSE UNCHANGED <<status, completed, clashed>>
    /\ Become(i, Idle)
    /\ UNCHANGED <<now, published, enabled, log, requests, faults,
                   sends, mailed, raced, abandoned>>

-----------------------------------------------------------------------------
(* Send now *)

Sendable(s) ==
    /\ s \in Manual
    /\ log[s] \notin {"sent", "sending"}
    /\ IF s \in PreSteps
       THEN status = "published" /\ now < StartsAt
       ELSE \/ status = "completed"
            \/ status = "published" /\ now >= EndsAt

RunNow(h, s) ==
    /\ Sendable(s)
    /\ Accept(h, [Idle EXCEPT !.s = s,
                  !.pc = IF log[s] = "none" THEN "claim" ELSE "pull"])
    /\ raced' = IF log[s] # "none" /\ \E w \in Workers \ {h} : At(w, s)
                THEN raced \union {s} ELSE raced
    /\ UNCHANGED <<now, event, faults, sends, mailed, clashed, abandoned>>

\* The old record is pulled, whatever it says by now.
Pull(h) ==
    /\ job[h].pc = "pull"
    /\ log' = [log EXCEPT ![job[h].s] = "none"]
    /\ Goto(h, "claim")
    /\ UNCHANGED <<now, status, published, completed, enabled,
                   requests, faults, history>>

ClaimManually(h) ==
    /\ job[h].pc = "claim"
    /\ Claim(h, job[h].s,
             [job[h] EXCEPT !.pc = "send", !.result = "sending"], Idle)
    /\ UNCHANGED <<now, status, published, completed, enabled,
                   requests, faults, history>>

-----------------------------------------------------------------------------
(* The organiser's other requests *)

UpdateAutomation(s) ==
    /\ status # "cancelled"
    /\ requests < MaxRequests
    /\ requests' = requests + 1
    /\ enabled' = IF s \in enabled THEN enabled \ {s} ELSE enabled \union {s}
    /\ UNCHANGED <<now, status, published, completed, log, job,
                   faults, history>>

\* Mutant of Publishable: only an event that is over is refused.
PublishableUnlessOver == status \notin {"completed", "cancelled"}

Publishable == status = "draft"

\* Publishing mails the guests of the draft, and then saves it as published,
\* with the times they were mailed.
Publish(h) ==
    /\ Publishable
    /\ Accept(h, [Idle EXCEPT !.pc = "invite", !.at = now])
    /\ NoteClash(h)
    /\ UNCHANGED <<now, event, faults, sends, mailed, raced, abandoned>>

MailInvitations(h) ==
    /\ job[h].pc = "invite"
    /\ mailed' = mailed + 1
    /\ Goto(h, "publish")
    /\ UNCHANGED <<now, event, requests, faults, sends, raced, clashed,
                   abandoned>>

SavePublished(h) ==
    /\ job[h].pc = "publish"
    /\ status' = "published"
    /\ published' = job[h].at
    /\ Become(h, Idle)
    /\ UNCHANGED <<now, completed, enabled, log, requests, faults, history>>

\* Mutant of Cancellable: only a cancelled event is refused.
CancellableUnlessCancelled == status # "cancelled"

Cancellable == status \notin {"completed", "cancelled"}

\* Cancelling tells the guests of a published event, and then saves.
Cancel(h) ==
    /\ Cancellable
    /\ Accept(h, [Idle EXCEPT !.pc = "cancel"])
    /\ NoteClash(h)
    /\ UNCHANGED <<now, event, faults, sends, mailed, raced, abandoned>>

SaveCancelled(h) ==
    /\ job[h].pc = "cancel"
    /\ status' = "cancelled"
    /\ Become(h, Idle)
    /\ UNCHANGED <<now, published, completed, enabled, log, requests,
                   faults, history>>

Complete(h) ==
    /\ status = "published"
    /\ Accept(h, [Idle EXCEPT !.pc = "complete", !.at = now])
    /\ NoteClash(h)
    /\ UNCHANGED <<now, event, faults, sends, mailed, raced, abandoned>>

SaveCompleted(h) ==
    /\ job[h].pc = "complete"
    /\ status' = "completed"
    /\ completed' = job[h].at
    /\ Become(h, Idle)
    /\ UNCHANGED <<now, published, enabled, log, requests, faults,
                   history>>

-----------------------------------------------------------------------------
(* Time and faults *)

Tick ==
    /\ now < MaxNow
    /\ now' = now + 1
    /\ UNCHANGED <<event, job, requests, faults, history>>

\* A worker dies, with its instance or on a failed database call.
Die(w) ==
    /\ ~Free(w)
    /\ faults < MaxFaults
    /\ faults' = faults + 1
    /\ Become(w, Idle)
    /\ abandoned' = abandoned \union {s \in Steps : At(w, s)}
    /\ UNCHANGED <<now, event, requests, sends, mailed, raced, clashed>>

-----------------------------------------------------------------------------
CronStep(i) ==
    StartTick(i) \/ LoadEvent(i) \/ ClaimNext(i) \/ Execute(i)
        \/ FinishStep(i) \/ EndTick(i)

Requested(h) ==
    \/ \E s \in Steps : RunNow(h, s)
    \/ Publish(h)
    \/ Cancel(h)
    \/ Complete(h)

RequestStep(h) ==
    \/ Pull(h) \/ ClaimManually(h) \/ Execute(h) \/ FinishStep(h)
    \/ MailInvitations(h) \/ SavePublished(h)
    \/ SaveCancelled(h) \/ SaveCompleted(h)

Next ==
    \/ \E i \in Instances : CronStep(i)
    \/ \E h \in Handlers : Requested(h) \/ RequestStep(h)
    \/ \E s \in Steps : UpdateAutomation(s)
    \/ \E w \in Workers : Die(w)
    \/ Tick

Spec == Init /\ [][Next]_vars

\* The scheduler starts the job again and again, and what has been started
\* goes on; nobody is obliged to ask for anything.  Nor is time to pass: a unit
\* of it is long enough for the job to run as often as it takes.
FairSpec ==
    /\ Spec
    /\ \A i \in Instances : WF_vars(CronStep(i))
    /\ \A h \in Handlers : WF_vars(RequestStep(h))

-----------------------------------------------------------------------------
(* Properties *)

\* A step's mail goes out at most once, however many instances run the job,
\* requests come and workers die, unless "Send now" pulls a step's record
\* while another worker is still at that step.
AtMostOnce == \A s \in Steps \ raced : sends[s] <= 1

\* The comment over EventAutomationService, with no such proviso.
NeverTwice == \A s \in Steps : sends[s] <= 1

\* The automation log tells the truth: what it calls sent went out, and what it
\* calls skipped or failed, and so lets be sent again, did not.
LogHonest ==
    \A s \in Steps \ raced :
        /\ log[s] = "sent" => sends[s] = 1
        /\ log[s] \in {"skipped", "failed"} => sends[s] = 0

\* The guests are invited once, and once more at most for every worker that
\* died: publish() stores who was mailed only after it has mailed everyone.
InvitedOnce == ~clashed => mailed <= 1 + faults

\* Nothing brings a completed or cancelled event back, or turns one into the
\* other, unless two changes of its status overlapped.
StatusStands ==
    [][(status \in {"completed", "cancelled"} /\ ~clashed')
           => UNCHANGED status]_vars

Live(s) == /\ s \in enabled
           /\ IF s \in PreSteps THEN status = "published"
              ELSE status \in {"published", "completed"}

\* While the event is listed, a step that is due is sent, skipped or failed in
\* the end, and recorded, however late the event was published or the step
\* switched on.  Once the window is past nothing more is recorded.
DueIsRecorded ==
    \A s \in Steps :
        Live(s) /\ now >= DueAt(s) /\ InWindow(now)
            ~> log[s] # "none" \/ ~Live(s) \/ ~InWindow(now)

\* A claimed step gets its result, unless the worker that claimed it died.
SendingSettles ==
    \A s \in Steps :
        log[s] = "sending" ~> log[s] # "sending" \/ s \in abandoned

\* A published event that is over does not stay open, for as long as it is
\* listed: the job closes it if nobody does.  One that is published later
\* than that, as publish() allows, stays open for good.
ClosedInTheEnd ==
    status = "published" /\ now >= EndsAt + CloseDelay /\ InWindow(now)
        ~> status # "published" \/ ~InWindow(now)
=============================================================================
